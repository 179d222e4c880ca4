------------------------------- MODULE Migration -------------------------------
(***************************************************************************)
(* The workflows that empty and remove an old version: migration, which    *)
(* asks the feature flag which workflows of the old task queue are due,    *)
(* signals them in batches and polls until the queue is empty, and         *)
(* cleanup, for versions that do not migrate, which only polls.  Either    *)
(* then deletes the Kubernetes deployments of the old version and archives *)
(* its flag.                                                               *)
(*                                                                         *)
(* Their activities fail, end with an unknown result, and may go on after  *)
(* the workflow has given them up.  Around them the flag changes, and the  *)
(* workflows they act on start, move and end.                              *)
(***************************************************************************)
EXTENDS Integers

CONSTANTS
  Workflows,     \* workflow ids
  Deployments,   \* of the old version
  Programs,      \* which of the two run
  MaxFailures,   \* bound: activities and signals that fail or get lost
  MaxStarts,     \* bound: workflows started on the old queue meanwhile
  MaxLowers,     \* bound: times the operator takes an id back from the flag
  MaxContinues   \* bound: times continue-as-new is suggested

ASSUME ProgramAssumption == Programs \subseteq {"migration", "cleanup"}
ASSUME BoundsAssumption  == /\ MaxFailures \in Nat /\ MaxStarts \in Nat
                            /\ MaxLowers \in Nat /\ MaxContinues \in Nat

VARIABLES
  place,      \* place[w]: the task queue w runs on, "none" if it does not run
  heard,      \* workflows on the old queue that were told to migrate
  due,        \* ids for which the flag chooses the new version
  flagUp,     \* the flag of the old version is not archived
  deployed,   \* deployments of the old version
  program,    \* the workflow that runs
  pc,         \* its next activity, "sleep", or how it ended; its function rejects
              \* with an Exit, so "failed" fails its tasks and leaves it standing
  configured, \* its arguments are those it was started with
  signaled,   \* db.signaledWorkflows
  batch,      \* ids the activity at hand has yet to signal
  succeeded,  \* ids it has signalled
  late,       \* ids left to an attempt whose activity was given up
  removable,  \* deployments yet to be deleted
  told,       \* history: how often each id was told
  confirmed,  \* history: ids of which a batch has reported success
  wasDue,     \* history: ids that were due at some time
  newcomers,  \* history: started on the old queue since the last poll
  failures, starts, lowers, continues

world   == <<place, heard, due, flagUp, deployed>>
fiber   == <<program, pc, configured, signaled, batch, succeeded, late,
             removable>>
history == <<told, confirmed, wasDue, newcomers>>
bounds  == <<failures, starts, lowers, continues>>
vars    == <<world, fiber, history, bounds>>

Queues == {"none", "old", "new"}
Activities == {"list", "signal", "poll", "find", "remove", "archive"}
Ended  == {"done", "failed"}

Old == {w \in Workflows : place[w] = "old"}

\* What a listing of the running workflows of the configured queue returns.
\* Without its configuration the migration lists all that runs, itself included.
Listed == IF configured THEN Old ELSE {}

First == IF program = "migration" THEN "list" ELSE "poll"

Init ==
  /\ program \in Programs /\ pc = First /\ configured = TRUE
  /\ place \in [Workflows -> {"none", "old"}]
  /\ heard = {} /\ flagUp = TRUE
  /\ due = {} /\ wasDue = {}
  /\ deployed \in SUBSET Deployments
  /\ signaled = {} /\ batch = {} /\ succeeded = {} /\ late = {}
  /\ removable = {} /\ confirmed = {}
  /\ told = [w \in Workflows |-> 0] /\ newcomers = {}
  /\ failures = 0 /\ starts = 0 /\ lowers = 0 /\ continues = 0

\* Something fails, within the bound.
Failure == failures < MaxFailures /\ failures' = failures + 1

-----------------------------------------------------------------------------
(* The migration's iteration: list, signal, poll *)

\* Wrong on purpose: does not ask the flag.
BatchUnasked(asked) == asked \ signaled

\* Those of the asked ids that are due and were not signalled before.
Batch(asked) == (asked \cap due) \ signaled

\* getWorkflowIdsToMigrateToTaskQueueByFeatureFlag; ids the flag client fails
\* for count as remaining.
List ==
  /\ pc = "list"
  /\ \E asked \in SUBSET Listed :
       /\ \/ asked = Listed /\ UNCHANGED failures
          \/ asked # Listed /\ Failure
       /\ batch' = Batch(asked)
       /\ pc' = IF Batch(asked) = {} THEN "poll" ELSE "signal"
  /\ succeeded' = {}
  /\ UNCHANGED <<world, program, configured, signaled, late, removable,
                 history, starts, lowers, continues>>

\* A migrate signal reaches the running execution with the id of w.
Hear(w) ==
  /\ place[w] # "none"
  /\ told' = [told EXCEPT ![w] = @ + 1]
  /\ heard' = IF place[w] = "old" THEN heard \cup {w} ELSE heard

\* Wrong on purpose: failures are recorded as successes.
SignalRecorded(w) ==
  /\ pc = "signal" /\ w \in batch
  /\ batch' = batch \ {w}
  /\ succeeded' = succeeded \cup {w}
  /\ \/ Hear(w) /\ UNCHANGED failures
     \/ Failure /\ UNCHANGED <<told, heard>>
  /\ UNCHANGED <<place, due, flagUp, deployed, program, pc, configured, signaled,
                 late, removable, confirmed, wasDue, newcomers, starts, lowers,
                 continues>>

\* signalMigration of one id: it is told, or told although the call fails, or
\* not told because nothing runs with the id or the call fails.
Signal(w) ==
  /\ pc = "signal" /\ w \in batch
  /\ batch' = batch \ {w}
  /\ \/ Hear(w) /\ succeeded' = succeeded \cup {w} /\ UNCHANGED failures
     \/ Hear(w) /\ Failure /\ UNCHANGED succeeded
     \/ place[w] = "none" /\ UNCHANGED <<succeeded, failures, told, heard>>
     \/ place[w] # "none" /\ Failure /\ UNCHANGED <<succeeded, told, heard>>
  /\ UNCHANGED <<place, due, flagUp, deployed, program, pc, configured, signaled,
                 late, removable, confirmed, wasDue, newcomers, starts, lowers,
                 continues>>

\* Wrong on purpose: assoc for updateIn, which forgets the batches before.
BatchDoneForgets ==
  /\ pc = "signal" /\ batch = {}
  /\ signaled' = succeeded
  /\ confirmed' = confirmed \cup succeeded
  /\ pc' = "poll"
  /\ UNCHANGED <<world, program, configured, batch, succeeded, late, removable,
                 told, wasDue, newcomers, bounds>>

BatchDone ==
  /\ pc = "signal" /\ batch = {}
  /\ signaled' = signaled \cup succeeded
  /\ confirmed' = confirmed \cup succeeded
  /\ pc' = "poll"
  /\ UNCHANGED <<world, program, configured, batch, succeeded, late, removable,
                 told, wasDue, newcomers, bounds>>

\* The batch has one attempt.  If it takes too long or its answer is lost, no
\* success is recorded, and the attempt may still go through its ids.
BatchFails ==
  /\ pc = "signal"
  /\ Failure
  /\ late' = late \cup batch
  /\ batch' = {} /\ succeeded' = {}
  /\ pc' = "sleep"
  /\ UNCHANGED <<world, program, configured, signaled, removable, history,
                 starts, lowers, continues>>

SignalLate(w) ==
  /\ w \in late
  /\ late' = late \ {w}
  /\ Hear(w) \/ UNCHANGED <<told, heard>>
  /\ UNCHANGED <<place, due, flagUp, deployed, program, pc, configured, signaled,
                 batch, succeeded, removable, confirmed, wasDue, newcomers,
                 bounds>>

\* Wrong on purpose: the queue counts as empty when all on it were signalled.
PollSignaled ==
  /\ pc = "poll"
  /\ pc' = IF configured /\ Listed \subseteq signaled THEN "find" ELSE "sleep"
  /\ newcomers' = {}
  /\ UNCHANGED <<world, program, configured, signaled, batch, succeeded, late,
                 removable, told, confirmed, wasDue, bounds>>

\* getRunningWorkflowIds, or getRunningWorkflowIdsCount of cleanup.  Cleanup
\* dies if it has no configuration to take the queue from.
Poll ==
  /\ pc = "poll"
  /\ pc' = IF configured THEN IF Listed = {} THEN "find" ELSE "sleep"
           ELSE IF program = "migration" THEN "sleep" ELSE "failed"
  /\ newcomers' = {}
  /\ UNCHANGED <<world, program, configured, signaled, batch, succeeded, late,
                 removable, told, confirmed, wasDue, bounds>>

\* A listing fails: the iteration ends, the schedule goes on.
ListingFails ==
  /\ pc \in {"list", "poll"}
  /\ Failure
  /\ pc' = "sleep"
  /\ UNCHANGED <<world, program, configured, signaled, batch, succeeded, late,
                 removable, history, starts, lowers, continues>>

\* Schedule.spaced: the next iteration.
Wake ==
  /\ pc = "sleep"
  /\ pc' = First
  /\ UNCHANGED <<world, program, configured, signaled, batch, succeeded, late,
                 removable, history, bounds>>

\* The run continues as new with the database where its arguments should be:
\* the next run starts with an empty database and finds no configuration.
ContinueAsNew ==
  /\ pc = "sleep"
  /\ continues < MaxContinues /\ continues' = continues + 1
  /\ pc' = First
  /\ configured' = FALSE
  /\ signaled' = {}
  /\ UNCHANGED <<world, program, batch, succeeded, late, removable, history,
                 failures, starts, lowers>>

-----------------------------------------------------------------------------
(* Removal, which is not retried *)

\* kubectl get: an empty list is a failure.
NoDeploymentsFound == deployed = {}

\* getWorkflowDeployments.  If there is none the handler hands undefined to
\* Effect.partition, which dies.
Find ==
  /\ pc = "find"
  /\ removable' = deployed
  /\ pc' = IF NoDeploymentsFound THEN "failed" ELSE "remove"
  /\ UNCHANGED <<world, program, configured, signaled, batch, succeeded, late,
                 history, bounds>>

\* kubectl delete: what it writes to stderr counts as a failure, and the deployment
\* may be gone all the same.
Delete(d) ==
  \/ deployed' = deployed \ {d} /\ UNCHANGED failures
  \/ deployed' \in {deployed, deployed \ {d}} /\ Failure

\* deleteKubernetesDeployment; a failure is logged and the rest goes on.
Remove(d) ==
  /\ pc = "remove" /\ d \in removable
  /\ removable' = removable \ {d}
  /\ Delete(d)
  /\ pc' = IF removable = {d} THEN "archive" ELSE "remove"
  /\ UNCHANGED <<place, heard, due, flagUp, program, configured, signaled, batch,
                 succeeded, late, history, starts, lowers, continues>>

\* deleteWorkflowVersionFlag.  Its answer may be lost: the attempts after it
\* find no flag, and fail.
Archive ==
  /\ pc = "archive"
  /\ flagUp' = FALSE
  /\ \/ pc' = "done" /\ UNCHANGED failures
     \/ pc' = "failed" /\ Failure
  /\ UNCHANGED <<place, heard, due, deployed, program, configured, signaled,
                 batch, succeeded, late, removable, history, starts, lowers,
                 continues>>

RemovalFails ==
  /\ pc \in {"find", "archive"}
  /\ Failure
  /\ pc' = "failed"
  /\ UNCHANGED <<world, program, configured, signaled, batch, succeeded, late,
                 removable, history, starts, lowers, continues>>

-----------------------------------------------------------------------------
(* The flag and the workflows *)

\* The rollout of the new version, or an operator, makes w due.
Raise(w) ==
  /\ w \notin due
  /\ due' = due \cup {w} /\ wasDue' = wasDue \cup {w}
  /\ UNCHANGED <<place, heard, flagUp, deployed, fiber, told, confirmed,
                 newcomers, bounds>>

Lower(w) ==
  /\ w \in due
  /\ lowers < MaxLowers /\ lowers' = lowers + 1
  /\ due' = due \ {w}
  /\ UNCHANGED <<place, heard, flagUp, deployed, fiber, history, failures, starts,
                 continues>>

\* A workflow starts on the old queue: the flags chose it a moment ago, or the
\* instruction named it.  The id may have been used before.
StartOld(w) ==
  /\ place[w] = "none"
  /\ starts < MaxStarts /\ starts' = starts + 1
  /\ place' = [place EXCEPT ![w] = "old"]
  /\ newcomers' = newcomers \cup {w}
  /\ UNCHANGED <<heard, due, flagUp, deployed, fiber, told, confirmed, wasDue,
                 failures, lowers, continues>>

\* A workflow that was told continues as new on the new queue.
Move(w) ==
  /\ w \in heard
  /\ place' = [place EXCEPT ![w] = "new"]
  /\ heard' = heard \ {w}
  /\ UNCHANGED <<due, flagUp, deployed, fiber, history, bounds>>

Finish(w) ==
  /\ place[w] # "none"
  /\ place' = [place EXCEPT ![w] = "none"]
  /\ heard' = heard \ {w}
  /\ UNCHANGED <<due, flagUp, deployed, fiber, history, bounds>>

-----------------------------------------------------------------------------
Iterate == \/ List \/ BatchDone \/ Poll \/ Wake
           \/ \E w \in Workflows : Signal(w)
Removal == Find \/ Archive \/ \E d \in Deployments : Remove(d)
Faults  == ListingFails \/ BatchFails \/ RemovalFails \/ ContinueAsNew

Environment(w) == \/ Raise(w) \/ Lower(w) \/ StartOld(w) \/ Move(w) \/ Finish(w)
                  \/ SignalLate(w)

Next == Iterate \/ Removal \/ Faults \/ \E w \in Workflows : Environment(w)

Spec == Init /\ [][Next]_vars

\* The workflow's activities and timers come to an end.  A workflow that was told
\* moves or ends in time, and so does every workflow that does not migrate.
Leaves(w) == /\ w \in heard \/ (program = "cleanup" /\ w \in Old)
             /\ Move(w) \/ Finish(w)

Fairness == /\ WF_vars(Iterate \/ Removal)
            /\ \A w \in Workflows : WF_vars(Leaves(w))

FairSpec == Spec /\ Fairness

-----------------------------------------------------------------------------
TypeOK ==
  /\ place \in [Workflows -> Queues]
  /\ heard \subseteq Old
  /\ due \subseteq wasDue /\ wasDue \subseteq Workflows
  /\ flagUp \in BOOLEAN
  /\ deployed \subseteq Deployments /\ removable \subseteq Deployments
  /\ program \in Programs
  /\ pc \in Activities \cup {"sleep"} \cup Ended
  /\ program = "cleanup" => pc \notin {"list", "signal"}
  /\ configured \in BOOLEAN
  /\ signaled \subseteq Workflows /\ batch \subseteq Workflows
  /\ succeeded \subseteq Workflows /\ late \subseteq Workflows
  /\ pc # "signal" => batch = {}
  /\ told \in [Workflows -> Nat] /\ confirmed \subseteq Workflows
  /\ newcomers \subseteq Workflows
  /\ failures \in 0..MaxFailures /\ starts \in 0..MaxStarts
  /\ lowers \in 0..MaxLowers /\ continues \in 0..MaxContinues

\* Once the old queue has been found empty, only workflows that started after
\* that poll are on it while deployments and flag go: nothing that was there to
\* be seen loses its workers.
OnlyNewcomersStranded ==
  pc \in {"find", "remove", "archive", "done"} => Old \subseteq newcomers

\* Nobody is told to migrate for whom the flag has never chosen the new version,
\* and cleanup tells nobody.
ToldOnlyWhenDue ==
  [][\A w \in Workflows : told'[w] > told[w] =>
       w \in wasDue /\ program = "migration"]_vars

\* Once a batch has reported that an id was signalled the id is not told again,
\* in this run or the next, unless by an attempt that the workflow has given up.
NotToldAgain ==
  [][\A w \in Workflows : told'[w] > told[w] =>
       w \notin confirmed \/ w \in late]_vars

\* Workflows on the old queue whose id was told and confirmed,
\* but which were not told themselves: the id belonged to another before.
Overlooked == {w \in Old : told[w] > 0 /\ w \in confirmed /\ w \notin heard}

\* It has finished, or stands still after a removal that failed.
Finished == pc = "done" \/ (pc = "failed" /\ (failures > 0 \/ deployed = {}))

\* If the flag chooses the new version for everyone in the end, no id is reused
\* and the run keeps its configuration, the queue is emptied and removed, unless
\* an activity of the removal fails or there is no deployment.
MigrationEnds ==
  <>[](due = Workflows) /\ [](Overlooked = {} /\ configured) => <>Finished

\* The same whether or not the run continues as new, as the documentation has it.
\* It does not hold.
EndsAfterContinuing ==
  <>[](due = Workflows) /\ [](Overlooked = {}) => <>Finished
=============================================================================
