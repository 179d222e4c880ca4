------------------------------- MODULE CiWorkflow -------------------------------
(***************************************************************************)
(* The deployment workflow, parent of rollout, migration and cleanup.      *)
(* Every signal starts a handler; handlers run side by side, share the     *)
(* database and give way at each activity and child.  A handler that fails *)
(* is gone, and nobody is told.  Clients send any signal at any time.  One *)
(* execution at a time has the id of the workflow; when it has closed the  *)
(* next deployment starts another.  Migration and cleanup outlive it,      *)
(* rollout does not.                                                       *)
(***************************************************************************)
EXTENDS Integers

CONSTANTS
  Versions,     \* of the deployed workflow
  Before,       \* the one that may exist to begin with
  None,         \* no version
  MaxSignals,   \* bound: signals from clients
  MaxDeploys,   \* bound: deploy.success signals that one execution takes
  MaxFailures,  \* bound: activities and children that fail
  MaxContinues  \* bound: times continue-as-new is suggested

ASSUME VersionAssumption == Before \in Versions /\ None \notin Versions
ASSUME BoundAssumption == /\ MaxSignals \in Nat /\ MaxDeploys \in Nat
                          /\ MaxFailures \in Nat /\ MaxContinues \in Nat

VARIABLES
  open,         \* an execution of the workflow runs
  db,           \* its database
  handlers,     \* handlers[a][v]: how many of its handlers await a, for version v
  seq,          \* the flags: seqId of each version, from 1; 0 if it has none
  rollout,      \* the child rollout.<name>
  migration,    \* the child migration.<name>
  cleaning,     \* versions with a child cleanup.<task queue>
  serving,      \* history: the version last rolled out
  deploys,      \* history: deploy.success signals of this execution
  started,      \* history: children it has started
  refused,      \* history: it was refused a child, because one had the id
  mixed,        \* history: of its deployments some migrate and some do not
  signals, failures, continues

bounds  == <<signals, failures, continues>>
history == <<serving, deploys, started, refused, mixed>>
vars == <<open, db, handlers, seq, rollout, migration, cleaning,
          history, bounds>>

Version0 == Versions \cup {None}
Children == {"rollout", "migration"}
Exits    == {"none", "ok", "error"}
Kinds    == {"migratory", "nonMigratory"}

\* What a handler waits for: an activity, the start of a child, or its result,
\* which may be there; and the version it passed.
Awaits == {"flags", "apply", "simulate", "traffic", "start rollout", "rollout",
           "rollout ok", "rollout error", "start migration", "migration",
           "migration ok", "migration error", "start cleanup"}

Db == [config : Kinds \cup {"none"},   \* config.isNonMigratory
       from : Version0, to : Version0, \* fromVersion, toVersion
       rollout : Exits,                \* workflows.rollout.exit
       migration : Exits]              \* workflows.migration.exit

EmptyDb == [config |-> "none", from |-> None, to |-> None,
            rollout |-> "none", migration |-> "none"]
NoRollout  == [running |-> FALSE, version |-> None]
NoHandlers == [a \in Awaits |-> [v \in Version0 |-> 0]]
NoneStarted == [k \in Children |-> 0]

Spawn(hs, a, v) == [hs EXCEPT ![a][v] = @ + 1]
Drop(hs, a, v)  == [hs EXCEPT ![a][v] = @ - 1]

Failure == failures < MaxFailures /\ failures' = failures + 1

Init ==
  /\ open = FALSE /\ db = EmptyDb /\ handlers = NoHandlers
  /\ \/ seq = [v \in Versions |-> 0] /\ serving = None
     \/ seq = [v \in Versions |-> IF v = Before THEN 1 ELSE 0] /\ serving = Before
  /\ rollout = NoRollout
  /\ migration = [state |-> "none", version |-> None]
  /\ cleaning = {}
  /\ deploys = 0 /\ started = NoneStarted
  /\ refused = FALSE /\ mixed = FALSE
  /\ signals = 0 /\ failures = 0 /\ continues = 0

-----------------------------------------------------------------------------
(* What the handlers do between two waits *)

Flagged == {v \in Versions : seq[v] > 0}

\* Wrong on purpose: the newest flag, whosever it is.
IsFromHead(v, x) ==
  IF Flagged = {} THEN x = None
  ELSE x \in Flagged /\ \A u \in Flagged : seq[u] <= seq[x]

\* getFromVersion: x has the newest flag that is not v's.
IsFrom(v, x) ==
  LET others == Flagged \ {v}
  IN  IF others = {} THEN x = None
      ELSE x \in others /\ \A u \in others : seq[u] <= seq[x]

\* handleRollout up to its first wait.  It fails if there is neither version.
HandleRollout(hs) ==
  IF db.from # None THEN Spawn(hs, "start rollout", db.to)
  ELSE IF db.to # None THEN Spawn(hs, "traffic", db.to)
  ELSE hs

\* handleMigration up to its first wait.  It fails if there is no toVersion.
HandleMigration(hs) ==
  IF db.config = "migratory" /\ db.from # None /\ db.to # None
  THEN Spawn(hs, "start migration", db.from)
  ELSE hs

\* The blocker is settled: handlers and rollout end with the execution.
Close ==
  /\ open' = FALSE
  /\ handlers' = NoHandlers
  /\ rollout' = NoRollout

-----------------------------------------------------------------------------
(* Signals *)

Signalled == signals < MaxSignals /\ signals' = signals + 1

\* deploy.success, with start: its handler asks for the flags.
Deploy(v) ==
  /\ Signalled
  /\ IF open
     THEN /\ deploys < MaxDeploys
          /\ handlers' = Spawn(handlers, "flags", v)
          /\ deploys' = deploys + 1
          /\ UNCHANGED <<open, db, started, refused, mixed>>
     ELSE /\ open' = TRUE /\ db' = EmptyDb
          /\ handlers' = Spawn(NoHandlers, "flags", v)
          /\ deploys' = 1 /\ started' = NoneStarted
          /\ refused' = FALSE /\ mixed' = FALSE
  /\ UNCHANGED <<seq, rollout, migration, cleaning, serving,
                 failures, continues>>

SignalStartRollout ==
  /\ open /\ Signalled
  /\ handlers' = HandleRollout(handlers)
  /\ UNCHANGED <<open, db, seq, rollout, migration, cleaning,
                 history, failures, continues>>

SignalStartMigration ==
  /\ open /\ Signalled
  /\ handlers' = HandleMigration(handlers)
  /\ UNCHANGED <<open, db, seq, rollout, migration, cleaning,
                 history, failures, continues>>

\* The rollout ends, and the handler that waits for it is told how.
RolloutEnds(told) ==
  /\ rollout' = NoRollout
  /\ handlers' = Spawn(Drop(handlers, "rollout", rollout.version),
                       told, rollout.version)

\* rollout.cancel: a handle that is there is the running rollout's, as each start
\* puts its own; without one, and to a rollout that has ended, cancel does nothing.
CancelRollout ==
  /\ open /\ Signalled
  /\ IF rollout.running THEN RolloutEnds("rollout error")
     ELSE UNCHANGED <<rollout, handlers>>
  /\ UNCHANGED <<open, db, seq, migration, cleaning, history,
                 failures, continues>>

\* A signal that arrives when continue-as-new is suggested is dropped, and the
\* next run starts with nothing.  The rollout is terminated.
ContinueAsNew ==
  /\ open /\ Signalled
  /\ continues < MaxContinues /\ continues' = continues + 1
  /\ db' = EmptyDb /\ handlers' = NoHandlers
  /\ rollout' = NoRollout
  /\ deploys' = 0 /\ started' = NoneStarted
  /\ refused' = FALSE /\ mixed' = FALSE
  /\ UNCHANGED <<open, seq, migration, cleaning, serving, failures>>

-----------------------------------------------------------------------------
(* The deployment's handler *)

\* getAllWorkflowVersionFlags.  Whether this deployment migrates its signal says,
\* and it is written over what another said.
FlagsRead(v) ==
  /\ handlers["flags"][v] > 0
  /\ \E x \in Version0, kind \in Kinds :
       /\ IsFrom(v, x)
       /\ db' = [db EXCEPT !.config = kind, !.from = x]
       /\ mixed' = (mixed \/ db.config \notin {"none", kind})
  /\ handlers' = Spawn(Drop(handlers, "flags", v), "apply", v)
  /\ UNCHANGED <<open, seq, rollout, migration, cleaning, serving, deploys, started,
                 refused, bounds>>

\* applyWorkflowVersionFlag: v has a flag, or gets one with the next number.
GetsFlag(v) ==
  IF v \in Flagged THEN UNCHANGED seq
  ELSE \E n \in 1..(MaxSignals + 1) :
         /\ \A u \in Versions : seq[u] < n
         /\ n = 1 \/ \E u \in Versions : seq[u] = n - 1
         /\ seq' = [seq EXCEPT ![v] = n]

FlagApplied(v) ==
  /\ handlers["apply"][v] > 0
  /\ GetsFlag(v)
  /\ db' = [db EXCEPT !.to = v]
  /\ handlers' = Spawn(Drop(handlers, "apply", v), "simulate", v)
  /\ UNCHANGED <<open, rollout, migration, cleaning, history,
                 bounds>>

\* startWorkflowSimulation of both versions, done or not supported.  A dark
\* deployment ends here, as its signal says; any other routes rollout.start.
Simulated(v) ==
  /\ handlers["simulate"][v] > 0
  /\ LET hs == Drop(handlers, "simulate", v)
     IN  handlers' \in {hs, HandleRollout(hs)}
  /\ UNCHANGED <<open, db, seq, rollout, migration, cleaning,
                 history, bounds>>

\* applyWorkflowTrafficRouting: all traffic, as there is no other version.
TrafficRouted(v) ==
  /\ handlers["traffic"][v] > 0
  /\ handlers' = Drop(handlers, "traffic", v)
  /\ serving' = v
  /\ UNCHANGED <<open, db, seq, rollout, migration, cleaning,
                 deploys, started, refused, mixed, bounds>>

\* An activity fails, done or not, and its handler with it.
ActivityFails(v) ==
  /\ Failure
  /\ \E a \in {"flags", "apply", "simulate", "traffic"} :
       /\ handlers[a][v] > 0
       /\ handlers' = Drop(handlers, a, v)
       /\ UNCHANGED seq \/ (a = "apply" /\ GetsFlag(v))
       /\ UNCHANGED serving \/ (a = "traffic" /\ serving' = v)
  /\ UNCHANGED <<open, db, rollout, migration, cleaning, deploys,
                 started, refused, mixed, signals, continues>>

-----------------------------------------------------------------------------
(* Children.  One whose id is taken is refused.  The handlers ask whether a   *)
(* Cause is that error, which it never is, so this is a failure like others. *)

Refused(a, v) ==
  /\ handlers[a][v] > 0
  /\ handlers' = Drop(handlers, a, v)
  /\ refused' = TRUE

\* The rollout starts, and the migration is asked for.
RolloutStarts(v) ==
  /\ handlers["start rollout"][v] > 0 /\ ~rollout.running
  /\ rollout' = [running |-> TRUE, version |-> v]
  /\ handlers' = HandleMigration(Spawn(Drop(handlers, "start rollout", v),
                                       "rollout", v))
  /\ started' = [started EXCEPT !["rollout"] = @ + 1]
  /\ UNCHANGED <<open, db, seq, migration, cleaning, serving, deploys,
                 refused, mixed, bounds>>

RolloutRefused(v) ==
  /\ rollout.running /\ Refused("start rollout", v)
  /\ UNCHANGED <<open, db, seq, rollout, migration, cleaning,
                 serving, deploys, started, mixed, bounds>>

RolloutSucceeds ==
  /\ rollout.running /\ rollout.version # None
  /\ RolloutEnds("rollout ok")
  /\ serving' = rollout.version
  /\ UNCHANGED <<open, db, seq, migration, cleaning, deploys,
                 started, refused, mixed, bounds>>

\* It fails in the end, or at once if it was given no version.
RolloutFails ==
  /\ rollout.running
  /\ \/ rollout.version = None /\ UNCHANGED failures
     \/ Failure
  /\ RolloutEnds("rollout error")
  /\ UNCHANGED <<open, db, seq, migration, cleaning, history,
                 signals, continues>>

MigrationStarts(v) ==
  /\ handlers["start migration"][v] > 0 /\ migration.state = "none"
  /\ migration' = [state |-> "running", version |-> v]
  /\ handlers' = Spawn(Drop(handlers, "start migration", v), "migration", v)
  /\ started' = [started EXCEPT !["migration"] = @ + 1]
  /\ UNCHANGED <<open, db, seq, rollout, cleaning, serving, deploys,
                 refused, mixed, bounds>>

MigrationRefused(v) ==
  /\ migration.state # "none" /\ Refused("start migration", v)
  /\ UNCHANGED <<open, db, seq, rollout, migration, cleaning,
                 serving, deploys, started, mixed, bounds>>

\* The migration ends; the handler that waits for it, if it was started by this
\* execution, is told.
MigrationEnds(told) ==
  /\ migration' = [state |-> "none", version |-> None]
  /\ LET v == migration.version
     IN  handlers' = IF handlers["migration"][v] > 0
                     THEN Spawn(Drop(handlers, "migration", v), told, v)
                     ELSE handlers

\* It has archived the old version's flag.
MigrationSucceeds ==
  /\ migration.state = "running"
  /\ MigrationEnds("migration ok")
  /\ seq' = [seq EXCEPT ![migration.version] = 0]
  /\ UNCHANGED <<open, db, rollout, cleaning, history, bounds>>

\* Its function rejects with an Exit, which fails its tasks but not itself: it
\* stays until an operator terminates it.
MigrationSticks ==
  /\ migration.state = "running" /\ Failure
  /\ migration' = [migration EXCEPT !.state = "stuck"]
  /\ UNCHANGED <<open, db, handlers, seq, rollout, cleaning,
                 history, signals, continues>>

MigrationTerminated ==
  /\ migration.state # "none" /\ Failure
  /\ MigrationEnds("migration error")
  /\ UNCHANGED <<open, db, seq, rollout, cleaning, history,
                 signals, continues>>

CleanupEnds(v) ==
  /\ v \in cleaning
  /\ cleaning' = cleaning \ {v}
  /\ seq' = [seq EXCEPT ![v] = 0]
  /\ UNCHANGED <<open, db, handlers, rollout, migration, history,
                 bounds>>
-----------------------------------------------------------------------------
(* The ends of the children *)

RolloutEnd   == {"rollout ok", "rollout error"}
MigrationEnd == {"migration ok", "migration error"}
ExitOf(told) == IF told \in {"rollout ok", "migration ok"} THEN "ok" ELSE "error"

\* rollout.done: closes unless there is a cleanup to start, or a migration whose
\* end is to come.
RolloutDone(told, v) ==
  /\ handlers[told][v] > 0
  /\ db' = [db EXCEPT !.rollout = ExitOf(told)]
  /\ \/ /\ db.config = "nonMigratory" /\ db.from # None
        /\ handlers' = Spawn(Drop(handlers, told, v), "start cleanup", db.from)
        /\ UNCHANGED <<open, rollout>>
     \/ /\ db.config # "nonMigratory" /\ db.migration = "none"
        /\ handlers' = Drop(handlers, told, v)
        /\ UNCHANGED <<open, rollout>>
     \/ /\ IF db.config = "nonMigratory" THEN db.from = None
                                       ELSE db.migration # "none"
        /\ Close
  /\ UNCHANGED <<seq, migration, cleaning, history, bounds>>

\* Wrong on purpose: leaves the closing to rollout.done; closes whatever the
\* rollout does.
MigrationDoneSilent(told, v) ==
  /\ handlers[told][v] > 0
  /\ db' = [db EXCEPT !.migration = ExitOf(told)]
  /\ handlers' = Drop(handlers, told, v)
  /\ UNCHANGED <<open, seq, rollout, migration, cleaning, history,
                 bounds>>
MigrationDoneEarly(told, v) ==
  /\ handlers[told][v] > 0
  /\ db' = [db EXCEPT !.migration = ExitOf(told)]
  /\ Close
  /\ UNCHANGED <<seq, migration, cleaning, history, bounds>>

\* migration.done
MigrationDone(told, v) ==
  /\ handlers[told][v] > 0
  /\ db' = [db EXCEPT !.migration = ExitOf(told)]
  /\ \/ db.rollout # "none" /\ Close
     \/ /\ db.rollout = "none"
        /\ handlers' = Drop(handlers, told, v)
        /\ UNCHANGED <<open, rollout>>
  /\ UNCHANGED <<seq, migration, cleaning, history, bounds>>

\* handleCleanup, and the close that follows it.
CleanupStarts(v) ==
  /\ handlers["start cleanup"][v] > 0 /\ v \notin cleaning
  /\ cleaning' = cleaning \cup {v}
  /\ Close
  /\ UNCHANGED <<db, seq, migration, history, bounds>>

CleanupRefused(v) ==
  /\ v \in cleaning /\ Refused("start cleanup", v)
  /\ UNCHANGED <<open, db, seq, rollout, migration, cleaning,
                 serving, deploys, started, mixed, bounds>>

-----------------------------------------------------------------------------
Client == \/ \E v \in Versions : Deploy(v)
          \/ SignalStartRollout \/ SignalStartMigration \/ CancelRollout
          \/ ContinueAsNew

Activity(v) == FlagsRead(v) \/ FlagApplied(v) \/ Simulated(v) \/ TrafficRouted(v)

Child(v) ==
  \/ RolloutStarts(v) \/ RolloutRefused(v)
  \/ MigrationStarts(v) \/ MigrationRefused(v)
  \/ CleanupStarts(v) \/ CleanupRefused(v)
  \/ \E told \in RolloutEnd : RolloutDone(told, v)
  \/ \E told \in MigrationEnd : MigrationDone(told, v)

Faults == \/ \E v \in Versions : ActivityFails(v)
          \/ RolloutFails \/ MigrationSticks \/ MigrationTerminated

Next == \/ Client \/ Faults \/ RolloutSucceeds \/ MigrationSucceeds
        \/ \E v \in Versions : Activity(v) \/ CleanupEnds(v)
        \/ \E v \in Version0 : Child(v)

Spec == Init /\ [][Next]_vars

\* Activities and children come to an end and are told of; no client signals,
\* and no cleanup, whose old workflows may run on, is relied on.
Fairness == /\ \A v \in Versions : WF_vars(Activity(v))
            /\ \A v \in Version0 : WF_vars(Child(v))
            /\ WF_vars(RolloutSucceeds \/ RolloutFails)
            /\ WF_vars(MigrationSucceeds)

FairSpec == Spec /\ Fairness

-----------------------------------------------------------------------------
\* Every variable has its type.  Only a rollout can have been given no version.
TypeOK ==
  /\ open \in BOOLEAN /\ refused \in BOOLEAN /\ mixed \in BOOLEAN
  /\ db \in Db
  /\ handlers \in [Awaits -> [Version0 -> Nat]]
  /\ \A a \in Awaits : handlers[a][None] > 0 =>
        a \in {"start rollout", "rollout"} \cup RolloutEnd
  /\ seq \in [Versions -> Nat]
  /\ rollout \in [running : BOOLEAN, version : Version0]
  /\ migration \in [state : {"none", "running", "stuck"}, version : Version0]
  /\ migration.state # "none" => migration.version # None
  /\ cleaning \subseteq Versions
  /\ serving \in Version0
  /\ deploys \in Nat /\ started \in [Children -> Nat]
  /\ signals \in 0..MaxSignals /\ failures \in 0..MaxFailures
  /\ continues \in 0..MaxContinues

\* Once the rollout has ended, the deployment is open only while its migration's
\* end has not been heard of, or for its cleanup, which may be refused; one that
\* does not migrate only for the latter, unless its execution was told of another
\* that does.
OpenUntilDone ==
  open /\ db.rollout # "none" =>
    \/ db.migration = "none" /\ (db.config = "nonMigratory" => mixed)
    \/ refused
    \/ \E v \in Version0 : handlers["start cleanup"][v] > 0

\* When it closes its rollout does not run on, and no handler waits for its
\* migration: nothing is terminated half-way and no result is missed.  That is if
\* it has started one of each, otherwise the exit of the first closes it while the
\* second runs; and a deployment that does not migrate closes also while the
\* migration runs of another of the same execution that does.
ClosesWhenDone ==
  [][open /\ ~open' /\ (\A k \in Children : started[k] <= 1) =>
       /\ ~rollout.running
       /\ mixed \/ \A v \in Version0 : handlers["migration"][v] = 0]_vars

\* The version that has been rolled out is not the one that is cleaned up, if only
\* one deployment was made.
CleansReplaced ==
  [][\A v \in Versions :
       /\ v \in cleaning' \ cleaning
       /\ deploys = 1 /\ db.rollout = "ok"
       => v # serving]_vars

\* A rollout of a version ends with the deployment closed, unless something fails
\* or gets stuck, the run continues as new, or a child is refused.
RolloutCloses ==
  [](failures = 0 /\ continues = 0 /\ ~refused /\ deploys <= 1) =>
    (rollout.running /\ rollout.version # None ~> ~open)
=============================================================================
