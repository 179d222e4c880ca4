-------------------------------- MODULE Rollout --------------------------------
(***************************************************************************)
(* The rollout workflow: it raises the traffic of a new version step by    *)
(* step by writing the general traffic strategy of the version's feature   *)
(* flag, after asking before each step whether the flag stands where the   *)
(* step before left it.                                                    *)
(*                                                                         *)
(* Reads and writes are activities: the service retries an attempt that    *)
(* fails, and closes the activity after 15 s whatever its attempt is still *)
(* doing.  An operator may change the strategy at any time (Unleash's UI   *)
(* or API, or a new deployment of the version, which sets it to 0%).       *)
(***************************************************************************)
EXTENDS Integers

CONSTANTS
  Initial, Step, Max,  \* initialRolloutPercent, stepPercent, maxRolloutPercent
  OperatorFlags,       \* strategies an operator may put in place
  Outlives,            \* may a write of a closed activity arrive after the
                       \* sleep of the next step
  MaxErrors,           \* bound: activities that fail
  MaxRetries,          \* bound: attempts that fail and are retried
  MaxChanges           \* bound: changes the operator makes

Strategy == [here : BOOLEAN, percent : 0..100, disabled : BOOLEAN]

ASSUME PercentAssumption  == /\ Max \in 0..100 /\ Initial \in 0..Max
                             /\ Step \in 1..100
ASSUME OperatorAssumption == OperatorFlags \subseteq Strategy
ASSUME OutlivesAssumption == Outlives \in BOOLEAN
ASSUME BoundsAssumption   == /\ MaxErrors \in Nat /\ MaxRetries \in Nat
                             /\ MaxChanges \in Nat

VARIABLES
  flag,     \* the general traffic strategy of the flag
  phase,    \* of the workflow; "asleep" lasts until the check of the step
  percent,  \* the percent of the loop
  attempt,  \* attempt[p]: how far the attempt to write p is
  author,   \* history: who wrote the flag last
  quiet,    \* history: the operator's last change came when the workflow
            \* slept and no write was on its way
  errors, retries, changes

vars == <<flag, phase, percent, attempt, author, quiet, errors, retries, changes>>

Targets == (Initial + 1)..Max
Stages  == {"none", "unread", "found", "missing", "written"}
Running == {"asleep", "applying"}

At(p) == [here |-> TRUE, percent |-> p, disabled |-> FALSE]

InFlight(p)     == attempt[p] \in {"unread", "found", "missing"}
NothingInFlight == \A p \in Targets : ~InFlight(p)
Current(p)      == phase = "applying" /\ p = percent

-----------------------------------------------------------------------------
\* Wrong on purpose: the last percent is left out.
LoopFromShort(p) == /\ percent' = p
                    /\ phase' = IF p < Max THEN "asleep" ELSE "completed"

\* Effect.loop: go to the body for percent p, or end.
LoopFrom(p) == /\ percent' = p
               /\ phase' = IF p <= Max THEN "asleep" ELSE "completed"

Init ==
  /\ flag = At(Initial)
  /\ percent = Initial + Step
  /\ phase = IF Initial + Step <= Max THEN "asleep" ELSE "completed"
  /\ attempt = [p \in Targets |-> "none"]
  /\ author = "rollout"
  /\ quiet = FALSE
  /\ errors = 0 /\ retries = 0 /\ changes = 0

\* Wrong on purpose: a disabled strategy passes.
AutomatedDisabled(expected) == flag.here /\ flag.percent = expected

\* isAutomatedGeneralTrafficRolloutEnabled
Automated(expected) ==
  flag.here /\ flag.percent = expected /\ ~flag.disabled

Wake == phase = "asleep" /\ (Outlives \/ NothingInFlight)

CheckPasses ==
  /\ Wake
  /\ Automated(percent - Step)
  /\ phase' = "applying"
  /\ attempt' = [attempt EXCEPT ![percent] = "unread"]
  /\ UNCHANGED <<flag, percent, author, quiet, errors, retries, changes>>

\* Wrong on purpose: the defect is caught and the step is tried again.
CheckDiesNever ==
  /\ Wake
  /\ ~Automated(percent - Step)
  /\ UNCHANGED vars

\* A defect is not caught: the workflow fails.
CheckDies ==
  /\ Wake
  /\ ~Automated(percent - Step)
  /\ phase' = "failed"
  /\ UNCHANGED <<flag, percent, attempt, author, quiet, errors, retries, changes>>

\* The activity of the check or of the write fails, or takes too long.  The
\* error is logged, the body succeeds, and the loop goes on with the next
\* percent; the last attempt to write may still be under way.
ActivityFails ==
  /\ Wake \/ phase = "applying"
  /\ errors < MaxErrors
  /\ errors' = errors + 1
  /\ LoopFrom(percent + Step)
  /\ UNCHANGED <<flag, attempt, author, quiet, retries, changes>>

Applied ==
  /\ phase = "applying"
  /\ attempt[percent] = "written"
  /\ LoopFrom(percent + Step)
  /\ UNCHANGED <<flag, attempt, author, quiet, errors, retries, changes>>

Cancel ==
  /\ phase \in Running
  /\ phase' = "cancelled"
  /\ UNCHANGED <<flag, percent, attempt, author, quiet, errors, retries, changes>>

-----------------------------------------------------------------------------
(* The attempts of applyWorkflowTrafficRouting.                            *)

AttemptReads(p) ==
  /\ attempt[p] = "unread"
  /\ attempt' = [attempt EXCEPT ![p] = IF flag.here THEN "found" ELSE "missing"]
  /\ UNCHANGED <<flag, phase, percent, author, quiet, errors, retries, changes>>

\* Replaces the strategy it found, or creates it.  When an operator has put one
\* back, the new one is a second of that name, and the first is what counts.
AttemptWrites(p) ==
  /\ \/ attempt[p] = "found" /\ flag.here
     \/ attempt[p] = "missing"
  /\ IF attempt[p] = "missing" /\ flag.here
     THEN UNCHANGED <<flag, author>>
     ELSE flag' = At(p) /\ author' = "rollout"
  /\ attempt' = [attempt EXCEPT ![p] = "written"]
  /\ UNCHANGED <<phase, percent, quiet, errors, retries, changes>>

\* The strategy it found is gone; while the activity is open, it is retried.
AttemptRefused(p) ==
  /\ attempt[p] = "found" /\ ~flag.here
  /\ attempt' = [attempt EXCEPT ![p] = IF Current(p) THEN "unread" ELSE "none"]
  /\ UNCHANGED <<flag, phase, percent, author, quiet, errors, retries, changes>>

\* An attempt is lost, or its answer is, and the service makes another.
AttemptRetried(p) ==
  /\ Current(p)
  /\ attempt[p] # "none"
  /\ retries < MaxRetries
  /\ retries' = retries + 1
  /\ attempt' = [attempt EXCEPT ![p] = "unread"]
  /\ UNCHANGED <<flag, phase, percent, author, quiet, errors, changes>>

\* An attempt of a closed activity is lost.
AttemptLost(p) ==
  /\ InFlight(p) /\ ~Current(p)
  /\ attempt' = [attempt EXCEPT ![p] = "none"]
  /\ UNCHANGED <<flag, phase, percent, author, quiet, errors, retries, changes>>

Attempt(p) == AttemptReads(p) \/ AttemptWrites(p) \/ AttemptRefused(p)

Operator(f) ==
  /\ phase \in Running
  /\ changes < MaxChanges
  /\ f # flag
  /\ flag' = f
  /\ author' = "operator"
  /\ quiet' = (phase = "asleep" /\ NothingInFlight)
  /\ changes' = changes + 1
  /\ UNCHANGED <<phase, percent, attempt, errors, retries>>

Next ==
  \/ CheckPasses \/ CheckDies \/ ActivityFails \/ Applied \/ Cancel
  \/ \E p \in Targets : Attempt(p) \/ AttemptRetried(p) \/ AttemptLost(p)
  \/ \E f \in OperatorFlags : Operator(f)

Spec == Init /\ [][Next]_vars

\* Timers fire, attempts end, and results reach the workflow.
Fairness == WF_vars(\/ CheckPasses \/ CheckDies \/ Applied
                    \/ \E p \in Targets : Attempt(p))

FairSpec == Spec /\ Fairness

-----------------------------------------------------------------------------
(* Properties.                                                             *)

\* Every variable has its type; while the workflow runs, percent is one the loop
\* may write.
TypeOK ==
  /\ flag \in Strategy
  /\ phase \in Running \cup {"completed", "failed", "cancelled"}
  /\ percent \in 0..(Max + Step)
  /\ phase \in Running => percent \in Targets
  /\ attempt \in [Targets -> Stages]
  /\ author \in {"rollout", "operator"}
  /\ quiet \in BOOLEAN
  /\ errors \in 0..MaxErrors
  /\ retries \in 0..MaxRetries
  /\ changes \in 0..MaxChanges

RolloutWrites == flag' # flag /\ author' = "rollout"

\* Whatever fails or arrives late, the rollout only ever adds one step to an
\* enabled strategy: traffic never jumps and never goes back.  ("If at any time
\* during a migration the feature flag rollout percentage is changed [...] the
\* rollout workflow identifies the inconsistency and cancels itself")
OneStepAtATime ==
  [][RolloutWrites => /\ flag.here /\ ~flag.disabled
                      /\ flag'.percent = flag.percent + Step]_vars

\* Even with an operator about, that fails only for a change that races with a
\* step, made between its check and its write.  A change made while the workflow
\* sleeps stands until the operator's next one, however many activities fail;
\* the exception is a percent the schedule itself comes through.
OnlyRacesOverwrite ==
  [][RolloutWrites /\ (author = "operator" => quiet)
       => /\ flag.here /\ ~flag.disabled
          /\ flag'.percent = flag.percent + Step]_vars

\* "Halts when [...] new version reaches 100% rolled out": with no failure and
\* no operator, a workflow that completes has made the last step that fits under
\* its maximum, however often writes were retried.  (That is the maximum itself
\* only if the step divides the way to it.)
CompletesAtLast ==
  phase = "completed" /\ errors = 0 /\ changes = 0
    => /\ flag.here /\ ~flag.disabled
       /\ flag.percent <= Max /\ Max < flag.percent + Step

\* "An error occurred when increasing traffic. Retrying.": a failed activity is
\* made up for, and the version gets all its traffic.
ReachesMax == <>(phase = "cancelled" \/ flag.percent = Max)

\* The workflow ends whatever the operator does and whichever activities fail;
\* no step is tried for ever.
RolloutEnds == <>(phase \notin Running)

================================================================================
