----------------------------- MODULE RolloutProofs -----------------------------
(***************************************************************************)
(* Theorems about Rollout, for all percents, errors and retries.           *)
(*                                                                         *)
(* The argument: when no write outlives the sleep of the next step, at     *)
(* most one attempt is in flight, and it belongs to the step under way if  *)
(* there is one.  The check of a step left the flag one step short of its  *)
(* target, so as long as no operator raced with the step the flag is there *)
(* or already at the target, whatever is retried.                          *)
(***************************************************************************)
EXTENDS Rollout, TLAPS

\* No operator change came between a check and the end of its attempts.
NoRace == author = "operator" => quiet

\* The flag is where an attempt to write p expects it.
ReadyFor(p) == flag = At(p - Step) \/ (flag = At(p) /\ author = "rollout")

OneInFlight ==
  /\ \A p, q \in Targets : InFlight(p) /\ InFlight(q) => p = q
  /\ \A p \in Targets : phase = "applying" /\ InFlight(p) => p = percent

FlagIsReady ==
  NoRace => /\ \A p \in Targets : InFlight(p) => ReadyFor(p)
            /\ phase = "applying" => ReadyFor(percent)

IInv == TypeOK /\ OneInFlight /\ FlagIsReady

-----------------------------------------------------------------------------
\* Type correctness and the bound of the loop need nothing of the operator
\* nor of late writes.
LEMMA InitTyped == Init => TypeOK
<1> SUFFICES ASSUME Init PROVE TypeOK
  OBVIOUS
<1> USE PercentAssumption, BoundsAssumption DEF Init
<1>1. flag \in Strategy
  BY DEF Strategy, At
<1>2. phase \in Running \cup {"completed"} /\ percent \in 0..(Max + Step)
  BY DEF Running
<1>3. attempt \in [Targets -> Stages]
  BY DEF Stages
<1>4. errors \in 0..MaxErrors /\ retries \in 0..MaxRetries /\ changes \in 0..MaxChanges
  OBVIOUS
<1>5. phase \in Running => percent \in Targets
  BY DEF Running, Targets
<1> QED
  BY <1>1, <1>2, <1>3, <1>4, <1>5 DEF TypeOK

\* Every step keeps the types.
LEMMA NextTyped ==
  ASSUME TypeOK, [Next]_vars
  PROVE  TypeOK'
<1> USE PercentAssumption, BoundsAssumption, OperatorAssumption
        DEF TypeOK, Running, Targets
<1>1. CASE CheckPasses
  BY <1>1 DEF CheckPasses, Wake, Stages
<1>2. CASE CheckDies
  BY <1>2 DEF CheckDies, Wake
<1>3. CASE ActivityFails
  BY <1>3 DEF ActivityFails, Wake, LoopFrom
<1>4. CASE Applied
  BY <1>4 DEF Applied, LoopFrom
<1>5. CASE Cancel
  BY <1>5 DEF Cancel
<1>6. ASSUME NEW p \in Targets, AttemptReads(p) PROVE TypeOK'
  BY <1>6 DEF AttemptReads, Stages
<1>7. ASSUME NEW p \in Targets, AttemptWrites(p) PROVE TypeOK'
  <2>1. At(p) \in Strategy
    BY DEF At, Strategy
  <2> QED
    BY <1>7, <2>1 DEF AttemptWrites, Stages
<1>8. ASSUME NEW p \in Targets, AttemptRefused(p) PROVE TypeOK'
  BY <1>8 DEF AttemptRefused, Stages
<1>9. ASSUME NEW p \in Targets, AttemptRetried(p) PROVE TypeOK'
  BY <1>9 DEF AttemptRetried, Stages
<1>10. ASSUME NEW p \in Targets, AttemptLost(p) PROVE TypeOK'
  BY <1>10 DEF AttemptLost, Stages
<1>11. ASSUME NEW f \in OperatorFlags, Operator(f) PROVE TypeOK'
  BY <1>11 DEF Operator
<1>12. CASE UNCHANGED vars
  BY <1>12 DEF vars
<1> QED
  BY <1>1, <1>2, <1>3, <1>4, <1>5, <1>6, <1>7, <1>8, <1>9, <1>10, <1>11, <1>12
     DEF Next, Attempt

\* Every variable of the rollout workflow and its flag keeps its type, whatever
\* an operator does and however late a write arrives.
THEOREM TypeCorrect == Spec => []TypeOK
<1>1. Init => TypeOK
  BY InitTyped
<1>2. TypeOK /\ [Next]_vars => TypeOK'
  BY NextTyped
<1> QED
  BY <1>1, <1>2, PTL DEF Spec

-----------------------------------------------------------------------------
\* Nothing is in flight at first.
LEMMA InitIInv == Init => IInv
<1> SUFFICES ASSUME Init PROVE OneInFlight /\ FlagIsReady
  BY InitTyped DEF IInv
<1>1. phase # "applying"
  BY DEF Init
<1>2. \A p \in Targets : ~InFlight(p)
  BY DEF Init, InFlight
<1> QED
  BY <1>1, <1>2 DEF OneInFlight, FlagIsReady

\* A flag that passes the check of the step to p is At(p - Step).
LEMMA CheckedFlag ==
  ASSUME TypeOK, NEW p \in Int, Automated(p)
  PROVE  flag = At(p)
BY DEF TypeOK, Strategy, Automated, At

\* Only the attempt of the step under way, or else the one attempt that was
\* left over, is ever in flight.
LEMMA NextOneInFlight ==
  ASSUME Outlives = FALSE, IInv, [Next]_vars
  PROVE  OneInFlight'
<1> USE DEF IInv, TypeOK, OneInFlight, InFlight
<1>1. CASE CheckPasses
  BY <1>1 DEF CheckPasses, Wake, NothingInFlight
<1>2. CASE CheckDies \/ ActivityFails \/ Applied \/ Cancel
  BY <1>2 DEF CheckDies, ActivityFails, Applied, Cancel, LoopFrom
<1>3. ASSUME NEW p \in Targets, Attempt(p) \/ AttemptLost(p) PROVE OneInFlight'
  <2>1. \A q \in Targets : InFlight(q)' => InFlight(q)
    BY <1>3 DEF Attempt, AttemptReads, AttemptWrites, AttemptRefused, AttemptLost
  <2> QED
    BY <1>3, <2>1 DEF Attempt, AttemptReads, AttemptWrites, AttemptRefused,
                      AttemptLost
<1>4. ASSUME NEW p \in Targets, AttemptRetried(p) PROVE OneInFlight'
  BY <1>4 DEF AttemptRetried, Current
<1>5. ASSUME NEW f \in OperatorFlags, Operator(f) PROVE OneInFlight'
  BY <1>5 DEF Operator
<1>6. CASE UNCHANGED vars
  BY <1>6 DEF vars
<1> QED
  BY <1>1, <1>2, <1>3, <1>4, <1>5, <1>6 DEF Next

\* The flag stays where the attempts in flight expect it, unless an operator
\* changes it under them.
LEMMA NextFlagIsReady ==
  ASSUME Outlives = FALSE, IInv, [Next]_vars
  PROVE  FlagIsReady'
<1> USE DEF IInv
<1>1. CASE CheckPasses
  <2>1. phase = "asleep" /\ percent \in Targets /\ percent - Step \in Int
    BY <1>1, PercentAssumption DEF CheckPasses, Wake, TypeOK, Running, Targets
  <2>2. flag = At(percent - Step)
    BY <1>1, <2>1, CheckedFlag DEF CheckPasses
  <2>3. \A p \in Targets : InFlight(p)' => p = percent
    BY <1>1 DEF CheckPasses, Wake, NothingInFlight, InFlight, TypeOK
  <2> QED
    BY <1>1, <2>2, <2>3 DEF CheckPasses, FlagIsReady, ReadyFor
<1>2. CASE CheckDies \/ ActivityFails \/ Applied \/ Cancel
  <2>1. UNCHANGED <<flag, attempt, author, quiet>> /\ phase' # "applying"
    BY <1>2 DEF CheckDies, ActivityFails, Applied, Cancel, LoopFrom
  <2> QED
    BY <2>1 DEF FlagIsReady, NoRace, ReadyFor, InFlight
<1>3. ASSUME NEW p \in Targets, AttemptReads(p) \/ AttemptRefused(p)
                                \/ AttemptLost(p)
      PROVE  FlagIsReady'
  <2>1. \A q \in Targets : InFlight(q)' => InFlight(q)
    BY <1>3 DEF AttemptReads, AttemptRefused, AttemptLost, InFlight, TypeOK
  <2>2. UNCHANGED <<flag, phase, percent, author, quiet>>
    BY <1>3 DEF AttemptReads, AttemptRefused, AttemptLost
  <2> QED
    BY <2>1, <2>2 DEF FlagIsReady, NoRace, ReadyFor
<1>4. ASSUME NEW p \in Targets, AttemptWrites(p) PROVE FlagIsReady'
  <2>1. InFlight(p) /\ attempt' = [attempt EXCEPT ![p] = "written"]
        /\ UNCHANGED <<phase, percent, quiet>>
    BY <1>4 DEF AttemptWrites, InFlight
  <2>2. \A q \in Targets : ~InFlight(q)'
    BY <2>1 DEF OneInFlight, InFlight, TypeOK
  <2>3. phase = "applying" => percent = p
    BY <2>1 DEF OneInFlight
  <2>4. CASE UNCHANGED <<flag, author>>
    BY <2>1, <2>2, <2>4 DEF FlagIsReady, NoRace, ReadyFor
  <2>5. CASE flag' = At(p) /\ author' = "rollout"
    BY <2>1, <2>2, <2>3, <2>5 DEF FlagIsReady, ReadyFor
  <2> QED
    BY <1>4, <2>4, <2>5 DEF AttemptWrites
<1>5. ASSUME NEW p \in Targets, AttemptRetried(p) PROVE FlagIsReady'
  <2>1. \A q \in Targets : InFlight(q)' => q = percent
    BY <1>5 DEF AttemptRetried, Current, OneInFlight, InFlight, TypeOK
  <2> QED
    BY <1>5, <2>1 DEF AttemptRetried, Current, FlagIsReady, NoRace, ReadyFor
<1>6. ASSUME NEW f \in OperatorFlags, Operator(f) PROVE FlagIsReady'
  <2>1. NoRace' => phase = "asleep" /\ NothingInFlight
    BY <1>6 DEF Operator, NoRace
  <2> QED
    BY <1>6, <2>1 DEF Operator, FlagIsReady, NothingInFlight, InFlight
<1>7. CASE UNCHANGED vars
  BY <1>7 DEF vars, FlagIsReady, NoRace, ReadyFor, InFlight
<1> QED
  BY <1>1, <1>2, <1>3, <1>4, <1>5, <1>6, <1>7 DEF Next, Attempt

\* IInv is inductive.
LEMMA NextIInv == ASSUME Outlives = FALSE, IInv, [Next]_vars PROVE IInv'
BY NextTyped, NextOneInFlight, NextFlagIsReady DEF IInv

\* A step of the rollout that changes the flag writes the target of an attempt
\* in flight, one step above what the flag was.
LEMMA WritesOneStep ==
  ASSUME IInv, Next, RolloutWrites, NoRace
  PROVE  flag.here /\ ~flag.disabled /\ flag'.percent = flag.percent + Step
<1>1. PICK p \in Targets : AttemptWrites(p)
  <2>1. ~ \E f \in OperatorFlags : Operator(f)
    BY DEF RolloutWrites, Operator
  <2> QED
    BY <2>1 DEF RolloutWrites, Next, CheckPasses, CheckDies, ActivityFails, Applied,
                Cancel, Attempt, AttemptReads, AttemptRefused, AttemptRetried,
                AttemptLost
<1>2. flag' = At(p) /\ flag' # flag /\ InFlight(p)
  BY <1>1 DEF AttemptWrites, RolloutWrites, InFlight
<1>3. flag = At(p - Step)
  BY <1>2 DEF IInv, FlagIsReady, ReadyFor
<1> QED
  BY <1>2, <1>3, PercentAssumption DEF At, Targets

\* A rollout that does not race with an operator writes only the next step of
\* its schedule, over a flag that stands one step short of it, however many
\* activities fail and are retried.
THEOREM OnlyRacesOverwriteFlag ==
  ASSUME Outlives = FALSE
  PROVE  Spec => OnlyRacesOverwrite
<1>1. Init => IInv
  BY InitIInv
<1>2. IInv /\ [Next]_vars => IInv'
  BY NextIInv
<1>3. IInv /\ [Next]_vars =>
        [RolloutWrites /\ (author = "operator" => quiet)
          => /\ flag.here /\ ~flag.disabled
             /\ flag'.percent = flag.percent + Step]_vars
  BY WritesOneStep DEF NoRace
<1> QED
  BY <1>1, <1>2, <1>3, PTL DEF Spec, OnlyRacesOverwrite

\* With no operator about, every write of the rollout is one step of its
\* schedule: traffic never jumps and never goes back.
THEOREM OneStepWhenAlone ==
  ASSUME Outlives = FALSE, OperatorFlags = {}
  PROVE  Spec => OneStepAtATime
<1> DEFINE Alone == IInv /\ author = "rollout"
<1>1. Init => Alone
  BY InitIInv DEF Init
<1>2. ASSUME Alone, [Next]_vars PROVE Alone'
  <2>1. IInv'
    BY <1>2, NextIInv
  <2>2. author' = "rollout"
    BY <1>2 DEF Next, vars, CheckPasses, CheckDies, ActivityFails, Applied, Cancel,
                Attempt, AttemptReads, AttemptWrites, AttemptRefused,
                AttemptRetried, AttemptLost
  <2> QED
    BY <2>1, <2>2
<1>3. ASSUME Alone, [Next]_vars
      PROVE  [RolloutWrites => /\ flag.here /\ ~flag.disabled
                               /\ flag'.percent = flag.percent + Step]_vars
  BY <1>3, WritesOneStep DEF NoRace
<1> HIDE DEF Alone
<1> QED
  BY <1>1, <1>2, <1>3, PTL DEF Spec, OneStepAtATime

-----------------------------------------------------------------------------
\* Without failures and changes the flag follows the loop: between steps it
\* stands at the step before, in a step an attempt leads to its percent, and no
\* attempt misses the strategy.
Followed ==
  errors = 0 /\ changes = 0 =>
    /\ author = "rollout"
    /\ \A p \in Targets : attempt[p] # "missing"
    /\ phase \in {"asleep", "completed"} =>
         flag = At(percent - Step) /\ NothingInFlight
    /\ phase = "applying" /\ attempt[percent] = "written" => flag = At(percent)
    /\ phase = "completed" => Max < percent /\ percent <= Max + Step

\* The flag an attempt in flight is meant for is there.
LEMMA ReadyIsHere ==
  ASSUME IInv, author = "rollout", NEW p \in Targets, InFlight(p)
  PROVE  flag.here
<1>1. ReadyFor(p)
  BY DEF IInv, FlagIsReady, NoRace
<1>2. CASE flag = At(p - Step)
  BY <1>2 DEF At
<1>3. CASE flag = At(p)
  BY <1>3 DEF At
<1> QED
  BY <1>1, <1>2, <1>3 DEF ReadyFor

\* Every step keeps the flag and the loop together.
LEMMA NextFollowed ==
  ASSUME Outlives = FALSE, IInv, Followed, [Next]_vars
  PROVE  Followed'
<1> SUFFICES ASSUME errors' = 0, changes' = 0
             PROVE  /\ author' = "rollout"
                    /\ \A p \in Targets : attempt'[p] # "missing"
                    /\ phase' \in {"asleep", "completed"} =>
                         flag' = At(percent' - Step) /\ NothingInFlight'
                    /\ phase' = "applying" /\ attempt'[percent'] = "written"
                         => flag' = At(percent')
                    /\ phase' = "completed" => Max < percent' /\ percent' <= Max + Step
  BY DEF Followed, NothingInFlight, InFlight
<1> USE DEF NothingInFlight, InFlight
<1>1. CASE CheckPasses
  <2>1. phase = "asleep" /\ percent \in Targets /\ errors = 0 /\ changes = 0
    BY <1>1 DEF CheckPasses, Wake, IInv, TypeOK, Running
  <2>2. /\ phase' = "applying" /\ attempt'[percent'] = "unread" /\ author' = author
        /\ \A p \in Targets : attempt'[p] \in {attempt[p], "unread"}
    BY <1>1, <2>1 DEF CheckPasses, IInv, TypeOK
  <2> QED
    BY <2>1, <2>2 DEF Followed
<1>2. CASE CheckDies \/ Cancel
  BY <1>2 DEF CheckDies, Cancel, Followed
<1>3. CASE ActivityFails
  BY <1>3 DEF ActivityFails, IInv, TypeOK
<1>4. CASE Applied
  <2>1. /\ phase = "applying" /\ attempt[percent] = "written"
        /\ errors = 0 /\ changes = 0 /\ percent \in Targets
        /\ UNCHANGED <<flag, attempt, author>> /\ LoopFrom(percent + Step)
    BY <1>4 DEF Applied, IInv, TypeOK, Running
  <2>2. flag = At(percent) /\ author = "rollout"
    BY <2>1 DEF Followed
  <2>3. \A p \in Targets : ~InFlight(p)
    BY <2>1 DEF IInv, OneInFlight
  <2>4. percent' - Step = percent /\ percent' = percent + Step
    BY <2>1, PercentAssumption DEF LoopFrom, Targets
  <2>5. phase' = "completed" => Max < percent' /\ percent' <= Max + Step
    BY <2>1, <2>4, PercentAssumption DEF LoopFrom, Targets
  <2>6. phase' # "applying"
    BY <2>1 DEF LoopFrom
  <2> QED
    BY <2>1, <2>2, <2>3, <2>4, <2>5, <2>6
<1>5. ASSUME NEW p \in Targets, AttemptReads(p) \/ AttemptRefused(p)
                                \/ AttemptLost(p) \/ AttemptRetried(p)
      PROVE  Followed'
  <2>1. /\ UNCHANGED <<flag, phase, percent, author>> /\ errors = 0 /\ changes = 0
        /\ phase \notin {"asleep", "completed"} \/ ~AttemptRetried(p)
    BY <1>5 DEF AttemptReads, AttemptRefused, AttemptLost, AttemptRetried, Current
  <2>2. \A q \in Targets : attempt'[q] = "written" => attempt[q] = "written"
    BY <1>5 DEF AttemptReads, AttemptRefused, AttemptLost, AttemptRetried,
                IInv, TypeOK
  <2>3. phase \notin {"asleep", "completed"}
    BY <1>5, <2>1 DEF AttemptReads, AttemptRefused, AttemptLost, Followed
  <2>4. phase = "applying" => percent \in Targets
    BY DEF IInv, TypeOK, Running
  <2>5. InFlight(p) => flag.here
    BY <2>1, ReadyIsHere DEF Followed
  <2>6. \A q \in Targets : attempt'[q] # "missing"
    BY <1>5, <2>1, <2>5 DEF AttemptReads, AttemptRefused, AttemptLost,
       AttemptRetried, IInv, TypeOK, Followed
  <2> QED
    BY <2>1, <2>2, <2>3, <2>4, <2>6 DEF Followed
<1>6. ASSUME NEW p \in Targets, AttemptWrites(p) PROVE Followed'
  <2>1. /\ InFlight(p) /\ UNCHANGED <<phase, percent>> /\ errors = 0 /\ changes = 0
        /\ attempt' = [attempt EXCEPT ![p] = "written"]
    BY <1>6 DEF AttemptWrites
  <2>2. phase \notin {"asleep", "completed"} /\ author = "rollout"
    BY <2>1 DEF Followed
  <2>3. phase = "applying" => p = percent
    BY <2>1 DEF IInv, OneInFlight
  <2>4. attempt[p] # "missing" /\ \A q \in Targets : attempt'[q] # "missing"
    BY <2>1 DEF Followed, IInv, TypeOK
  <2>5. flag' = At(p) /\ author' = "rollout"
    BY <1>6, <2>1, <2>4 DEF AttemptWrites
  <2> QED
    BY <2>1, <2>2, <2>3, <2>4, <2>5 DEF Followed
<1>7. ASSUME NEW f \in OperatorFlags, Operator(f) PROVE FALSE
  BY <1>7 DEF Operator, IInv, TypeOK
<1>8. CASE UNCHANGED vars
  BY <1>8 DEF vars, Followed
<1> QED
  BY <1>1, <1>2, <1>3, <1>4, <1>5, <1>6, <1>7, <1>8 DEF Next, Attempt, Followed

\* A rollout that completes without a failure and with no operator about has
\* made the last step that fits, whatever was retried.
THEOREM CompletionIsAtLast ==
  ASSUME Outlives = FALSE
  PROVE  Spec => []CompletesAtLast
<1>1. Init => IInv /\ Followed
  <2> SUFFICES ASSUME Init PROVE Followed
    BY InitIInv
  <2>1. flag = At(percent - Step) /\ percent = Initial + Step
    BY PercentAssumption DEF Init
  <2>2. /\ NothingInFlight /\ author = "rollout" /\ phase # "applying"
        /\ \A p \in Targets : attempt[p] # "missing"
    BY DEF Init, NothingInFlight, InFlight
  <2>3. phase = "completed" => Max < percent /\ percent <= Max + Step
    BY PercentAssumption DEF Init
  <2> QED
    BY <2>1, <2>2, <2>3 DEF Followed
<1>2. (IInv /\ Followed) /\ [Next]_vars => (IInv /\ Followed)'
  BY NextIInv, NextFollowed
<1>3. IInv /\ Followed => CompletesAtLast
  <2> SUFFICES ASSUME IInv, Followed, phase = "completed", errors = 0, changes = 0
               PROVE  /\ flag.here /\ ~flag.disabled
                      /\ flag.percent <= Max /\ Max < flag.percent + Step
    BY DEF CompletesAtLast
  <2>1. /\ flag = At(percent - Step) /\ Max < percent /\ percent <= Max + Step
        /\ percent \in Int
    BY DEF Followed, IInv, TypeOK
  <2>2. flag.percent = percent - Step /\ flag.here /\ ~flag.disabled
    BY <2>1 DEF At
  <2> QED
    BY <2>1, <2>2, PercentAssumption
<1> QED
  BY <1>1, <1>2, <1>3, PTL DEF Spec

================================================================================
