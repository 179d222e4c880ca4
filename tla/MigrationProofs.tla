---------------------------- MODULE MigrationProofs ----------------------------
(***************************************************************************)
(* Theorems about Migration, for any number of workflows, deployments,     *)
(* failures and restarts.                                                  *)
(*                                                                         *)
(* The argument: an id enters a batch only if it is due and unconfirmed,   *)
(* and leaves it by being signalled or by being given up; a run that lost  *)
(* its configuration has no batch at all, so it matters to nobody that it  *)
(* forgot whom it signalled.  From the poll that finds the queue empty on, *)
(* whatever starts on the queue is a newcomer.                             *)
(***************************************************************************)
EXTENDS Migration, TLAPS

USE ProgramAssumption, BoundsAssumption

\* Whom the workflow is about to tell.
BatchIsDue == batch \subseteq wasDue /\ late \subseteq wasDue
BatchIsNew == batch \cap confirmed = {}

\* What a run knows about the batches before it.
MemoryInv == /\ configured => signaled = confirmed
             /\ ~configured => batch = {}

CleanupTellsNobody == program = "cleanup" => batch = {} /\ late = {}

TellInv == BatchIsDue /\ BatchIsNew /\ MemoryInv /\ CleanupTellsNobody

-----------------------------------------------------------------------------
(* One signal *)

\* To be told leaves the types and moves nobody.
LEMMA HearTyped ==
  ASSUME TypeOK, NEW w \in Workflows, Hear(w), UNCHANGED place
  PROVE  /\ told' \in [Workflows -> Nat]
         /\ heard' \subseteq Old'
         /\ \A v \in Workflows : told'[v] > told[v] => v = w
<1>1. told' \in [Workflows -> Nat]
  BY DEF TypeOK, Hear
<1>2. heard' \subseteq Old'
  BY DEF TypeOK, Hear, Old
<1>3. ASSUME NEW v \in Workflows, told'[v] > told[v]
      PROVE  v = w
  <2> SUFFICES ASSUME v # w PROVE FALSE
    OBVIOUS
  <2>1. told'[v] = told[v]
    BY DEF TypeOK, Hear
  <2> QED
    BY <2>1, <1>3 DEF TypeOK
<1> QED
  BY <1>1, <1>2, <1>3

\* Where nothing is told the counts stay.
LEMMA NobodyTold ==
  ASSUME TypeOK, UNCHANGED told, NEW v \in Workflows
  PROVE  ~(told'[v] > told[v])
BY DEF TypeOK

-----------------------------------------------------------------------------
(* Types *)

\* The program starts in a typed state.
LEMMA InitTyped == Init => TypeOK
<1> SUFFICES ASSUME Init PROVE TypeOK
  OBVIOUS
<1>1. place \in [Workflows -> Queues] /\ heard \subseteq Old
  BY DEF Init, Queues, Old
<1>2. program \in Programs /\ pc \in Activities /\ (program = "cleanup" => pc = "poll")
  BY DEF Init, First, Activities
<1>3. told \in [Workflows -> Nat]
  BY DEF Init
<1>4. pc # "signal"
  BY DEF Init, First
<1> QED
  BY <1>1, <1>2, <1>3, <1>4 DEF Init, TypeOK

\* Every step of the iteration keeps the types.
LEMMA IterateTyped ==
  ASSUME TypeOK, Iterate
  PROVE  TypeOK'
<1>1. CASE List
  <2>1. PICK asked \in SUBSET Listed :
          /\ failures' \in 0..MaxFailures
          /\ batch' = Batch(asked)
          /\ pc' = IF Batch(asked) = {} THEN "poll" ELSE "signal"
    BY <1>1 DEF List, Failure, TypeOK
  <2>2. batch' \subseteq Workflows
    BY <2>1 DEF Batch, Listed, Old
  <2>3. program = "migration"
    BY <1>1 DEF List, TypeOK
  <2> QED
    BY <1>1, <2>1, <2>2, <2>3
       DEF List, TypeOK, Old, Activities, world, history
<1>2. CASE BatchDone
  BY <1>2 DEF BatchDone, TypeOK, Old, Activities, world, bounds
<1>3. CASE Poll
  BY <1>3 DEF Poll, TypeOK, Old, Activities, Ended, world, bounds
<1>4. CASE Wake
  BY <1>4 DEF Wake, First, TypeOK, Old, Activities, world, history, bounds
<1>5. ASSUME NEW w \in Workflows, Signal(w)
      PROVE  TypeOK'
  <2>1. /\ told' \in [Workflows -> Nat]
        /\ heard' \subseteq Old'
    <3>1. CASE Hear(w)
      BY <1>5, <3>1, HearTyped DEF Signal
    <3>2. CASE UNCHANGED <<told, heard>>
      BY <1>5, <3>2 DEF Signal, TypeOK, Old
    <3> QED
      BY <1>5, <3>1, <3>2 DEF Signal
  <2>2. succeeded' \subseteq Workflows /\ failures' \in 0..MaxFailures
    BY <1>5 DEF Signal, Failure, TypeOK
  <2> QED
    BY <1>5, <2>1, <2>2 DEF Signal, TypeOK
<1> QED
  BY <1>1, <1>2, <1>3, <1>4, <1>5 DEF Iterate

\* Every step of the removal keeps the types.
LEMMA RemovalTyped ==
  ASSUME TypeOK, Removal
  PROVE  TypeOK'
<1>1. CASE Find
  BY <1>1 DEF Find, NoDeploymentsFound, TypeOK, Old, Activities, Ended, world, history, bounds
<1>2. CASE Archive
  <2>1. pc' \in Ended /\ batch = {} /\ flagUp' \in BOOLEAN
    BY <1>2 DEF Archive, Ended, TypeOK
  <2>2. failures' \in 0..MaxFailures
    BY <1>2 DEF Archive, Failure, TypeOK
  <2> QED
    BY <1>2, <2>1, <2>2 DEF Archive, TypeOK, Old, Ended, history
<1>3. ASSUME NEW d \in Deployments, Remove(d)
      PROVE  TypeOK'
  BY <1>3 DEF Remove, Delete, Failure, TypeOK, Old, Activities, history
<1> QED
  BY <1>1, <1>2, <1>3 DEF Removal

\* Every failure keeps the types.
LEMMA FaultsTyped ==
  ASSUME TypeOK, Faults
  PROVE  TypeOK'
<1>1. CASE ListingFails
  BY <1>1 DEF ListingFails, Failure, TypeOK, Old, world, history
<1>2. CASE BatchFails
  BY <1>2 DEF BatchFails, Failure, TypeOK, Old, world, history
<1>3. CASE RemovalFails
  <2>1. pc' \in Ended /\ batch = {}
    BY <1>3 DEF RemovalFails, Ended, TypeOK
  <2>2. failures' \in 0..MaxFailures
    BY <1>3 DEF RemovalFails, Failure, TypeOK
  <2> QED
    BY <1>3, <2>1, <2>2 DEF RemovalFails, TypeOK, Old, Ended, world, history
<1>4. CASE ContinueAsNew
  <2>1. pc' \in Activities /\ batch = {} /\ program' = program
        /\ (program = "cleanup" => pc' \notin {"list", "signal"})
    BY <1>4 DEF ContinueAsNew, First, Activities, TypeOK
  <2>2. continues' \in 0..MaxContinues
    BY <1>4 DEF ContinueAsNew, TypeOK
  <2> QED
    BY <1>4, <2>1, <2>2 DEF ContinueAsNew, TypeOK, Old, world, history
<1> QED
  BY <1>1, <1>2, <1>3, <1>4 DEF Faults

\* Flag and workflows keep the types.
LEMMA EnvironmentTyped ==
  ASSUME TypeOK, NEW w \in Workflows, Environment(w)
  PROVE  TypeOK'
<1>1. CASE Raise(w)
  BY <1>1 DEF Raise, TypeOK, Old, fiber, bounds
<1>2. CASE Lower(w)
  BY <1>2 DEF Lower, TypeOK, Old, fiber, history
<1>3. CASE StartOld(w)
  <2>1. place' \in [Workflows -> Queues] /\ heard' \subseteq Old'
    BY <1>3 DEF StartOld, TypeOK, Old, Queues
  <2> QED
    BY <1>3, <2>1 DEF StartOld, TypeOK, fiber
<1>4. CASE Move(w)
  <2>1. place' \in [Workflows -> Queues] /\ heard' \subseteq Old'
    BY <1>4 DEF Move, TypeOK, Old, Queues
  <2> QED
    BY <1>4, <2>1 DEF Move, TypeOK, fiber, history, bounds
<1>5. CASE Finish(w)
  <2>1. place' \in [Workflows -> Queues] /\ heard' \subseteq Old'
    BY <1>5 DEF Finish, TypeOK, Old, Queues
  <2> QED
    BY <1>5, <2>1 DEF Finish, TypeOK, fiber, history, bounds
<1>6. CASE SignalLate(w)
  <2>1. /\ told' \in [Workflows -> Nat]
        /\ heard' \subseteq Old'
    <3>1. CASE Hear(w)
      BY <1>6, <3>1, HearTyped DEF SignalLate
    <3>2. CASE UNCHANGED <<told, heard>>
      BY <1>6, <3>2 DEF SignalLate, TypeOK, Old
    <3> QED
      BY <1>6, <3>1, <3>2 DEF SignalLate
  <2> QED
    BY <1>6, <2>1 DEF SignalLate, TypeOK, bounds
<1> QED
  BY <1>1, <1>2, <1>3, <1>4, <1>5, <1>6 DEF Environment

\* Every step keeps the types.
LEMMA NextTyped ==
  ASSUME TypeOK, [Next]_vars
  PROVE  TypeOK'
<1>1. CASE Next
  BY <1>1, IterateTyped, RemovalTyped, FaultsTyped, EnvironmentTyped DEF Next
<1>2. CASE UNCHANGED vars
  BY <1>2 DEF vars, world, fiber, history, bounds, TypeOK, Old
<1> QED
  BY <1>1, <1>2

\* Of every behaviour the states are well typed; the batch is empty outside its
\* activity, only workflows on the old queue have heard, and cleanup never lists
\* nor signals.
THEOREM TypeCorrect == Spec => []TypeOK
<1>1. TypeOK /\ [Next]_vars => TypeOK'
  BY NextTyped
<1> QED
  BY InitTyped, <1>1, PTL DEF Spec

-----------------------------------------------------------------------------
(* Who is told *)

\* Every step of the iteration keeps what is known of the batch.
LEMMA IterateTells ==
  ASSUME TypeOK, TellInv, Iterate
  PROVE  TellInv'
<1> USE DEF TellInv, BatchIsDue, BatchIsNew, MemoryInv, CleanupTellsNobody
<1>1. CASE List
  <2>1. PICK asked \in SUBSET Listed : batch' = Batch(asked)
    BY <1>1 DEF List
  <2>2. batch' \subseteq due /\ batch' \cap signaled = {}
    BY <2>1 DEF Batch
  <2>3. ~configured => batch' = {}
    BY <2>1 DEF Batch, Listed
  <2>4. program # "cleanup"
    BY <1>1 DEF List, TypeOK
  <2> QED
    BY <1>1, <2>2, <2>3, <2>4 DEF List, TypeOK, history
<1>2. CASE BatchDone
  <2>1. batch = {} /\ batch' = {}
    BY <1>2 DEF BatchDone
  <2> QED
    BY <1>2, <2>1 DEF BatchDone
<1>3. CASE Poll
  BY <1>3 DEF Poll
<1>4. CASE Wake
  BY <1>4 DEF Wake, history
<1>5. ASSUME NEW w \in Workflows, Signal(w)
      PROVE  TellInv'
  BY <1>5 DEF Signal
<1> QED
  BY <1>1, <1>2, <1>3, <1>4, <1>5 DEF Iterate

\* Every other step keeps it too.
LEMMA OthersTell ==
  ASSUME TypeOK, TellInv,
         \/ Removal \/ Faults \/ UNCHANGED vars
         \/ \E w \in Workflows : Environment(w)
  PROVE  TellInv'
<1> USE DEF TellInv, BatchIsDue, BatchIsNew, MemoryInv, CleanupTellsNobody
<1>1. CASE Removal
  BY <1>1 DEF Removal, Find, Archive, Remove, Delete, history
<1>2. CASE Faults
  <2>1. CASE ListingFails \/ RemovalFails
    BY <2>1 DEF ListingFails, RemovalFails, history
  <2>2. CASE BatchFails
    BY <2>2 DEF BatchFails, history
  <2>3. CASE ContinueAsNew
    <3>1. batch = {}
      BY <2>3 DEF ContinueAsNew, TypeOK
    <3> QED
      BY <2>3, <3>1 DEF ContinueAsNew, history
  <2> QED
    BY <1>2, <2>1, <2>2, <2>3 DEF Faults
<1>3. CASE UNCHANGED vars
  BY <1>3 DEF vars, fiber, history
<1>4. ASSUME NEW w \in Workflows, Environment(w)
      PROVE  TellInv'
  <2>1. CASE Raise(w)
    BY <2>1 DEF Raise, fiber
  <2>2. CASE Lower(w) \/ StartOld(w)
    BY <2>2 DEF Lower, StartOld, fiber, history
  <2>3. CASE Move(w) \/ Finish(w)
    BY <2>3 DEF Move, Finish, fiber, history
  <2>4. CASE SignalLate(w)
    BY <2>4 DEF SignalLate
  <2> QED
    BY <1>4, <2>1, <2>2, <2>3, <2>4 DEF Environment
<1> QED
  BY <1>1, <1>2, <1>3, <1>4

\* What is known of the batch holds throughout.
LEMMA TellInvariant == Spec => [](TypeOK /\ TellInv)
<1>1. Init => TellInv
  BY DEF Init, TellInv, BatchIsDue, BatchIsNew, MemoryInv, CleanupTellsNobody
<1>2. TypeOK /\ TellInv /\ [Next]_vars => TellInv'
  BY IterateTells, OthersTell DEF Next
<1> QED
  BY InitTyped, NextTyped, <1>1, <1>2, PTL DEF Spec

\* Only the two kinds of signal tell anybody, and only whom they are meant for.
LEMMA WhoIsTold ==
  ASSUME TypeOK, [Next]_vars, NEW v \in Workflows, told'[v] > told[v]
  PROVE  v \in batch \/ v \in late
<1>1. CASE \E w \in Workflows : Signal(w) \/ SignalLate(w)
  <2>1. PICK w \in Workflows : Signal(w) \/ SignalLate(w)
    BY <1>1
  <2>2. (w \in batch \/ w \in late) /\ UNCHANGED place
    BY <2>1 DEF Signal, SignalLate
  <2>3. Hear(w) \/ UNCHANGED told
    BY <2>1 DEF Signal, SignalLate
  <2>4. Hear(w)
    BY <2>3, NobodyTold
  <2> QED
    BY <2>2, <2>4, HearTyped
<1>2. CASE ~\E w \in Workflows : Signal(w) \/ SignalLate(w)
  <2>1. CASE Iterate
    BY <2>1, <1>2, NobodyTold DEF Iterate, List, BatchDone, Poll, Wake, history
  <2>2. CASE Removal
    BY <2>2, NobodyTold DEF Removal, Find, Archive, Remove, Delete, history
  <2>3. CASE Faults
    BY <2>3, NobodyTold
       DEF Faults, ListingFails, BatchFails, RemovalFails, ContinueAsNew, history
  <2>4. ASSUME NEW w \in Workflows, Environment(w)
        PROVE  FALSE
    BY <2>4, <1>2, NobodyTold
       DEF Environment, Raise, Lower, StartOld, Move, Finish, history
  <2>5. CASE UNCHANGED vars
    BY <2>5, NobodyTold DEF vars, history
  <2> QED
    BY <2>1, <2>2, <2>3, <2>4, <2>5 DEF Next
<1> QED
  BY <1>1, <1>2

\* Nobody is told to migrate for whom the flag has never chosen the new version,
\* and cleanup tells nobody.
THEOREM OnlyTheDueAreTold == Spec => ToldOnlyWhenDue
<1>1. TypeOK /\ TellInv /\ [Next]_vars
        => [\A w \in Workflows : told'[w] > told[w] =>
              w \in wasDue /\ program = "migration"]_vars
  BY WhoIsTold DEF TellInv, BatchIsDue, CleanupTellsNobody, TypeOK
<1> QED
  BY TellInvariant, <1>1, PTL DEF Spec, ToldOnlyWhenDue

\* An id whose signal was confirmed is told again only by an attempt that the
\* workflow has given up, even after it continued as new and forgot the id.
THEOREM ConfirmedAreNotToldAgain == Spec => NotToldAgain
<1>1. TypeOK /\ TellInv /\ [Next]_vars
        => [\A w \in Workflows : told'[w] > told[w] =>
              w \notin confirmed \/ w \in late]_vars
  BY WhoIsTold DEF TellInv, BatchIsNew
<1> QED
  BY TellInvariant, <1>1, PTL DEF Spec, NotToldAgain

-----------------------------------------------------------------------------
(* Who is left without workers *)

\* Every step keeps that only newcomers can be stranded.
LEMMA NextStrandsNewcomers ==
  ASSUME TypeOK, OnlyNewcomersStranded, [Next]_vars
  PROVE  OnlyNewcomersStranded'
<1> USE DEF OnlyNewcomersStranded
<1>1. CASE Iterate
  <2>1. CASE Poll
    <3>1. pc' = "find" => Old = {}
      BY <2>1 DEF Poll, Listed
    <3> QED
      BY <2>1, <3>1 DEF Poll, Old, world
  <2>2. CASE List \/ BatchDone \/ Wake
    BY <2>2 DEF List, BatchDone, Wake, First
  <2>3. ASSUME NEW w \in Workflows, Signal(w)
        PROVE  OnlyNewcomersStranded'
    BY <2>3 DEF Signal
  <2> QED
    BY <1>1, <2>1, <2>2, <2>3 DEF Iterate
<1>2. CASE Removal
  BY <1>2 DEF Removal, Find, Archive, Remove, Delete, Old, world, history
<1>3. CASE Faults
  BY <1>3 DEF Faults, ListingFails, BatchFails, RemovalFails, ContinueAsNew, First
<1>4. ASSUME NEW w \in Workflows, Environment(w)
      PROVE  OnlyNewcomersStranded'
  <2>1. CASE StartOld(w)
    <3>1. Old' \subseteq Old \cup {w}
      BY <2>1 DEF StartOld, Old, TypeOK
    <3> QED
      BY <2>1, <3>1 DEF StartOld, fiber
  <2>2. CASE Move(w) \/ Finish(w)
    <3>1. Old' \subseteq Old
      BY <2>2 DEF Move, Finish, Old, TypeOK
    <3> QED
      BY <2>2, <3>1 DEF Move, Finish, fiber, history
  <2>3. CASE Raise(w) \/ Lower(w) \/ SignalLate(w)
    BY <2>3 DEF Raise, Lower, SignalLate, Old, fiber, history
  <2> QED
    BY <1>4, <2>1, <2>2, <2>3 DEF Environment
<1>5. CASE UNCHANGED vars
  BY <1>5 DEF vars, world, fiber, history, Old
<1> QED
  BY <1>1, <1>2, <1>3, <1>4, <1>5 DEF Next

\* While deployments and flag go, only workflows that started after the deciding
\* poll are on the old queue.
THEOREM StrandedAreNewcomers == Spec => []OnlyNewcomersStranded
<1>1. Init => OnlyNewcomersStranded
  BY DEF Init, First, OnlyNewcomersStranded
<1>2. TypeOK /\ OnlyNewcomersStranded /\ [Next]_vars => OnlyNewcomersStranded'
  BY NextStrandsNewcomers
<1> QED
  BY TypeCorrect, <1>1, <1>2, PTL DEF Spec
-----------------------------------------------------------------------------
(* Who is remembered without having been told: what MigrationEnds rests on *)

\* On the old queue and passed over as signalled, and yet never told.
Unaware == {w \in Old : w \in signaled \cup succeeded /\ w \notin heard}

\* The id of such a workflow was free when it joined them: it belongs to a later
\* workflow than the one that was told.
RememberedWereTold ==
  [][\A w \in Unaware' \ Unaware : place[w] = "none"]_vars

\* A step that moves nobody, lets nobody forget what it heard and remembers nobody
\* it did not remember makes nobody unaware.
LEMMA NoneForgotten ==
  ASSUME UNCHANGED place, heard \subseteq heard',
         (signaled' \cup succeeded') \subseteq (signaled \cup succeeded)
  PROVE  Unaware' \subseteq Unaware
BY DEF Unaware, Old

\* The iteration remembers whom it has told.
LEMMA IterateRemembersTheTold ==
  ASSUME TypeOK, Iterate
  PROVE  Unaware' \subseteq Unaware
<1>1. CASE List \/ BatchDone \/ Poll \/ Wake
  BY <1>1, NoneForgotten DEF List, BatchDone, Poll, Wake, world
<1>2. ASSUME NEW w \in Workflows, Signal(w)
      PROVE  Unaware' \subseteq Unaware
  <2>1. UNCHANGED <<place, signaled>>
    BY <1>2 DEF Signal
  <2>2. CASE Hear(w)
    <3>1. heard \subseteq heard' /\ (w \in Old => w \in heard')
      BY <2>2 DEF Hear, Old
    <3>2. succeeded' \subseteq succeeded \cup {w}
      BY <1>2 DEF Signal
    <3> QED
      BY <2>1, <3>1, <3>2 DEF Unaware, Old
  <2>3. CASE UNCHANGED <<heard, succeeded>>
    BY <2>1, <2>3, NoneForgotten
  <2> QED
    BY <1>2, <2>2, <2>3 DEF Signal
<1> QED
  BY <1>1, <1>2 DEF Iterate

\* Of what happens around the workflow only the reuse of an id makes one unaware.
LEMMA EnvironmentReusesTheId ==
  ASSUME TypeOK, NEW w \in Workflows, Environment(w), NEW v \in Unaware' \ Unaware
  PROVE  place[v] = "none"
<1>1. CASE Raise(w) \/ Lower(w)
  BY <1>1, NoneForgotten DEF Raise, Lower, fiber
<1>2. CASE StartOld(w)
  <2>1. v = w \/ v \in Old
    BY <1>2 DEF StartOld, Unaware, Old, TypeOK
  <2> QED
    BY <1>2, <2>1 DEF StartOld, Unaware, fiber
<1>3. CASE Move(w) \/ Finish(w)
  <2>1. Old' \subseteq Old \ {w}
    BY <1>3 DEF Move, Finish, Old, TypeOK
  <2>2. heard' = heard \ {w} /\ UNCHANGED <<signaled, succeeded>>
    BY <1>3 DEF Move, Finish, fiber
  <2> QED
    BY <2>1, <2>2 DEF Unaware
<1>4. CASE SignalLate(w)
  <2>1. heard \subseteq heard'
    BY <1>4 DEF SignalLate, Hear
  <2> QED
    BY <1>4, <2>1, NoneForgotten DEF SignalLate
<1> QED
  BY <1>1, <1>2, <1>3, <1>4 DEF Environment

\* A migration passes over a workflow it has not told only if the workflow took the
\* id of one it had told: no failure, timeout or restart of its own makes it forget
\* a workflow that waits on the old queue.
THEOREM RememberedWorkflowsWereTold == Spec => RememberedWereTold
<1>1. TypeOK /\ [Next]_vars
        => [\A w \in Unaware' \ Unaware : place[w] = "none"]_vars
  <2> SUFFICES ASSUME TypeOK, [Next]_vars, NEW w \in Unaware' \ Unaware
               PROVE  place[w] = "none"
    OBVIOUS
  <2>1. CASE Iterate
    BY <2>1, IterateRemembersTheTold
  <2>2. CASE Removal
    BY <2>2, NoneForgotten
       DEF Removal, Find, Archive, Remove, Delete, world
  <2>3. CASE Faults
    BY <2>3, NoneForgotten
       DEF Faults, ListingFails, BatchFails, RemovalFails, ContinueAsNew, world
  <2>4. CASE UNCHANGED vars
    BY <2>4, NoneForgotten DEF vars, world, fiber
  <2>5. CASE \E u \in Workflows : Environment(u)
    BY <2>5, EnvironmentReusesTheId
  <2> QED
    BY <2>1, <2>2, <2>3, <2>4, <2>5 DEF Next
<1> QED
  BY TypeCorrect, <1>1, PTL DEF Spec, RememberedWereTold
=============================================================================
