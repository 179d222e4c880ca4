------------------------------ MODULE DevLoopProofs ------------------------------
(***************************************************************************)
(* Theorems about DevLoop, for any units, edits, pipelines and modes.      *)
(*                                                                         *)
(* That the loop implements module Rebuild rests on one fact: as long as   *)
(* nothing is buffered, what the build under way has read is as new as     *)
(* what the loop was told of.  What the pods run is followed through the   *)
(* stages of a build: from the sources to the build directory, the image,  *)
(* the registry, the manifest and the cluster, with a tag that no build    *)
(* had before.  What the agent serves is followed through its queue: the   *)
(* bundle in the bucket only becomes newer, so a message that is dropped   *)
(* is made good by any that is taken later.                                *)
(***************************************************************************)
EXTENDS DevLoop, TLAPS

WorldOK ==
  /\ pipeline \in Pipelines
  /\ mode \in Modes
  /\ edits \in 0..MaxEdits /\ noticed \in 0..edits
  /\ triggers \in 0..MaxTriggers /\ restarts \in 0..MaxRestarts

FilesOK ==
  /\ dist \in Code
  /\ manifest \in 0..NoTag
  /\ DOMAIN registry \subseteq 0..MaxBuilds
  /\ \A t \in DOMAIN registry : registry[t] \in Code
  /\ pods \in [tag : 0..NoTag, code : Code]

One(b) == IF b THEN 1 ELSE 0

\* A build has a reason of its own, so there are no more than MaxBuilds.
Reasons(n, t, r) == 1 + n + t + r

\* Each build has its reason, and each call of the loop and each set of streams is
\* of a build.
Counted ==
  /\ build.number + One(loop.buffered) <= Reasons(noticed, triggers, restarts)
  /\ loop.leaked + loop.frames + One(loop.tracked) <= build.number

\* A dead loop does nothing and a resting one has nothing left to do.
LoopShape ==
  /\ ~loop.alive => loop.frames = 0 /\ ~loop.prompt /\ ~loop.buffered
  /\ Resting => build.stage = "done" /\ ~loop.buffered

LoopOK == loop \in Loop /\ build \in Build /\ Counted /\ LoopShape

Inv == WorldOK /\ FilesOK /\ LoopOK /\ AgentTypeOK

-----------------------------------------------------------------------------
LEMMA Numbers ==
  /\ MaxEdits \in Nat /\ MaxTriggers \in Nat /\ MaxRestarts \in Nat /\ Capacity \in Nat \ {0}
  /\ MaxBuilds \in Nat \ {0} /\ NoTag \in Nat /\ NoTag = MaxBuilds + 1
BY WorkerAssumption, LoopAssumption DEF MaxBuilds, NoTag

LEMMA NoCodeTyped == NoCode \in Code /\ \A u \in Units : NoCode[u] = 0
BY Numbers DEF NoCode, Code

\* What watchLoop does to the loop and the build.
LEMMA Begun ==
  ASSUME NEW l \in Loop, l.frames < MaxBuilds
  PROVE  /\ Begin(l) \in Loop
         /\ Begin(l).alive = l.alive /\ Begin(l).prompt = l.prompt /\ Begin(l).leaked = l.leaked
         /\ Begin(l).frames = l.frames + 1
         /\ ~Begin(l).buffered /\ ~Begin(l).tracked
<1>1. l.frames + 1 \in 0..MaxBuilds
  BY Numbers DEF Loop
<1>2. Begin(l) \in Loop
  <2>1. Begin(l) = [[[l EXCEPT !.frames = l.frames + 1] EXCEPT !.buffered = FALSE]
                       EXCEPT !.tracked = FALSE]
    BY DEF Begin
  <2>2. [l EXCEPT !.frames = l.frames + 1] \in Loop
    BY <1>1 DEF Loop
  <2>3. \A m \in Loop : [m EXCEPT !.buffered = FALSE] \in Loop
    BY DEF Loop
  <2>4. \A m \in Loop : [m EXCEPT !.tracked = FALSE] \in Loop
    BY DEF Loop
  <2> QED
    BY <2>1, <2>2, <2>3, <2>4
<1>3. Begin(l).alive = l.alive /\ Begin(l).prompt = l.prompt /\ Begin(l).leaked = l.leaked
  BY DEF Begin, Loop
<1>4. Begin(l).frames = l.frames + 1
  BY DEF Begin, Loop
<1>5. ~Begin(l).buffered /\ ~Begin(l).tracked
  BY DEF Begin, Loop
<1> QED
  BY <1>2, <1>3, <1>4, <1>5

LEMMA Numbered ==
  ASSUME NEW b \in Build, b.number < MaxBuilds
  PROVE  /\ Again(b) \in Build
         /\ Again(b).stage = "compile" /\ Again(b).number = b.number + 1
         /\ Again(b).result = NoResult /\ Again(b).read = b.read
         /\ Again(b).loaded = b.loaded /\ Again(b).image = b.image
<1>1. NoResult \in [Units -> {"none", "left", "right"}]
  BY DEF NoResult
<1>2. "compile" \in Stages
  BY DEF Stages
<1>3. b.number + 1 \in 0..MaxBuilds
  BY Numbers DEF Build
<1>4. Again(b) \in Build
  <2>1. Again(b) = [[[b EXCEPT !.stage = "compile"] EXCEPT !.number = b.number + 1]
                      EXCEPT !.result = NoResult]
    BY DEF Again
  <2>2. \A c \in Build : [c EXCEPT !.stage = "compile"] \in Build
    BY <1>2 DEF Build
  <2>3. \A c \in Build : [c EXCEPT !.number = b.number + 1] \in Build
    BY <1>3 DEF Build
  <2>4. \A c \in Build : [c EXCEPT !.result = NoResult] \in Build
    BY <1>1 DEF Build
  <2> QED
    BY <2>1, <2>2, <2>3, <2>4
<1>5. Again(b).stage = "compile" /\ Again(b).result = NoResult
  BY DEF Again, Build
<1>6. Again(b).number = b.number + 1
  BY DEF Again, Build
<1>7. Again(b).read = b.read /\ Again(b).loaded = b.loaded /\ Again(b).image = b.image
  BY DEF Again, Build
<1> QED
  BY <1>4, <1>5, <1>6, <1>7

LEMMA Staged ==
  ASSUME NEW b \in Build, NEW stage \in Stages
  PROVE  /\ [b EXCEPT !.stage = stage] \in Build
         /\ [b EXCEPT !.stage = stage].stage = stage
         /\ [b EXCEPT !.stage = stage].number = b.number
         /\ [b EXCEPT !.stage = stage].result = b.result
         /\ [b EXCEPT !.stage = stage].read = b.read
         /\ [b EXCEPT !.stage = stage].image = b.image
BY DEF Build

LEMMA Rejected ==
  ASSUME LoopOK, WorldOK, Reject
  PROVE  /\ loop' \in Loop
         /\ ~loop'.alive /\ loop'.frames = 0 /\ ~loop'.prompt /\ ~loop'.buffered
         /\ loop'.leaked + One(loop'.tracked) <= loop.leaked + loop.frames + One(loop.tracked)
<1> DEFINE n == loop.leaked + One(loop.tracked)
<1>1. /\ loop \in Loop /\ build \in Build /\ loop.leaked \in Nat /\ loop.frames \in Nat
      /\ n \in 0..MaxBuilds
  BY Numbers DEF LoopOK, Loop, Build, Counted, One
<1>2. loop' = [[[[[[loop EXCEPT !.alive = FALSE] EXCEPT !.prompt = FALSE] EXCEPT !.frames = 0]
                   EXCEPT !.buffered = FALSE] EXCEPT !.tracked = FALSE] EXCEPT !.leaked = n]
  BY <1>1 DEF Reject, Loop, One
<1> HIDE DEF n
<1>3. \A l \in Loop : [l EXCEPT !.alive = FALSE] \in Loop
  BY DEF Loop
<1>4. \A l \in Loop : [l EXCEPT !.prompt = FALSE] \in Loop
  BY DEF Loop
<1>5. \A l \in Loop : [l EXCEPT !.frames = 0] \in Loop
  BY Numbers DEF Loop
<1>6. \A l \in Loop : [l EXCEPT !.buffered = FALSE] \in Loop
  BY DEF Loop
<1>7. \A l \in Loop : [l EXCEPT !.tracked = FALSE] \in Loop
  BY DEF Loop
<1>8. \A l \in Loop : [l EXCEPT !.leaked = n] \in Loop
  BY <1>1 DEF Loop
<1>9. loop' \in Loop
  BY <1>1, <1>2, <1>3, <1>4, <1>5, <1>6, <1>7, <1>8
<1>10. ~loop'.alive /\ ~loop'.prompt /\ ~loop'.buffered /\ ~loop'.tracked
  BY <1>1, <1>2 DEF Loop
<1>11. loop'.frames = 0 /\ loop'.leaked = n
  BY <1>1, <1>2 DEF Loop
<1> QED
  BY <1>1, <1>9, <1>10, <1>11 DEF n, One

-----------------------------------------------------------------------------
(* The loop: what its steps come to *)

\* It builds anew.
Builds ==
  /\ isBuilding' /\ loop'.alive /\ ~loop'.buffered
  /\ build'.stage = "compile" /\ build'.number = build.number + 1
  /\ build'.result = NoResult /\ build'.read = build.read

\* It keeps for later what came while it builds.
Keeps ==
  /\ isBuilding /\ isBuilding' /\ loop'.alive /\ loop'.buffered
  /\ build' = build

LEMMA ReasonsBound ==
  ASSUME NEW e \in 0..MaxEdits, NEW n \in 0..e, NEW t \in 0..MaxTriggers, NEW r \in 0..MaxRestarts
  PROVE  Reasons(n, t, r) \in 1..MaxBuilds /\ Reasons(n, t, r) = 1 + n + t + r
BY Numbers DEF Reasons, MaxBuilds

LEMMA Requeued ==
  ASSUME LoopOK, WorldOK, WorldOK', loop.alive, QueueRebuild,
         Reasons(noticed', triggers', restarts') > Reasons(noticed, triggers, restarts)
  PROVE  /\ LoopOK'
         /\ (isBuilding /\ Keeps) \/ (~isBuilding /\ Builds)
<1>1. /\ loop \in Loop /\ build \in Build /\ loop.leaked \in Nat /\ loop.frames \in Nat
      /\ loop.tracked \in BOOLEAN /\ loop.buffered \in BOOLEAN
      /\ build.number \in Nat
  BY DEF LoopOK, Loop, Build
<1> DEFINE reasons == Reasons(noticed, triggers, restarts)
           reasons2 == Reasons(noticed', triggers', restarts')
<1>2. reasons \in 1..MaxBuilds /\ reasons2 \in 1..MaxBuilds /\ reasons2 > reasons
  BY ReasonsBound DEF WorldOK
<1>counts. /\ build.number + One(loop.buffered) <= reasons
      /\ loop.leaked + loop.frames + One(loop.tracked) <= build.number
  BY DEF LoopOK, Counted
<1> HIDE DEF reasons, reasons2
<1>3. CASE isBuilding
  <2>1. loop' = [loop EXCEPT !.buffered = TRUE] /\ build' = build
    BY <1>3 DEF QueueRebuild
  <2>2. /\ loop' \in Loop /\ loop'.buffered /\ loop'.alive /\ loop'.frames = loop.frames
        /\ loop'.tracked = loop.tracked /\ loop'.leaked = loop.leaked
    BY <1>1, <2>1 DEF Loop
  <2>3. Counted'
    <3>1. build.number + 1 <= reasons2
      BY <1>counts, <1>1, <1>2, Numbers DEF One
    <3> QED
      BY <1>counts, <2>1, <2>2, <3>1 DEF Counted, One, reasons2
  <2>4. isBuilding'
    BY <1>3, <2>2 DEF isBuilding
  <2> QED
    BY <1>1, <1>3, <2>1, <2>2, <2>3, <2>4 DEF LoopOK, LoopShape, Resting, Keeps
<1>4. CASE ~isBuilding
  <2>1. loop' = Begin(loop) /\ build' = Again(build)
    BY <1>4 DEF QueueRebuild
  <2>2. build.number + 1 <= reasons2
    BY <1>counts, <1>1, <1>2, Numbers DEF One
  <2>3. build.number < MaxBuilds /\ loop.frames < MaxBuilds
    BY <1>counts, <1>1, <1>2, <2>2, Numbers DEF One
  <2>4. /\ loop' \in Loop /\ loop'.alive /\ loop'.prompt = loop.prompt /\ loop'.leaked = loop.leaked
        /\ loop'.frames = loop.frames + 1 /\ ~loop'.buffered /\ ~loop'.tracked
    BY <1>1, <2>1, <2>3, Begun
  <2>5. /\ build' \in Build /\ build'.stage = "compile" /\ build'.number = build.number + 1
        /\ build'.result = NoResult /\ build'.read = build.read
    BY <1>1, <2>1, <2>3, Numbered
  <2>6. Counted'
    <3>1. loop'.leaked + loop'.frames + 0 <= build'.number
      BY <1>counts, <1>1, <2>4, <2>5 DEF One
    <3>2. build'.number + 0 <= reasons2
      BY <1>1, <2>2, <2>5
    <3> QED
      BY <2>4, <3>1, <3>2 DEF Counted, One, reasons2
  <2>7. isBuilding'
    BY <1>1, <2>4 DEF isBuilding
  <2> QED
    BY <1>4, <2>4, <2>5, <2>6, <2>7 DEF LoopOK, LoopShape, Resting, Builds
<1> QED
  BY <1>3, <1>4

LEMMA Returned ==
  ASSUME LoopOK, WorldOK, Return
  PROVE  /\ LoopOK'
         /\ \/ loop.buffered /\ Builds
            \/ /\ ~loop.buffered /\ build' = build /\ loop.alive
               /\ loop'.alive /\ ~isBuilding'
<1>1. /\ loop \in Loop /\ build \in Build /\ loop.leaked \in Nat /\ loop.frames \in Nat
      /\ loop.tracked \in BOOLEAN /\ loop.buffered \in BOOLEAN /\ build.number \in 0..MaxBuilds
  BY DEF LoopOK, Loop, Build
<1>2. isBuilding /\ loop.frames > 0 /\ loop.alive /\ build.stage = "done" /\ UNCHANGED world
  BY <1>1 DEF Return, LoopOK, LoopShape, isBuilding
<1>3. UNCHANGED <<noticed, triggers, restarts>>
  BY <1>2 DEF world
<1> DEFINE reasons == Reasons(noticed, triggers, restarts)
<1>4. reasons \in 1..MaxBuilds
  BY ReasonsBound DEF WorldOK
<1>counts. /\ build.number + One(loop.buffered) <= reasons
      /\ loop.leaked + loop.frames + One(loop.tracked) <= build.number
      /\ Reasons(noticed', triggers', restarts') = reasons
  BY <1>3 DEF LoopOK, Counted
<1> HIDE DEF reasons
<1>5. CASE loop.buffered /\ loop' = Begin(loop) /\ build' = Again(build)
  <2>1. build.number + 1 <= reasons
    BY <1>counts, <1>1, <1>5 DEF One
  <2>2. build.number < MaxBuilds /\ loop.frames < MaxBuilds
    BY <1>counts, <1>1, <1>4, <2>1, Numbers DEF One
  <2>3. /\ loop' \in Loop /\ loop'.alive = loop.alive /\ loop'.leaked = loop.leaked
        /\ loop'.frames = loop.frames + 1 /\ ~loop'.buffered /\ ~loop'.tracked
    BY <1>1, <1>5, <2>2, Begun
  <2>4. /\ build' \in Build /\ build'.stage = "compile" /\ build'.number = build.number + 1
        /\ build'.result = NoResult /\ build'.read = build.read
    BY <1>1, <1>5, <2>2, Numbered
  <2>5. Counted'
    <3>1. loop'.leaked + loop'.frames + 0 <= build'.number
      BY <1>counts, <1>1, <2>3, <2>4 DEF One
    <3>2. build'.number + 0 <= reasons
      BY <1>1, <2>1, <2>4
    <3> QED
      BY <1>counts, <2>3, <3>1, <3>2 DEF Counted, One
  <2>6. isBuilding'
    BY <1>1, <2>3 DEF isBuilding
  <2> QED
    BY <1>2, <1>5, <2>3, <2>4, <2>5, <2>6 DEF LoopOK, LoopShape, Resting, Builds
<1>6. CASE /\ ~loop.buffered /\ build' = build
           /\ loop' = [loop EXCEPT !.frames = 0, !.tracked = TRUE, !.prompt = TRUE,
                                   !.leaked = @ + (loop.frames - 1)]
  <2> DEFINE n == loop.leaked + (loop.frames - 1)
  <2>1. loop.leaked + loop.frames <= build.number
    BY <1>counts, <1>1 DEF One
  <2>2. n \in 0..MaxBuilds /\ n + 1 <= build.number
    BY <1>1, <1>2, <2>1, Numbers
  <2>3. loop' = [[[[loop EXCEPT !.frames = 0] EXCEPT !.tracked = TRUE] EXCEPT !.prompt = TRUE]
                   EXCEPT !.leaked = n]
    BY <1>1, <1>6 DEF Loop
  <2> HIDE DEF n
  <2>4. \A l \in Loop : [l EXCEPT !.frames = 0] \in Loop
    BY Numbers DEF Loop
  <2>5. \A l \in Loop : [l EXCEPT !.tracked = TRUE] \in Loop
    BY DEF Loop
  <2>6. \A l \in Loop : [l EXCEPT !.prompt = TRUE] \in Loop
    BY DEF Loop
  <2>7. \A l \in Loop : [l EXCEPT !.leaked = n] \in Loop
    BY <2>2 DEF Loop
  <2>8. loop' \in Loop
    BY <1>1, <2>3, <2>4, <2>5, <2>6, <2>7
  <2>9. loop'.frames = 0 /\ loop'.leaked = n /\ loop'.tracked
    BY <1>1, <2>3 DEF Loop
  <2>10. loop'.alive = loop.alive /\ loop'.buffered = loop.buffered
    BY <1>1, <2>3 DEF Loop
  <2>11. Counted'
    <3>1. build.number <= reasons
      BY <1>counts, <1>1, <1>6 DEF One
    <3>2. One(loop.buffered') = 0 /\ One(loop.tracked') = 1
      BY <1>6, <2>9, <2>10 DEF One
    <3>3. build'.number + 0 <= reasons
      BY <1>1, <1>6, <3>1
    <3>4. loop'.leaked + loop'.frames + 1 <= build'.number
      BY <1>1, <1>6, <2>2, <2>9
    <3> QED
      BY <1>counts, <3>2, <3>3, <3>4 DEF Counted
  <2>12. ~isBuilding'
    BY <2>9 DEF isBuilding
  <2> QED
    BY <1>1, <1>2, <1>6, <2>8, <2>9, <2>10, <2>11, <2>12 DEF LoopOK, LoopShape, Resting
<1> QED
  BY <1>5, <1>6 DEF Return

LEMMA Restarted ==
  ASSUME LoopOK, WorldOK, WorldOK', Restart
  PROVE  LoopOK' /\ Builds /\ ~loop.alive
<1>1. /\ loop \in Loop /\ build \in Build /\ loop.leaked \in Nat /\ loop.frames \in Nat
      /\ loop.tracked \in BOOLEAN /\ build.number \in Nat
  BY DEF LoopOK, Loop, Build
<1>2. /\ ~loop.alive /\ loop.frames = 0 /\ ~loop.buffered
      /\ restarts' = restarts + 1 /\ noticed' = edits /\ UNCHANGED <<edits, triggers>>
  BY DEF Restart, LoopOK, LoopShape
<1> DEFINE reasons == Reasons(noticed, triggers, restarts)
           reasons2 == Reasons(noticed', triggers', restarts')
<1>3. reasons \in 1..MaxBuilds /\ reasons2 \in 1..MaxBuilds /\ reasons2 > reasons
  <2>1. /\ reasons \in 1..MaxBuilds /\ reasons2 \in 1..MaxBuilds
        /\ reasons = 1 + noticed + triggers + restarts
        /\ reasons2 = 1 + noticed' + triggers' + restarts'
    BY ReasonsBound DEF WorldOK
  <2>2. noticed <= noticed' /\ noticed \in Nat /\ noticed' \in Nat /\ triggers \in Nat /\ restarts \in Nat
    BY <1>2, Numbers DEF WorldOK
  <2> QED
    BY <1>2, <2>1, <2>2
<1>counts. /\ build.number + One(loop.buffered) <= reasons
           /\ loop.leaked + loop.frames + One(loop.tracked) <= build.number
  BY DEF LoopOK, Counted
<1> HIDE DEF reasons, reasons2
<1> DEFINE l == [loop EXCEPT !.alive = TRUE]
           b == Again(build)
<1>4. /\ l \in Loop /\ l.alive /\ l.frames = 0 /\ l.buffered = loop.buffered
      /\ l.leaked = loop.leaked /\ l.tracked = loop.tracked
  BY <1>1, <1>2 DEF Loop
<1>5. build.number < MaxBuilds
  BY <1>counts, <1>1, <1>3, Numbers DEF One
<1>6. /\ b \in Build /\ b.stage = "compile" /\ b.number = build.number + 1
      /\ b.result = NoResult /\ b.read = build.read
  BY <1>1, <1>5, Numbered
<1>7. loop' = Begin(l) /\ build' = [b EXCEPT !.loaded = edits]
  BY DEF Restart
<1> HIDE DEF l, b
<1>8. l.frames < MaxBuilds
  BY <1>4, Numbers
<1>9. /\ loop' \in Loop /\ loop'.alive /\ loop'.leaked = loop.leaked
      /\ loop'.frames = 1 /\ ~loop'.buffered /\ ~loop'.tracked
  BY <1>4, <1>7, <1>8, Begun
<1>10. edits \in 0..MaxEdits
  BY DEF WorldOK
<1>11. /\ build' \in Build /\ build'.stage = "compile" /\ build'.number = build.number + 1
       /\ build'.result = NoResult /\ build'.read = build.read
  BY <1>6, <1>7, <1>10 DEF Build
<1>12. Counted'
  <2>1. loop'.leaked + loop'.frames + 0 <= build'.number
    BY <1>counts, <1>1, <1>9, <1>11 DEF One
  <2>2. build'.number + 0 <= reasons2
    BY <1>counts, <1>1, <1>3, <1>11, Numbers DEF One
  <2> QED
    BY <1>9, <2>1, <2>2 DEF Counted, One, reasons2
<1>13. isBuilding'
  BY <1>9 DEF isBuilding
<1> QED
  BY <1>2, <1>9, <1>11, <1>12, <1>13 DEF LoopOK, LoopShape, Resting, Builds

\* A stage of the pipeline that goes on.
Advances(stage) ==
  /\ isBuilding /\ UNCHANGED <<world, loop>>
  /\ build' \in Build /\ build'.stage = stage /\ build'.number = build.number
  /\ build'.result = build.result /\ build'.read = build.read

LEMMA Advanced ==
  ASSUME LoopOK, NEW stage, Advances(stage)
  PROVE  LoopOK'
BY DEF LoopOK, Advances, Counted, LoopShape, Resting, isBuilding, world

LEMMA RejectedOK ==
  ASSUME LoopOK, WorldOK, UNCHANGED <<world, build>>, Reject
  PROVE  LoopOK' /\ ~loop'.alive
<1>1. /\ loop' \in Loop
      /\ ~loop'.alive /\ loop'.frames = 0 /\ ~loop'.prompt /\ ~loop'.buffered
      /\ loop'.leaked + One(loop'.tracked) <= loop.leaked + loop.frames + One(loop.tracked)
  BY Rejected
<1> DEFINE reasons == Reasons(noticed, triggers, restarts)
<1>2. /\ build.number + One(loop.buffered) <= reasons
      /\ loop.leaked + loop.frames + One(loop.tracked) <= build.number
      /\ Reasons(noticed', triggers', restarts') = reasons
      /\ build' = build
  BY DEF LoopOK, Counted, world
<1>3. reasons \in 1..MaxBuilds
  BY ReasonsBound DEF WorldOK
<1>4. /\ build.number \in Nat /\ loop.leaked \in Nat /\ loop.frames \in Nat
      /\ loop'.leaked \in Nat
      /\ One(loop.tracked) \in Nat /\ One(loop.buffered) \in Nat /\ One(loop'.tracked) \in Nat
  BY <1>1 DEF LoopOK, Build, Loop, One
<1>5. One(loop'.buffered) = 0
  BY <1>1 DEF One
<1> HIDE DEF reasons
<1>6. build.number <= reasons
  BY <1>2, <1>3, <1>4
<1>7. loop'.leaked + loop'.frames + One(loop'.tracked) <= build.number
  BY <1>1, <1>2, <1>4
<1>8. Counted'
  BY <1>2, <1>4, <1>5, <1>6, <1>7 DEF Counted
<1> QED
  BY <1>1, <1>2, <1>8 DEF LoopOK, LoopShape, Resting

-----------------------------------------------------------------------------
(* Types *)

LEMMA WorldNext ==
  ASSUME WorldOK, [Next]_vars
  PROVE  WorldOK'
<1> USE Numbers DEF WorldOK
<1>1. CASE UNCHANGED world
  BY <1>1 DEF world
<1>2. CASE Save
  BY <1>2 DEF Save
<1>3. CASE Change
  BY <1>3 DEF Change
<1>4. CASE Trigger
  BY <1>4 DEF Trigger
<1>5. CASE Restart
  BY <1>5 DEF Restart
<1>6. Pipeline => UNCHANGED world
  BY DEF Pipeline, Compile, Verdict, StageFails, Image, Push, SaveManifests, ApplyImage, AwaitPods,
         Upload, ApplyAgent, AwaitAgent, Publish
<1> QED
  BY <1>1, <1>2, <1>3, <1>4, <1>5, <1>6 DEF Next, Return, Rollout, vars

\* Compile reads a unit and leaves what it has made of it.
LEMMA CompileStep ==
  ASSUME LoopOK, WorldOK, FilesOK, NEW u \in Units, Compile(u)
  PROVE  /\ isBuilding /\ build.stage = "compile" /\ UNCHANGED <<world, loop, manifest, registry, pods, agent>>
         /\ SourceOf(u) \in 0..MaxEdits
         /\ build' \in Build /\ build'.stage = "compile" /\ build'.number = build.number
         /\ build'.image = build.image
         /\ build'.read = [build.read EXCEPT ![u] = SourceOf(u)]
         /\ \/ /\ build'.result = [build.result EXCEPT ![u] = "left"]
               /\ dist' = dist
            \/ /\ build'.result = [build.result EXCEPT ![u] = "right"]
               /\ dist' = [dist EXCEPT ![u] = SourceOf(u)]
<1>1. build \in Build /\ SourceOf(u) \in 0..MaxEdits
  BY Numbers DEF LoopOK, WorldOK, Build, SourceOf
<1>2. PICK result \in {"left", "right"} :
        /\ build' = [build EXCEPT !.result[u] = result, !.read[u] = SourceOf(u)]
        /\ dist' = IF result = "right" THEN [dist EXCEPT ![u] = SourceOf(u)] ELSE dist
  BY DEF Compile
<1> DEFINE n == SourceOf(u)
<1> HIDE DEF n
<1>4. /\ build' \in Build
      /\ build'.stage = build.stage /\ build'.number = build.number /\ build'.image = build.image
      /\ build'.result = [build.result EXCEPT ![u] = result]
      /\ build'.read = [build.read EXCEPT ![u] = n]
  <2> DEFINE results == [build.result EXCEPT ![u] = result]
             reads == [build.read EXCEPT ![u] = n]
  <2>1. n \in 0..MaxEdits /\ build' = [build EXCEPT !.result[u] = result, !.read[u] = n]
    BY <1>1, <1>2 DEF n
  <2>2. build' = [[build EXCEPT !.result = results] EXCEPT !.read = reads]
    BY <1>1, <2>1 DEF Build
  <2>3. results \in [Units -> {"none", "left", "right"}] /\ reads \in Code
    BY <1>1, <2>1 DEF Build, Code
  <2> HIDE DEF results, reads
  <2>4. [build EXCEPT !.result = results] \in Build
    BY <1>1, <2>3 DEF Build
  <2>5. \A b \in Build : [b EXCEPT !.read = reads] \in Build
    BY <2>3 DEF Build
  <2>6. build' \in Build
    BY <2>2, <2>4, <2>5
  <2>7. build'.result = results /\ build'.read = reads
    BY <1>1, <2>2 DEF Build
  <2>8. build'.stage = build.stage /\ build'.number = build.number /\ build'.image = build.image
    BY <1>1, <2>2 DEF Build
  <2> QED
    BY <2>6, <2>7, <2>8 DEF results, reads
<1>5. /\ isBuilding /\ build.stage = "compile"
      /\ UNCHANGED <<world, loop, manifest, registry, pods, agent>>
  BY DEF Compile, At
<1>6. CASE result = "right"
  BY <1>1, <1>2, <1>4, <1>5, <1>6 DEF n
<1>7. CASE result = "left"
  BY <1>1, <1>2, <1>4, <1>5, <1>7 DEF n
<1> QED
  BY <1>6, <1>7

\* Any other step of the pipeline goes on to its next stage, or the loop dies.
LEMMA StageSteps ==
  ASSUME LoopOK, FilesOK, Pipeline, \A u \in Units : ~Compile(u)
  PROVE  \/ Reject /\ isBuilding /\ UNCHANGED <<world, build>>
         \/ \E stage \in Stages : Advances(stage)
<1>1. build \in Build
  BY DEF LoopOK
<1>2. ASSUME NEW stage \in Stages, isBuilding, UNCHANGED <<world, loop>>,
             build' = [build EXCEPT !.stage = stage]
      PROVE  Advances(stage)
  BY <1>1, <1>2, Staged DEF Advances
<1>3. Stages = {"compile", "image", "push", "upload", "manifests", "apply", "wait", "publish", "done"}
  BY DEF Stages
<1>4. CASE Verdict
  BY <1>2, <1>3, <1>4 DEF Verdict, At
<1>5. CASE StageFails
  BY <1>5 DEF StageFails
<1>6. CASE Image
  <2>1. CASE build' = [build EXCEPT !.stage = "manifests"]
    BY <1>2, <1>3, <1>6, <2>1 DEF Image, At
  <2>2. CASE build' = [build EXCEPT !.stage = "push", !.image = dist]
    <3> DEFINE b == [build EXCEPT !.stage = "push"]
    <3>1. "push" \in Stages
      BY <1>3
    <3>2. /\ b \in Build /\ b.stage = "push" /\ b.number = build.number
          /\ b.result = build.result /\ b.read = build.read
      BY <1>1, <3>1, Staged
    <3>3. build' = [b EXCEPT !.image = dist]
      BY <2>2
    <3> HIDE DEF b
    <3>4. dist \in Code
      BY DEF FilesOK
    <3>5. /\ build' \in Build /\ build'.stage = b.stage /\ build'.number = b.number
          /\ build'.result = b.result /\ build'.read = b.read
      BY <3>2, <3>3, <3>4 DEF Build
    <3>6. Advances("push")
      BY <1>6, <3>2, <3>5 DEF Advances, Image, At
    <3> QED
      BY <3>1, <3>6
  <2> QED
    BY <1>6, <2>1, <2>2 DEF Image
<1>7. CASE Push
  BY <1>2, <1>3, <1>7 DEF Push, At
<1>8. CASE SaveManifests
  BY <1>2, <1>3, <1>8 DEF SaveManifests, At
<1>9. CASE ApplyImage
  BY <1>2, <1>3, <1>9 DEF ApplyImage, At
<1>10. CASE AwaitPods
  BY <1>2, <1>3, <1>10 DEF AwaitPods, At
<1>11. CASE Upload
  BY <1>2, <1>3, <1>11 DEF Upload, At
<1>12. CASE ApplyAgent
  BY <1>2, <1>3, <1>12 DEF ApplyAgent, At
<1>13. CASE AwaitAgent
  BY <1>2, <1>3, <1>13 DEF AwaitAgent, At
<1>14. CASE Publish
  BY <1>2, <1>3, <1>14 DEF Publish, At
<1> QED
  BY <1>4, <1>5, <1>6, <1>7, <1>8, <1>9, <1>10, <1>11, <1>12, <1>13, <1>14 DEF Pipeline

\* What the stages do to the files and the agent.
LEMMA FilesNext ==
  ASSUME Inv, [Next]_vars
  PROVE  FilesOK'
<1> USE DEF Inv
<1>1. CASE UNCHANGED <<files, pods>>
  BY <1>1 DEF files, FilesOK
<1>2. ASSUME NEW u \in Units, Compile(u) PROVE FilesOK'
  <2>1. dist' \in Code /\ UNCHANGED <<manifest, registry, pods>>
    <3>1. /\ SourceOf(u) \in 0..MaxEdits
          /\ dist' = dist \/ dist' = [dist EXCEPT ![u] = SourceOf(u)]
          /\ UNCHANGED <<manifest, registry, pods>>
      BY <1>2, CompileStep
    <3> QED
      BY <3>1 DEF FilesOK, Code
  <2> QED
    BY <2>1 DEF FilesOK
<1>3. Tag \in 0..MaxBuilds
  BY Numbers DEF Tag, LoopOK, Build
<1>4. CASE Push
  <2>1. build.image \in Code
    BY DEF LoopOK, Build
  <2>2. UNCHANGED <<dist, manifest, pods>>
    BY <1>4 DEF Push
  <2>3. /\ DOMAIN registry' = DOMAIN registry \cup {Tag}
        /\ \A t \in DOMAIN registry' :
             registry'[t] = IF t \in DOMAIN registry THEN registry[t] ELSE build.image
    BY <1>4 DEF Push
  <2> QED
    BY <1>3, <2>1, <2>2, <2>3 DEF FilesOK
<1>5. CASE SaveManifests
  BY <1>3, <1>5, Numbers DEF SaveManifests, FilesOK
<1>6. CASE ApplyImage
  BY <1>6 DEF ApplyImage, files, FilesOK
<1>7. CASE Rollout
  BY <1>7 DEF Rollout, files, FilesOK
<1>8. Pipeline => \/ UNCHANGED <<files, pods>> \/ \E u \in Units : Compile(u)
                  \/ Push \/ SaveManifests \/ ApplyImage
  BY DEF Pipeline, Verdict, StageFails, Image, AwaitPods, Upload, ApplyAgent, AwaitAgent, Publish
<1>9. Save \/ Change \/ Trigger \/ Return \/ Restart => UNCHANGED <<files, pods>>
  BY DEF Save, Change, Trigger, Return, Restart
<1> QED
  BY <1>1, <1>2, <1>4, <1>5, <1>6, <1>7, <1>8, <1>9 DEF Next, vars

LEMMA FreshTyped == Down \in Container /\ Fresh \in Container
<1>1. NoCode \in Code /\ "none" \in Child /\ 0 \in 0..Capacity
  BY NoCodeTyped, Numbers DEF Child
<1>2. Down \in Container
  BY <1>1 DEF Down, Container
<1>3. \A c \in Container : [c EXCEPT !.up = TRUE] \in Container
  BY DEF Container
<1> QED
  BY <1>2, <1>3 DEF Fresh

\* The agent by itself.
LEMMA AgentSteps ==
  ASSUME AgentTypeOK, AgentNext
  PROVE  AgentTypeOK'
<1> USE Numbers, NoCodeTyped DEF AgentTypeOK
<1>1. Fresh \in Container
  BY FreshTyped
<1>2. CASE Connect
  BY <1>2 DEF Connect, Container
<1>3. CASE Subscribe
  BY <1>3 DEF Subscribe, Container
<1>4. CASE Receive
  <2>1. Offer(container.queue) \in 0..Capacity
    BY DEF Offer, Container
  <2> QED
    BY <1>4, <2>1 DEF Receive, Container
<1>5. CASE Load
  <2> DEFINE taken == [container EXCEPT !.queue = @ - 1]
  <2>1. taken \in Container
    BY <1>5 DEF Load, Container
  <2> HIDE DEF taken
  <2>2. Download(taken) \in Container
    BY <2>1 DEF Download, Container
  <2>3. (container' = Download(taken) /\ told' = told) \/ (container' = taken /\ told' = NoCode)
    BY <1>5 DEF Load, taken
  <2> QED
    BY <1>5, <2>1, <2>2, <2>3 DEF Load
<1>6. CASE Reset
  <2>1. StopAll(container) \in Container
    BY DEF StopAll, Container, Child
  <2>2. \A c \in Container : StartChild(c) \in Container
    BY DEF StartChild, Container, Child
  <2>3. \A c \in Container : [c EXCEPT !.loading = FALSE] \in Container
    BY DEF Container
  <2>4. \A c \in Container : [c EXCEPT !.next = NoCode] \in Container
    BY DEF Container
  <2>5. container' = [[StartChild(StopAll(container)) EXCEPT !.loading = FALSE] EXCEPT !.next = NoCode]
    BY <1>6 DEF Reset
  <2> QED
    BY <1>6, <2>1, <2>2, <2>3, <2>4, <2>5 DEF Reset
<1>7. CASE ChildStarts
  BY <1>7 DEF ChildStarts, Container, Child
<1>8. CASE ChildExits
  <2>1. StopAll(container) \in Container
    BY DEF StopAll, Container, Child
  <2> QED
    BY <1>8, <2>1 DEF ChildExits
<1>9. CASE Crash
  BY <1>1, <1>9 DEF Crash
<1> QED
  BY <1>2, <1>3, <1>4, <1>5, <1>6, <1>7, <1>8, <1>9 DEF AgentNext

LEMMA AgentTyped ==
  ASSUME Inv, [Next]_vars
  PROVE  AgentTypeOK'
<1> USE DEF Inv
<1>1. CASE UNCHANGED agent
  BY <1>1 DEF agent, AgentTypeOK
<1>2. CASE AgentNext
  BY <1>2, AgentSteps
<1>3. CASE Upload
  BY <1>3 DEF Upload, AgentTypeOK, FilesOK
<1>4. CASE ApplyAgent
  <2>1. Fresh \in Container
    BY FreshTyped
  <2> QED
    BY <1>4, <2>1 DEF ApplyAgent, AgentTypeOK
<1>5. CASE Publish
  BY <1>5 DEF Publish, AgentTypeOK
<1>6. Pipeline => UNCHANGED agent \/ Upload \/ ApplyAgent \/ Publish
  BY DEF Pipeline, Compile, Verdict, StageFails, Image, Push, SaveManifests, ApplyImage, AwaitPods,
         AwaitAgent
<1>7. Save \/ Change \/ Trigger \/ Return \/ Restart \/ Rollout => UNCHANGED agent
  BY DEF Save, Change, Trigger, Return, Restart, Rollout
<1> QED
  BY <1>1, <1>2, <1>3, <1>4, <1>5, <1>6, <1>7 DEF Next, vars

\* What a step of the loop's own does.
LEMMA LoopSteps ==
  ASSUME Inv, [Next]_vars, Change \/ Trigger \/ Return \/ Restart
  PROVE  LoopOK' /\ (Keeps \/ Builds \/ (Return /\ build' = build /\ ~isBuilding'))
<1> USE DEF Inv
<1>1. WorldOK'
  BY WorldNext
<1>2. CASE Change \/ Trigger
  <2>1. loop.alive /\ QueueRebuild
    BY <1>2 DEF Change, Trigger, LoopOK, LoopShape, Loop
  <2>2. Reasons(noticed', triggers', restarts') > Reasons(noticed, triggers, restarts)
    BY <1>2, Numbers DEF Change, Trigger, WorldOK, Reasons
  <2> QED
    BY <1>1, <2>1, <2>2, Requeued
<1>3. CASE Return
  BY <1>3, Returned
<1>4. CASE Restart
  BY <1>1, <1>4, Restarted
<1> QED
  BY <1>2, <1>3, <1>4

LEMMA LoopNext ==
  ASSUME Inv, [Next]_vars
  PROVE  LoopOK'
<1> USE DEF Inv
<1>1. CASE Change \/ Trigger \/ Return \/ Restart
  BY <1>1, LoopSteps
<1>2. ASSUME NEW u \in Units, Compile(u) PROVE LoopOK'
  <2>1. /\ isBuilding /\ UNCHANGED <<world, loop>>
        /\ build' \in Build /\ build'.number = build.number
    BY <1>2, CompileStep
  <2> QED
    BY <2>1 DEF LoopOK, Counted, LoopShape, Resting, isBuilding, world
<1>3. CASE Pipeline /\ \A u \in Units : ~Compile(u)
  BY <1>3, StageSteps, RejectedOK, Advanced
<1>4. CASE UNCHANGED <<loop, build, noticed, triggers, restarts>>
  BY <1>4 DEF LoopOK, Counted, LoopShape, Resting, isBuilding
<1>5. Save \/ Rollout \/ (AgentNext /\ UNCHANGED <<world, loop, build, files, pods>>) \/ UNCHANGED vars
        => UNCHANGED <<loop, build, noticed, triggers, restarts>>
  BY DEF Save, Rollout, world, vars
<1>6. Pipeline => (\E u \in Units : Compile(u)) \/ (\A u \in Units : ~Compile(u))
  OBVIOUS
<1> QED
  BY <1>1, <1>2, <1>3, <1>4, <1>5, <1>6 DEF Next

LEMMA InvInit == Init => Inv
<1> SUFFICES ASSUME Init PROVE Inv
  OBVIOUS
<1> USE Numbers, NoCodeTyped DEF Init
<1>1. WorldOK
  BY DEF WorldOK
<1>2. FilesOK
  BY DEF FilesOK
<1>3. LoopOK
  <2>1. loop \in Loop
    BY DEF Loop
  <2>2. build \in Build
    <3>1. NoResult \in [Units -> {"none", "left", "right"}] /\ "compile" \in Stages
      BY DEF NoResult, Stages
    <3> QED
      BY <3>1 DEF Build
  <2>3. Counted
    BY DEF Counted, One, Reasons
  <2>4. LoopShape
    BY DEF LoopShape, Resting, isBuilding
  <2> QED
    BY <2>1, <2>2, <2>3, <2>4 DEF LoopOK
<1>4. AgentTypeOK
  BY FreshTyped DEF AgentInit, AgentTypeOK
<1> QED
  BY <1>1, <1>2, <1>3, <1>4 DEF Inv

LEMMA Invariant == Spec => []Inv
<1>1. Inv /\ [Next]_vars => Inv'
  BY WorldNext, FilesNext, LoopNext, AgentTyped DEF Inv
<1> QED
  BY <1>1, InvInit, PTL DEF Spec

\* Every variable keeps its type: among the rest, the loop never builds without a
\* reason of its own and never has more calls or log streams than builds.
THEOREM TypesHold == Spec => []TypeOK
<1>1. Inv => TypeOK
  BY DEF Inv, WorldOK, FilesOK, LoopOK, TypeOK
<1> QED
  BY <1>1, Invariant, PTL

-----------------------------------------------------------------------------
(* The loop implements module Rebuild *)

\* Unless something was buffered, what has been compiled is as new as the last change
\* the loop was told of, and a build that has gone on has compiled everything.
CaughtUp ==
  /\ build.stage # "compile" => \A u \in Units : build.result[u] # "none"
  /\ isBuilding /\ ~loop.buffered =>
       \A u \in Units \ Cached : build.result[u] # "none" => build.read[u] >= noticed

LEMMA CaughtUpInit == Init => CaughtUp
BY DEF Init, CaughtUp, NoResult

\* Only a verdict over all units ends the stage of compiling.
LEMMA OnlyVerdict ==
  ASSUME Pipeline, build.stage = "compile", \A u \in Units : ~Compile(u)
  PROVE  Verdict
BY DEF Pipeline, StageFails, Image, Push, SaveManifests, ApplyImage, AwaitPods, Upload, ApplyAgent,
       AwaitAgent, Publish, At

LEMMA CaughtUpNext ==
  ASSUME Inv, CaughtUp, [Next]_vars
  PROVE  CaughtUp'
<1>1. CASE Keeps
  BY <1>1 DEF Keeps, CaughtUp
<1>2. CASE Builds
  BY <1>2 DEF Builds, CaughtUp, NoResult
<1>3. CASE build' = build /\ ~isBuilding'
  BY <1>3 DEF CaughtUp
<1>4. ASSUME NEW u \in Units, Compile(u) PROVE CaughtUp'
  <2>1. /\ isBuilding /\ build.stage = "compile" /\ UNCHANGED <<world, loop>>
        /\ build'.stage = "compile"
        /\ build'.read = [build.read EXCEPT ![u] = SourceOf(u)]
        /\ \/ build'.result = [build.result EXCEPT ![u] = "left"]
           \/ build'.result = [build.result EXCEPT ![u] = "right"]
    BY <1>4, CompileStep DEF Inv
  <2>2. build.result \in [Units -> {"none", "left", "right"}] /\ build.read \in [Units -> 0..MaxEdits]
    BY DEF Inv, LoopOK, Build, Code
  <2>3. \A w \in Units \ {u} : build'.result[w] = build.result[w] /\ build'.read[w] = build.read[w]
    BY <2>1, <2>2
  <2>4. u \notin Cached => build'.read[u] >= noticed
    BY <2>1, <2>2, Numbers DEF SourceOf, Inv, WorldOK
  <2>5. noticed' = noticed /\ loop' = loop
    BY <2>1 DEF world
  <2> QED
    BY <2>1, <2>3, <2>4, <2>5 DEF CaughtUp, isBuilding
<1>5. CASE Pipeline /\ \A u \in Units : ~Compile(u)
  <2>1. CASE Reject /\ isBuilding /\ UNCHANGED <<world, build>>
    <3>1. loop'.frames = 0
      BY <2>1, Rejected DEF Inv
    <3> QED
      BY <1>3, <2>1, <3>1 DEF isBuilding
  <2>2. ASSUME NEW stage, Advances(stage) PROVE CaughtUp'
    <3>1. \A u \in Units : build.result[u] # "none"
      <4>1. CASE build.stage = "compile"
        BY <1>5, <4>1, OnlyVerdict DEF Verdict
      <4>2. CASE build.stage # "compile"
        BY <4>2 DEF CaughtUp
      <4> QED
        BY <4>1, <4>2
    <3>2. /\ build'.result = build.result /\ build'.read = build.read
          /\ loop' = loop /\ noticed' = noticed /\ isBuilding
      BY <2>2 DEF Advances, world
    <3> QED
      BY <3>1, <3>2 DEF CaughtUp, isBuilding
  <2> QED
    BY <1>5, <2>1, <2>2, StageSteps DEF Inv
<1>6. CASE UNCHANGED <<loop, build, noticed>>
  BY <1>6 DEF CaughtUp, isBuilding
<1>7. Save \/ Rollout \/ (AgentNext /\ UNCHANGED <<world, loop, build, files, pods>>) \/ UNCHANGED vars
        => UNCHANGED <<loop, build, noticed>>
  BY DEF Save, Rollout, world, vars
<1>8. CASE Change \/ Trigger \/ Return \/ Restart
  BY <1>1, <1>2, <1>3, <1>8, LoopSteps
<1> QED
  BY <1>4, <1>5, <1>6, <1>7, <1>8 DEF Next

LEMMA AliveWhenBuilding ==
  ASSUME Inv
  PROVE  loop.alive \in BOOLEAN /\ (isBuilding => loop.alive) /\ (loop.prompt => loop.alive)
BY DEF Inv, LoopOK, Loop, LoopShape, isBuilding

LEMMA Refines ==
  ASSUME Inv, CaughtUp, [Next]_vars
  PROVE  [Promise!Next]_(Promise!vars)
<1>1. /\ WorldOK' /\ noticed \in 0..MaxEdits /\ noticed' \in 0..MaxEdits
      /\ edits \in 0..MaxEdits /\ noticed <= edits
  BY WorldNext, Numbers DEF Inv, WorldOK
<1>stutter. ASSUME UNCHANGED noticed, build'.read = build.read, loop'.alive <=> loop.alive,
                   isBuilding' <=> isBuilding
            PROVE  UNCHANGED Promise!vars
  BY <1>stutter DEF Promise!vars
<1>2. CASE Change \/ Trigger
  <2>1. loop.alive /\ noticed' \in noticed..MaxEdits
    BY <1>1, <1>2, AliveWhenBuilding DEF Change, Trigger
  <2>2. Keeps \/ Builds
    <3>1. QueueRebuild /\ Inv /\ WorldOK'
      BY <1>1, <1>2 DEF Change, Trigger
    <3>2. Reasons(noticed', triggers', restarts') > Reasons(noticed, triggers, restarts)
      BY <1>2, Numbers DEF Change, Trigger, Inv, WorldOK, Reasons
    <3> QED
      BY <2>1, <3>1, <3>2, Requeued DEF Inv
  <2>3. isBuilding' /\ loop'.alive /\ build'.read = build.read
    BY <2>2 DEF Keeps, Builds
  <2>4. Promise!Notice(noticed')
    BY <2>1, <2>3 DEF Promise!Notice
  <2> QED
    BY <2>1, <2>4 DEF Promise!Next
<1>3. CASE Return
  <2>1. isBuilding /\ loop.alive /\ build.stage = "done" /\ UNCHANGED noticed
    BY <1>3, AliveWhenBuilding DEF Return, world
  <2>2. CASE Builds
    <3>1. isBuilding' /\ loop'.alive /\ build'.read = build.read
      BY <2>2 DEF Builds
    <3> QED
      BY <1>stutter, <2>1, <3>1
  <2>3. CASE ~loop.buffered /\ build' = build /\ loop'.alive /\ ~isBuilding'
    <3>1. \A u \in Units \ Cached : build.read[u] >= noticed
      BY <2>1, <2>3 DEF CaughtUp
    <3>2. Promise!Rest
      BY <2>1, <2>3, <3>1 DEF Promise!Rest
    <3> QED
      BY <3>2 DEF Promise!Next
  <2> QED
    BY <1>3, <2>2, <2>3, Returned DEF Inv
<1>4. CASE Restart
  <2>1. Builds /\ ~loop.alive /\ noticed' = edits
    BY <1>1, <1>4, Restarted DEF Inv, Restart
  <2>2. isBuilding' /\ loop'.alive /\ build'.read = build.read
    BY <2>1 DEF Builds
  <2>3. Promise!Restart(edits) /\ edits \in noticed..MaxEdits
    BY <1>1, <2>1, <2>2 DEF Promise!Restart
  <2> QED
    BY <2>3 DEF Promise!Next
<1>5. ASSUME NEW u \in Units, Compile(u) PROVE [Promise!Next]_(Promise!vars)
  <2>1. /\ isBuilding /\ UNCHANGED <<world, loop>>
        /\ SourceOf(u) \in 0..MaxEdits
        /\ build'.read = [build.read EXCEPT ![u] = SourceOf(u)]
    BY <1>5, CompileStep DEF Inv
  <2>2. noticed' = noticed /\ loop' = loop /\ isBuilding' /\ loop.alive
    BY <2>1, AliveWhenBuilding DEF world, isBuilding
  <2>3. build.read \in [Units -> 0..MaxEdits]
    BY DEF Inv, LoopOK, Build, Code
  <2> DEFINE reads  == [w \in Units \ Cached |-> build.read[w]]
             reads2 == [w \in Units \ Cached |-> build'.read[w]]
  <2>4. CASE u \in Cached
    <3>1. reads2 = reads
      BY <2>1, <2>3, <2>4
    <3> QED
      BY <2>1, <2>2, <3>1 DEF Promise!vars
  <2>5. CASE u \notin Cached
    <3>1. SourceOf(u) = edits
      BY <2>5 DEF SourceOf
    <3>2. reads2 = [reads EXCEPT ![u] = edits]
      BY <2>1, <2>3, <2>5, <3>1
    <3>3. loop.alive /\ isBuilding /\ edits >= noticed
      BY <1>1, <2>1, <2>2
    <3>4. PICK n \in 0..MaxEdits : n = edits
      BY <1>1
    <3>5. Promise!Read(u, n)
      BY <2>1, <2>2, <3>2, <3>3, <3>4 DEF Promise!Read
    <3> QED
      BY <2>5, <3>5 DEF Promise!Next
  <2> QED
    BY <2>4, <2>5
<1>6. CASE Pipeline /\ \A u \in Units : ~Compile(u)
  <2>1. CASE Reject /\ isBuilding /\ UNCHANGED <<world, build>>
    <3>1. ~loop'.alive /\ loop.alive /\ noticed' = noticed
      BY <2>1, Rejected, AliveWhenBuilding DEF Inv, world
    <3>2. Promise!Die
      BY <2>1, <3>1 DEF Promise!Die
    <3> QED
      BY <3>2 DEF Promise!Next
  <2>2. ASSUME NEW stage, Advances(stage) PROVE UNCHANGED Promise!vars
    <3>1. build'.read = build.read /\ loop' = loop /\ noticed' = noticed
      BY <2>2 DEF Advances, world
    <3>2. isBuilding' <=> isBuilding
      BY <3>1 DEF isBuilding
    <3> QED
      BY <1>stutter, <3>1, <3>2
  <2> QED
    BY <1>6, <2>1, <2>2, StageSteps DEF Inv
<1>7. CASE UNCHANGED <<loop, build, noticed>>
  <2>1. isBuilding' <=> isBuilding
    BY <1>7 DEF isBuilding
  <2> QED
    BY <1>stutter, <1>7, <2>1
<1>8. Save \/ Rollout \/ (AgentNext /\ UNCHANGED <<world, loop, build, files, pods>>) \/ UNCHANGED vars
        => UNCHANGED <<loop, build, noticed>>
  BY DEF Save, Rollout, world, vars
<1> QED
  BY <1>2, <1>3, <1>4, <1>5, <1>6, <1>7, <1>8 DEF Next

\* "Queues changes while buildDeploy is running": whenever changes come, while the
\* loop builds, between two builds or as it dies, it rests only after a build that
\* read them all.
THEOREM ImplementsRebuild == Spec => Rebuilds
<1>1. Init => Promise!Init
  <2> SUFFICES ASSUME Init PROVE Promise!Init
    OBVIOUS
  <2>1. loop.alive /\ isBuilding /\ noticed = 0
    BY DEF Init, isBuilding
  <2>2. \A u \in Units \ Cached : build.read[u] = 0
    BY DEF Init, NoCode
  <2> QED
    BY <2>1, <2>2 DEF Promise!Init
<1>2. Inv /\ CaughtUp /\ [Next]_vars => [Promise!Next]_(Promise!vars)
  BY Refines
<1>3. Init => CaughtUp
  BY CaughtUpInit
<1>4. Inv /\ CaughtUp /\ [Next]_vars => CaughtUp'
  BY CaughtUpNext
<1> QED
  BY <1>1, <1>2, <1>3, <1>4, Invariant, PTL DEF Spec, Rebuilds, Promise!Spec

-----------------------------------------------------------------------------
(* The pods run what was built last *)

Images == pipeline = "deploy" /\ mode = "interactive"

\* What was compiled is in the build directory, and nothing goes on without it.
Compiled ==
  /\ \A u \in Units : build.result[u] = "right" => dist[u] = build.read[u]
  /\ build.stage # "compile" => \A u \in Units : build.result[u] = "right"

\* The tag of a build is new until the build pushes its image, and from then on names
\* the code that build has read.
Tagged ==
  /\ \A t \in DOMAIN registry : t <= build.number
  /\ build.stage \in {"compile", "image", "push"} => build.number \notin DOMAIN registry
  /\ build.stage = "push" => build.image = build.read
  /\ build.stage \in {"manifests", "apply", "wait", "done"} =>
       build.number \in DOMAIN registry /\ registry[build.number] = build.read

\* It goes to the manifest and to the cluster, whose pods follow.
Applied ==
  /\ build.stage = "apply" => manifest = build.number
  /\ build.stage \in {"wait", "done"} => pods.tag = build.number
  /\ build.stage = "done" => pods.code = build.read

DeployInv ==
  Images => Compiled /\ Tagged /\ Applied /\ build.stage \notin {"upload", "publish"}

LEMMA DeployInit == Init => DeployInv
BY DEF Init, DeployInv, Images, Compiled, Tagged, Applied, NoResult

LEMMA DistIsRead ==
  ASSUME Inv, Compiled, build.stage # "compile"
  PROVE  dist = build.read
BY DEF Inv, FilesOK, LoopOK, Build, Code, Compiled

LEMMA CompileDeploys ==
  ASSUME Inv, DeployInv, NEW u \in Units, Compile(u)
  PROVE  DeployInv'
<1>1. /\ build.stage = "compile" /\ UNCHANGED <<world, registry>>
      /\ build'.stage = "compile" /\ build'.number = build.number
      /\ build'.read = [build.read EXCEPT ![u] = SourceOf(u)]
      /\ \/ /\ build'.result = [build.result EXCEPT ![u] = "left"]
            /\ dist' = dist
         \/ /\ build'.result = [build.result EXCEPT ![u] = "right"]
            /\ dist' = [dist EXCEPT ![u] = SourceOf(u)]
  BY CompileStep DEF Inv
<1>2. /\ build.result \in [Units -> {"none", "left", "right"}]
      /\ build.read \in [Units -> 0..MaxEdits] /\ dist \in [Units -> 0..MaxEdits]
  BY DEF Inv, FilesOK, LoopOK, Build, Code
<1>3. Images' => Compiled'
  <2>1. /\ \A w \in Units \ {u} : /\ build'.result[w] = build.result[w]
                                  /\ build'.read[w] = build.read[w]
                                  /\ dist'[w] = dist[w]
        /\ build'.result[u] = "right" => dist'[u] = build'.read[u]
    BY <1>1, <1>2
  <2>2. Images' <=> Images
    BY <1>1 DEF Images, world
  <2> QED
    BY <1>1, <2>1, <2>2 DEF DeployInv, Compiled
<1> QED
  BY <1>1, <1>3 DEF DeployInv, Images, world, Tagged, Applied

LEMMA StageDeploys ==
  ASSUME Inv, DeployInv, Images, Pipeline, \A u \in Units : ~Compile(u)
  PROVE  DeployInv'
<1>1. /\ Compiled /\ Tagged /\ Applied /\ build.stage \notin {"upload", "publish"}
      /\ build \in Build /\ build.number \in 0..MaxBuilds
  BY DEF DeployInv, Inv, LoopOK, Build
<1>2. ASSUME NEW stage \in Stages
      PROVE  /\ [build EXCEPT !.stage = stage].stage = stage
             /\ [build EXCEPT !.stage = stage].number = build.number
             /\ [build EXCEPT !.stage = stage].result = build.result
             /\ [build EXCEPT !.stage = stage].read = build.read
             /\ [build EXCEPT !.stage = stage].image = build.image
  BY <1>1, Staged
<1>3. Tag = build.number
  BY DEF Tag, Images
<1>4. /\ "image" \in Stages /\ "push" \in Stages /\ "manifests" \in Stages /\ "apply" \in Stages
      /\ "wait" \in Stages /\ "done" \in Stages
  BY DEF Stages
<1>5. CASE UNCHANGED <<build, files, pods>>
  BY <1>1, <1>5 DEF DeployInv, Compiled, Tagged, Applied, files
<1>6. CASE Verdict
  <2>1. CASE UNCHANGED build
    BY <1>5, <1>6, <2>1 DEF Verdict
  <2>2. CASE Failures = {} /\ build' = [build EXCEPT !.stage = "image"]
    <3>1. \A u \in Units : build.result[u] = "right"
      <4>1. \A u \in Units : build.result[u] # "left" /\ build.result[u] # "none"
        BY <1>6, <2>2 DEF Failures, Images, Verdict
      <4>2. build.result \in [Units -> {"none", "left", "right"}]
        BY <1>1 DEF Build
      <4> QED
        BY <4>1, <4>2
    <3>2. /\ build'.stage = "image" /\ build'.number = build.number
          /\ build'.result = build.result /\ build'.read = build.read
      BY <1>2, <1>4, <2>2
    <3>3. UNCHANGED <<files, pods>> /\ build.stage = "compile"
      BY <1>6 DEF Verdict, At
    <3> QED
      BY <1>1, <3>1, <3>2, <3>3 DEF DeployInv, Compiled, Tagged, Applied, files
  <2> QED
    BY <1>6, <2>1, <2>2 DEF Verdict, Images
<1>7. CASE Image
  <2>1. UNCHANGED <<files, pods>> /\ build.stage = "image"
    BY <1>7 DEF Image, At
  <2>2. dist = build.read
    BY <1>1, <2>1, DistIsRead
  <2>3. build' = [build EXCEPT !.stage = "push", !.image = dist]
    BY <1>1, <1>3, <1>7, <2>1 DEF Image, Tagged
  <2>4. /\ build'.stage = "push" /\ build'.number = build.number /\ build'.image = dist
        /\ build'.result = build.result /\ build'.read = build.read
    BY <1>1, <2>3 DEF Build
  <2> QED
    BY <1>1, <2>1, <2>2, <2>4 DEF DeployInv, Compiled, Tagged, Applied, files
<1>8. CASE Push
  <2>1. /\ build.stage = "push" /\ UNCHANGED <<world, dist, manifest, pods>>
        /\ build' = [build EXCEPT !.stage = "manifests"]
        /\ registry' = [t \in DOMAIN registry \cup {build.number} |->
                          IF t \in DOMAIN registry THEN registry[t] ELSE build.image]
    BY <1>3, <1>8 DEF Push, At
  <2>2. /\ build'.stage = "manifests" /\ build'.number = build.number
        /\ build'.result = build.result /\ build'.read = build.read
    BY <1>2, <1>4, <2>1
  <2>3. build.number \notin DOMAIN registry /\ build.image = build.read
    BY <1>1, <2>1 DEF Tagged
  <2>4. Tagged'
    <3>1. DOMAIN registry' = DOMAIN registry \cup {build.number} /\ registry'[build.number] = build.read
      BY <2>1, <2>3
    <3> QED
      BY <1>1, <2>2, <3>1 DEF Tagged
  <2>5. Compiled' /\ Applied'
    BY <1>1, <2>1, <2>2 DEF Compiled, Applied
  <2> QED
    BY <2>2, <2>4, <2>5 DEF DeployInv
<1>9. CASE SaveManifests
  <2>1. /\ build.stage = "manifests" /\ UNCHANGED <<dist, registry, pods>> /\ manifest' = build.number
        /\ build' = [build EXCEPT !.stage = "apply"]
    BY <1>3, <1>9 DEF SaveManifests, At, Images
  <2>2. /\ build'.stage = "apply" /\ build'.number = build.number
        /\ build'.result = build.result /\ build'.read = build.read
    BY <1>2, <1>4, <2>1
  <2> QED
    BY <1>1, <2>1, <2>2 DEF DeployInv, Compiled, Tagged, Applied
<1>10. CASE ApplyImage
  <2>1. /\ build.stage = "apply" /\ UNCHANGED files /\ pods' = [pods EXCEPT !.tag = manifest]
        /\ build' = [build EXCEPT !.stage = "wait"]
    BY <1>10 DEF ApplyImage, At
  <2>2. /\ build'.stage = "wait" /\ build'.number = build.number
        /\ build'.result = build.result /\ build'.read = build.read
    BY <1>2, <1>4, <2>1
  <2>3. pods'.tag = manifest
    BY <2>1 DEF Inv, FilesOK
  <2> QED
    BY <1>1, <2>1, <2>2, <2>3 DEF DeployInv, Compiled, Tagged, Applied, files
<1>11. CASE AwaitPods
  <2>1. /\ build.stage = "wait" /\ UNCHANGED <<files, pods>> /\ RolloutComplete
        /\ build' = [build EXCEPT !.stage = "done"]
    BY <1>11 DEF AwaitPods, At
  <2>2. /\ build'.stage = "done" /\ build'.number = build.number
        /\ build'.result = build.result /\ build'.read = build.read
    BY <1>2, <1>4, <2>1
  <2>3. pods.code = build.read
    BY <1>1, <2>1 DEF RolloutComplete, Tagged, Applied
  <2> QED
    BY <1>1, <2>1, <2>2, <2>3 DEF DeployInv, Compiled, Tagged, Applied, files
<1>12. Pipeline => \/ UNCHANGED <<build, files, pods>> \/ \E u \in Units : Compile(u)
                   \/ Verdict \/ Image \/ Push \/ SaveManifests \/ ApplyImage \/ AwaitPods
                   \/ At("upload") \/ At("publish") \/ pipeline = "reload"
  BY DEF Pipeline, StageFails, Upload, ApplyAgent, AwaitAgent, Publish
<1> QED
  BY <1>1, <1>5, <1>6, <1>7, <1>8, <1>9, <1>10, <1>11, <1>12 DEF At, Images

LEMMA DeployNext ==
  ASSUME Inv, DeployInv, [Next]_vars
  PROVE  DeployInv'
<1>1. pipeline' = pipeline /\ mode' = mode
  <2>1. Pipeline => UNCHANGED world
    BY DEF Pipeline, Compile, Verdict, StageFails, Image, Push, SaveManifests, ApplyImage, AwaitPods,
           Upload, ApplyAgent, AwaitAgent, Publish
  <2> QED
    BY <2>1 DEF Next, Save, Change, Trigger, Return, Restart, Rollout, vars, world
<1>2. CASE UNCHANGED <<build, files, pods>>
  BY <1>1, <1>2 DEF DeployInv, Images, Compiled, Tagged, Applied, files
<1>3. CASE Builds /\ UNCHANGED <<files, pods>>
  <2>1. build.number \in Nat /\ (\A t \in DOMAIN registry : t \in Nat)
    BY Numbers DEF Inv, LoopOK, Build, FilesOK
  <2>2. Tagged => Tagged'
    BY <1>3, <2>1 DEF Builds, Tagged, files
  <2>3. Compiled' /\ Applied' /\ build'.stage \notin {"upload", "publish"}
    BY <1>3 DEF Builds, Compiled, Applied, NoResult
  <2> QED
    BY <1>1, <2>2, <2>3 DEF DeployInv, Images
<1>4. CASE Change \/ Trigger \/ Return \/ Restart
  <2>1. UNCHANGED <<files, pods>>
    BY <1>4 DEF Change, Trigger, Return, Restart
  <2> QED
    BY <1>2, <1>3, <1>4, <2>1, LoopSteps DEF Keeps
<1>5. CASE Rollout
  <2>1. /\ UNCHANGED <<build, files>> /\ pods.tag \in DOMAIN registry
        /\ pods' = [pods EXCEPT !.code = registry[pods.tag]]
    BY <1>5 DEF Rollout
  <2>2. pods'.tag = pods.tag /\ pods'.code = registry[pods.tag]
    BY <2>1 DEF Inv, FilesOK
  <2> QED
    BY <1>1, <2>1, <2>2 DEF DeployInv, Images, Compiled, Tagged, Applied, files
<1>6. CASE Pipeline /\ \A u \in Units : ~Compile(u)
  <2>1. CASE Images
    BY <1>6, <2>1, StageDeploys
  <2>2. CASE ~Images
    BY <1>1, <2>2 DEF DeployInv, Images
  <2> QED
    BY <2>1, <2>2
<1>7. Save \/ (AgentNext /\ UNCHANGED <<world, loop, build, files, pods>>) \/ UNCHANGED vars
        => UNCHANGED <<build, files, pods>>
  BY DEF Save, vars
<1> QED
  BY <1>2, <1>4, <1>5, <1>6, <1>7, CompileDeploys DEF Next

\* In interactive mode a loop at rest has pods that run what its last build read:
\* no build finds its tag taken, and the pods it waits for are those of its own tag.
THEOREM PodsRunTheLastBuild == Spec => []DeployedIsBuilt
<1>1. Inv /\ DeployInv => DeployedIsBuilt
  BY DEF Inv, LoopOK, LoopShape, DeployInv, Images, Applied, DeployedIsBuilt
<1>2. Init => DeployInv
  BY DeployInit
<1>3. Inv /\ DeployInv /\ [Next]_vars => DeployInv'
  BY DeployNext
<1> QED
  BY <1>1, <1>2, <1>3, Invariant, PTL DEF Spec

-----------------------------------------------------------------------------
(* The agent serves what it was told of *)

\* What is made of a source is never newer than the source, nor what is uploaded
\* newer than what was made.
Sources ==
  /\ build.loaded <= edits
  /\ \A u \in Units : object[u] <= dist[u] /\ dist[u] <= SourceOf(u) /\ SourceOf(u) <= edits

\* A message in the queue stands for the newest bundle; with none left, the bundle
\* that was last downloaded is as new as the agent was told of.
Told ==
  /\ \A u \in Units : told[u] <= object[u]
  /\ ~container.up => ~container.subscribed /\ told = NoCode
  /\ container.queue = 0 =>
       \A u \in Units : told[u] <= IF container.loading THEN container.next[u] ELSE container.serving[u]

LEMMA ServeInit == Init => Sources /\ Told
BY NoCodeTyped, Numbers DEF Init, AgentInit, Down, NoCode, Sources, Told, SourceOf

\* What require has loaded changes only when the loop is started again.
LEMMA LoadedStep ==
  ASSUME Inv, [Next]_vars
  PROVE  build'.loaded = build.loaded \/ (Restart /\ build'.loaded = edits)
<1>1. build \in Build
  BY DEF Inv, LoopOK
<1>2. Again(build).loaded = build.loaded
  BY <1>1 DEF Again, Build
<1>3. QueueRebuild => build'.loaded = build.loaded
  BY <1>2 DEF QueueRebuild
<1>4. CASE Restart
  BY <1>1, <1>4 DEF Restart, Again, Build
<1>5. ASSUME NEW u \in Units, Compile(u) PROVE build'.loaded = build.loaded
  <2>1. PICK result \in {"left", "right"} :
          build' = [build EXCEPT !.result[u] = result, !.read[u] = SourceOf(u)]
    BY <1>5 DEF Compile
  <2> DEFINE n == SourceOf(u)
  <2> HIDE DEF n
  <2>2. build' = [build EXCEPT !.result[u] = result, !.read[u] = n]
    BY <2>1 DEF n
  <2> QED
    BY <1>1, <2>2 DEF Build
<1>6. ASSUME NEW stage, build' = [build EXCEPT !.stage = stage] PROVE build'.loaded = build.loaded
  BY <1>1, <1>6 DEF Build
<1>7. CASE Verdict \/ Push \/ SaveManifests \/ ApplyImage \/ AwaitPods \/ Upload \/ ApplyAgent
           \/ AwaitAgent \/ Publish
  BY <1>6, <1>7 DEF Verdict, Push, SaveManifests, ApplyImage, AwaitPods, Upload, ApplyAgent,
                    AwaitAgent, Publish
<1>8. CASE Image
  BY <1>1, <1>8 DEF Image, Build
<1> QED
  BY <1>2, <1>3, <1>4, <1>5, <1>7, <1>8
     DEF Next, Pipeline, Save, Change, Trigger, Return, StageFails, Rollout, vars

LEMMA SourcesNext ==
  ASSUME Inv, Sources, [Next]_vars
  PROVE  Sources' /\ \A u \in Units : object[u] <= object'[u]
<1>1. /\ edits \in Nat /\ build.loaded \in Nat
      /\ dist \in [Units -> Nat] /\ object \in [Units -> Nat]
  BY Numbers DEF Inv, WorldOK, LoopOK, Build, FilesOK, AgentTypeOK, Code
<1>2. edits' \in Nat /\ edits <= edits'
  <2>1. Pipeline => UNCHANGED world
    BY DEF Pipeline, Compile, Verdict, StageFails, Image, Push, SaveManifests, ApplyImage, AwaitPods,
           Upload, ApplyAgent, AwaitAgent, Publish
  <2> QED
    BY <1>1, <2>1 DEF Next, Save, Change, Trigger, Return, Restart, Rollout, vars, world
<1>3. build'.loaded \in Nat /\ build.loaded <= build'.loaded /\ build'.loaded <= edits'
  BY <1>1, <1>2, LoadedStep DEF Sources
<1>4. ASSUME NEW u \in Units
      PROVE  SourceOf(u) <= SourceOf(u)' /\ SourceOf(u)' <= edits'
             /\ SourceOf(u) \in Nat /\ SourceOf(u)' \in Nat
  BY <1>1, <1>2, <1>3 DEF SourceOf
<1>5. CASE UNCHANGED <<dist, object>>
  BY <1>1, <1>3, <1>4, <1>5 DEF Sources
<1>6. ASSUME NEW u \in Units, Compile(u) PROVE Sources' /\ object' = object
  <2>1. /\ dist' = dist \/ dist' = [dist EXCEPT ![u] = SourceOf(u)]
        /\ object' = object
    BY <1>6, CompileStep DEF Inv, agent
  <2>2. ASSUME NEW w \in Units PROVE object[w] <= dist'[w] /\ dist'[w] <= SourceOf(w)'
    BY <1>1, <1>4, <2>1 DEF Sources
  <2> QED
    BY <1>3, <1>4, <2>1, <2>2 DEF Sources
<1>7. CASE Upload
  <2>1. object' = dist /\ dist' = dist
    BY <1>7 DEF Upload, files
  <2> QED
    BY <1>1, <1>3, <1>4, <2>1 DEF Sources
<1>8. AgentNext => UNCHANGED object
  BY DEF AgentNext, Connect, Subscribe, Receive, Load, Reset, ChildStarts, ChildExits, Crash
<1>9. Pipeline => UNCHANGED <<dist, object>> \/ Upload \/ \E u \in Units : Compile(u)
  BY DEF Pipeline, Verdict, StageFails, Image, Push, SaveManifests, ApplyImage, AwaitPods,
         ApplyAgent, AwaitAgent, Publish, files, agent
<1>10. Save \/ Change \/ Trigger \/ Return \/ Restart \/ Rollout \/ UNCHANGED vars
         => UNCHANGED <<dist, object>>
  BY DEF Save, Change, Trigger, Return, Restart, Rollout, vars, files, agent
<1> QED
  BY <1>1, <1>5, <1>6, <1>7, <1>8, <1>9, <1>10 DEF Next, files

\* A container that lost what it was told of is asked for nothing.
LEMMA Forgotten ==
  ASSUME Inv, Inv', told' = NoCode, \A u \in Units : object[u] <= object'[u],
         ~container'.up => ~container'.subscribed
  PROVE  Told'
<1>1. \A u \in Units : told'[u] = 0
  BY NoCodeTyped
<1>2. container' \in Container /\ object' \in Code
  BY DEF Inv, AgentTypeOK
<1>3. \A u \in Units : /\ object'[u] \in Nat
                       /\ container'.next[u] \in Nat /\ container'.serving[u] \in Nat
  BY <1>2, Numbers DEF Container, Code
<1> QED
  BY <1>1, <1>3 DEF Told

LEMMA ToldNext ==
  ASSUME Inv, Inv', Told, [Next]_vars, \A u \in Units : object[u] <= object'[u]
  PROVE  Told'
<1>1. /\ container \in Container /\ container.queue \in 0..Capacity /\ Capacity \in Nat \ {0}
      /\ \A u \in Units : told[u] \in Nat /\ object[u] \in Nat /\ object'[u] \in Nat
  BY Numbers DEF Inv, AgentTypeOK, Container, Code
<1>2. CASE UNCHANGED <<container, told>>
  BY <1>1, <1>2 DEF Told
<1>3. CASE UNCHANGED <<object, told>> /\ container' = [container EXCEPT !.connected = TRUE]
  BY <1>1, <1>3 DEF Told, Container
<1>4. CASE Subscribe
  BY <1>1, <1>4 DEF Subscribe, Told, Container
<1>5. CASE Receive
  <2>1. CASE /\ container.subscribed /\ container' = [container EXCEPT !.queue = Offer(@)]
             /\ told' = object /\ UNCHANGED object
    <3>1. /\ container'.queue = Offer(container.queue)
          /\ container'.up = container.up /\ container'.subscribed = container.subscribed
      BY <1>1, <2>1 DEF Container
    <3>2. Offer(container.queue) # 0
      BY <1>1 DEF Offer
    <3> QED
      BY <1>1, <2>1, <3>1, <3>2 DEF Told
  <2> QED
    BY <1>2, <1>5, <2>1 DEF Receive
<1>6. CASE Load
  <2> DEFINE taken == [container EXCEPT !.queue = container.queue - 1]
  <2>1. /\ taken \in Container /\ taken.loading = container.loading
        /\ taken.up = container.up /\ taken.subscribed = container.subscribed
    <3>1. container.queue - 1 \in 0..Capacity
      BY <1>1, <1>6 DEF Load
    <3> QED
      BY <1>1, <3>1 DEF Container
  <2>2. CASE container' = Download(taken) /\ UNCHANGED <<told, object>>
    <3>1. /\ container'.loading /\ container'.next = object
          /\ container'.up = container.up /\ container'.subscribed = container.subscribed
      BY <2>1, <2>2 DEF Download, Container
    <3> QED
      BY <1>1, <2>2, <3>1 DEF Told
  <2>3. CASE container' = taken /\ told' = NoCode
    BY <2>1, <2>3, Forgotten DEF Told
  <2> QED
    BY <1>6, <2>2, <2>3 DEF Load
<1>7. CASE Reset
  <2> DEFINE stopped == [[container EXCEPT !.child = "none"] EXCEPT !.serving = NoCode]
             started == [[stopped EXCEPT !.child = "starting"] EXCEPT !.serving = stopped.next]
  <2>1. container' = [[started EXCEPT !.loading = FALSE] EXCEPT !.next = NoCode]
    BY <1>1, <1>7 DEF Reset, StopAll, StartChild, Container
  <2>2. /\ ~container'.loading /\ container'.serving = container.next
        /\ container'.queue = container.queue
        /\ container'.up = container.up /\ container'.subscribed = container.subscribed
    BY <1>1, <2>1 DEF Container
  <2>3. container.loading /\ UNCHANGED <<told, object>>
    BY <1>7 DEF Reset
  <2> QED
    BY <1>1, <2>2, <2>3 DEF Told
<1>8. CASE ChildStarts
  BY <1>1, <1>8 DEF ChildStarts, Told, Container
<1>9. CASE ChildExits
  <2>1. container'.up = container.up /\ container'.subscribed = container.subscribed
    BY <1>1, <1>9 DEF ChildExits, StopAll, Container
  <2> QED
    BY <1>9, <2>1, Forgotten DEF ChildExits, Told
<1>10. CASE Crash
  <2>1. container'.up
    BY <1>10 DEF Crash, Fresh, Down
  <2> QED
    BY <1>10, <2>1, Forgotten DEF Crash
<1>11. CASE ApplyAgent
  <2>1. CASE container.up
    BY <1>2, <1>11, <2>1 DEF ApplyAgent
  <2>2. CASE ~container.up
    <3>1. container'.up /\ told' = NoCode
      BY <1>11, <2>2 DEF ApplyAgent, Fresh, Down, Told
    <3> QED
      BY <3>1, Forgotten
  <2> QED
    BY <2>1, <2>2
<1>12. Pipeline => UNCHANGED <<container, told>> \/ ApplyAgent
  BY DEF Pipeline, Compile, Verdict, StageFails, Image, Push, SaveManifests, ApplyImage, AwaitPods,
         Upload, AwaitAgent, Publish, agent
<1>13. Save \/ Change \/ Trigger \/ Return \/ Restart \/ Rollout \/ UNCHANGED vars
         => UNCHANGED <<container, told>>
  BY DEF Save, Change, Trigger, Return, Restart, Rollout, vars, agent
<1> QED
  BY <1>2, <1>3, <1>4, <1>5, <1>6, <1>7, <1>8, <1>9, <1>10, <1>11, <1>12, <1>13
     DEF Next, AgentNext, Connect

\* A container that has taken all its messages and lost nothing on the way serves the
\* bundle it was last told of or a newer one: the queue drops the oldest message, and
\* what the ones after it load is never older.
THEOREM AgentServesWhatItWasTold == Spec => []ServesWhatItWasTold
<1>1. Inv /\ Told => ServesWhatItWasTold
  <2> SUFFICES ASSUME Inv, Told, Idle, container.queue = 0, NEW u \in Units
               PROVE  container.serving[u] >= told[u]
    BY DEF ServesWhatItWasTold
  <2>1. container.serving[u] \in Nat /\ told[u] \in Nat
    BY Numbers DEF Inv, AgentTypeOK, Container, Code
  <2> QED
    BY <2>1 DEF Idle, Told
<1>2. Init => Sources /\ Told
  BY ServeInit
<1>3. Inv /\ Sources /\ [Next]_vars => Sources' /\ \A u \in Units : object[u] <= object'[u]
  BY SourcesNext
<1>4. Inv /\ Inv' /\ Sources /\ Told /\ [Next]_vars => Told'
  BY <1>3, ToldNext
<1> QED
  BY <1>1, <1>2, <1>3, <1>4, Invariant, PTL DEF Spec

=================================================================================
