--------------------------------- MODULE DevLoop ---------------------------------
(***************************************************************************)
(* The development loop (toolbox, infra/dev-loop.ts) and the pipeline it   *)
(* runs each time: deployPipeline (pipeline.ts), which builds an image and *)
(* rolls it out, or createReloadableWorkerPipeline (reload-pipeline.ts),   *)
(* which uploads the build and sends the agent of module ReloadWorker a    *)
(* message to load it.                                                     *)
(*                                                                         *)
(* A developer edits files, presses Enter and starts the loop again when   *)
(* it has died.  Code is told apart by the edit its sources were read at.  *)
(* kubectl, Docker, the file watcher, the compilers and the bucket are     *)
(* external.                                                               *)
(***************************************************************************)
EXTENDS ReloadWorker

CONSTANTS
  Cached,       \* units the pipeline loads with require, and so once a process
  Pipelines,    \* the pipelines the loop may run: "deploy", "reload"
  Modes,        \* the modes it may be in: "once", "interactive"
  MaxTriggers,  \* bounds how often the developer presses Enter
  MaxRestarts   \* and starts the loop again

ASSUME LoopAssumption ==
  /\ Cached \subseteq Units
  /\ Pipelines \subseteq {"deploy", "reload"}
  /\ Modes \subseteq {"once", "interactive"}
  /\ MaxTriggers \in Nat
  /\ MaxRestarts \in Nat

MaxBuilds == 1 + MaxEdits + MaxTriggers + MaxRestarts

VARIABLES
  pipeline,  \* the one in use
  mode,      \* and its mode
  edits,     \* edits the developer has saved
  noticed,   \* the last of them the watcher has told the loop of
  triggers,  \* times Enter was pressed
  restarts,  \* times the loop was started again
  loop,      \* the loop
  build,     \* the build under way, or the last
  dist,      \* the build directory
  manifest,  \* the tag in the manifest file of the version
  registry,  \* the image registry
  pods       \* what the cluster is to run, and what it runs

world == <<pipeline, mode, edits, noticed, triggers, restarts>>
files == <<dist, manifest, registry>>
vars  == <<world, loop, build, files, pods, agent>>

-----------------------------------------------------------------------------
(* The loop *)

Loop ==
  [alive    : BOOLEAN,
   frames   : 0..MaxBuilds,    \* calls of watchLoop that have not returned
   prompt   : BOOLEAN,         \* whether it reads lines
   buffered : BOOLEAN,         \* whether the buffer holds changes
   tracked  : BOOLEAN,         \* whether logStreams holds streams that run
   leaked   : 0..MaxBuilds]    \* sets of streams that run and nothing holds

isBuilding == loop.frames > 0
Resting    == loop.alive /\ ~isBuilding

Stages == {"compile", "image", "push", "upload", "manifests", "apply", "wait", "publish", "done"}

Build ==
  [stage  : Stages,
   number : 0..MaxBuilds,                        \* of the build
   result : [Units -> {"none", "left", "right"}],
   read   : Code,                                \* the edit each unit's source was read at
   loaded : 0..MaxEdits,                         \* and at which require loaded the cached ones
   image  : Code]                                \* what docker build made

NoResult == [u \in Units |-> "none"]

\* watchLoop up to its await: it kills the streams it knows of and calls buildDeploy.
Begin(l) == [l EXCEPT !.frames = @ + 1, !.buffered = FALSE, !.tracked = FALSE]
Again(b) == [b EXCEPT !.stage = "compile", !.number = @ + 1, !.result = NoResult]

\* Wrong on purpose: a change that comes during a build is not kept.
DropRebuild ==
  IF isBuilding THEN UNCHANGED <<loop, build>>
  ELSE /\ loop' = Begin(loop)
       /\ build' = Again(build)

\* queueRebuild
QueueRebuild ==
  IF isBuilding
  THEN /\ loop' = [loop EXCEPT !.buffered = TRUE]
       /\ UNCHANGED build
  ELSE /\ loop' = Begin(loop)
       /\ build' = Again(build)

Save ==
  /\ edits < MaxEdits
  /\ edits' = edits + 1
  /\ UNCHANGED <<pipeline, mode, noticed, triggers, restarts, loop, build, files, pods, agent>>

\* The watcher's "change": it may stand for several edits, and be late.
Change ==
  /\ loop.alive
  /\ \E n \in (noticed + 1)..edits : noticed' = n
  /\ QueueRebuild
  /\ UNCHANGED <<pipeline, mode, edits, triggers, restarts, files, pods, agent>>

\* Enter.  Lines are read once the first build has been deployed.
Trigger ==
  /\ loop.prompt
  /\ triggers < MaxTriggers
  /\ triggers' = triggers + 1
  /\ QueueRebuild
  /\ UNCHANGED <<pipeline, mode, edits, noticed, restarts, files, pods, agent>>

\* The pipeline is done and watchLoop goes on.  If changes were queued it calls
\* itself; if not, every call on the stack starts streams for the deployments of its
\* own result, one after the other, and only those of the outermost are held.
Return ==
  /\ isBuilding
  /\ build.stage = "done"
  /\ \/ /\ loop.buffered
        /\ loop' = Begin(loop)
        /\ build' = Again(build)
     \/ /\ ~loop.buffered
        /\ loop' = [loop EXCEPT !.frames = 0, !.tracked = TRUE, !.prompt = TRUE,
                                !.leaked = @ + (loop.frames - 1)]
        /\ UNCHANGED build
  /\ UNCHANGED <<world, files, pods, agent>>

\* The pipeline rejects.  Nothing catches it and the process ends; its streams go
\* on.
Reject ==
  loop' = [loop EXCEPT !.alive = FALSE, !.prompt = FALSE, !.frames = 0, !.buffered = FALSE,
                       !.tracked = FALSE, !.leaked = @ + (IF loop.tracked THEN 1 ELSE 0)]

\* The developer starts a new one: it watches for changes from now on, and builds.
Restart ==
  /\ ~loop.alive
  /\ restarts < MaxRestarts
  /\ restarts' = restarts + 1
  /\ noticed' = edits
  /\ loop' = Begin([loop EXCEPT !.alive = TRUE])
  /\ build' = [Again(build) EXCEPT !.loaded = edits]
  /\ UNCHANGED <<pipeline, mode, edits, triggers, files, pods, agent>>

-----------------------------------------------------------------------------
(* The build step, in either pipeline *)

At(stage) == isBuilding /\ build.stage = stage

\* compile: the units are read and compiled side by side, and one that fails leaves
\* its old output where it is.  What require has loaded it does not read again.
SourceOf(u) == IF u \in Cached THEN build.loaded ELSE edits

Compile(u) ==
  /\ At("compile")
  /\ build.result[u] = "none"
  /\ \E result \in {"left", "right"} :
       /\ build' = [build EXCEPT !.result[u] = result, !.read[u] = SourceOf(u)]
       /\ dist' = IF result = "right" THEN [dist EXCEPT ![u] = SourceOf(u)] ELSE dist
  /\ UNCHANGED <<world, loop, manifest, registry, pods, agent>>

\* "Fail on one or more errors."  The reload pipeline looks at the wrong side.
Failures == {u \in Units : build.result[u] = IF pipeline = "deploy" THEN "left" ELSE "right"}

Verdict ==
  /\ At("compile")
  /\ \A u \in Units : build.result[u] # "none"
  /\ \/ /\ Failures # {}
        /\ Reject
        /\ UNCHANGED build
     \/ /\ Failures = {}
        /\ build' = [build EXCEPT !.stage = IF pipeline = "deploy" THEN "image" ELSE "upload"]
        /\ UNCHANGED loop
  /\ UNCHANGED <<world, files, pods, agent>>

\* A command of any later stage fails.
StageFails ==
  /\ isBuilding
  /\ build.stage \in Stages \ {"compile", "publish", "done"}
  /\ Reject
  /\ UNCHANGED <<world, build, files, pods, agent>>

-----------------------------------------------------------------------------
(* deployPipeline *)

\* A tag no image has.
NoTag == MaxBuilds + 1

\* Wrong on purpose: the tag is the version's in either mode.
TagOfVersion == 0

\* getDockerImageTag: once, it is the version alone.
Tag == IF mode = "interactive" THEN build.number ELSE 0

\* doesDockerImageExist, and docker build if it says no.  It says no as well when it
\* cannot tell.
Image ==
  /\ At("image")
  /\ \/ /\ Tag \in DOMAIN registry
        /\ build' = [build EXCEPT !.stage = "manifests"]
     \/ build' = [build EXCEPT !.stage = "push", !.image = dist]
  /\ UNCHANGED <<world, loop, files, pods, agent>>

\* dockerPush: a tag that is taken keeps its image, and that is no error.
Push ==
  /\ At("push")
  /\ registry' = [t \in DOMAIN registry \cup {Tag} |->
                    IF t \in DOMAIN registry THEN registry[t] ELSE build.image]
  /\ build' = [build EXCEPT !.stage = "manifests"]
  /\ UNCHANGED <<world, loop, dist, manifest, pods, agent>>

\* saveManifests, in either pipeline: the file of the version is written anew.  The
\* image of a reloadable worker is always the same.
SaveManifests ==
  /\ At("manifests")
  /\ manifest' = IF pipeline = "deploy" THEN Tag ELSE manifest
  /\ build' = [build EXCEPT !.stage = "apply"]
  /\ UNCHANGED <<world, loop, dist, registry, pods, agent>>

\* kubectl apply: the cluster is told what the file says.
ApplyImage ==
  /\ pipeline = "deploy"
  /\ At("apply")
  /\ pods' = [pods EXCEPT !.tag = manifest]
  /\ build' = [build EXCEPT !.stage = "wait"]
  /\ UNCHANGED <<world, loop, files, agent>>

\* The cluster replaces the pods: new ones are ready when their worker runs.
Rollout ==
  /\ pods.tag \in DOMAIN registry
  /\ pods.code # registry[pods.tag]
  /\ pods' = [pods EXCEPT !.code = registry[pods.tag]]
  /\ UNCHANGED <<world, loop, build, files, agent>>

\* kubectl rollout status: the pods are those of the tag last applied, and ready.
RolloutComplete == pods.tag \in DOMAIN registry /\ pods.code = registry[pods.tag]

AwaitPods ==
  /\ pipeline = "deploy"
  /\ At("wait")
  /\ RolloutComplete
  /\ build' = [build EXCEPT !.stage = "done"]
  /\ UNCHANGED <<world, loop, files, pods, agent>>

-----------------------------------------------------------------------------
(* createReloadableWorkerPipeline *)

\* upload: a version's bundle always has the same key.
Upload ==
  /\ At("upload")
  /\ object' = dist
  /\ build' = [build EXCEPT !.stage = "manifests"]
  /\ UNCHANGED <<world, loop, files, pods, container, publishing, told>>

\* deploy: the container of a reloadable worker is the same each time, so that only
\* the first apply starts one.
ApplyAgent ==
  /\ pipeline = "reload"
  /\ At("apply")
  /\ container' = IF container.up THEN container ELSE Fresh
  /\ build' = [build EXCEPT !.stage = "wait"]
  /\ UNCHANGED <<world, loop, files, pods, object, publishing, told>>

AwaitAgent ==
  /\ pipeline = "reload"
  /\ At("wait")
  /\ Ready
  /\ build' = [build EXCEPT !.stage = "publish"]
  /\ UNCHANGED <<world, loop, files, pods, agent>>

\* reload: the message is published by a fiber of its own that nobody waits for.
Publish ==
  /\ At("publish")
  /\ publishing' = publishing + 1
  /\ build' = [build EXCEPT !.stage = "done"]
  /\ UNCHANGED <<world, loop, files, pods, container, object, told>>

-----------------------------------------------------------------------------
\* devLoop: "start the loop".  In this model no version was deployed before.
Init ==
  /\ pipeline \in Pipelines
  /\ mode \in Modes
  /\ edits = 0 /\ noticed = 0 /\ triggers = 0 /\ restarts = 0
  /\ loop = [alive |-> TRUE, frames |-> 1, prompt |-> FALSE, buffered |-> FALSE,
             tracked |-> FALSE, leaked |-> 0]
  /\ build = [stage |-> "compile", number |-> 1, result |-> NoResult, read |-> NoCode,
              loaded |-> 0, image |-> NoCode]
  /\ dist = NoCode
  /\ manifest = NoTag
  /\ registry = <<>>
  /\ pods = [tag |-> NoTag, code |-> NoCode]
  /\ AgentInit

Pipeline ==
  \/ \E u \in Units : Compile(u)
  \/ Verdict
  \/ StageFails
  \/ Image
  \/ Push
  \/ SaveManifests
  \/ ApplyImage
  \/ AwaitPods
  \/ Upload
  \/ ApplyAgent
  \/ AwaitAgent
  \/ Publish

Next ==
  \/ Save
  \/ Change
  \/ Trigger
  \/ Return
  \/ Restart
  \/ Pipeline
  \/ Rollout
  \/ AgentNext /\ UNCHANGED <<world, loop, build, files, pods>>

Spec == Init /\ [][Next]_vars

-----------------------------------------------------------------------------
(* Properties *)

TypeOK ==
  /\ pipeline \in Pipelines
  /\ mode \in Modes
  /\ edits \in 0..MaxEdits /\ noticed \in 0..edits
  /\ triggers \in 0..MaxTriggers /\ restarts \in 0..MaxRestarts
  /\ loop \in Loop
  /\ build \in Build
  /\ dist \in Code
  /\ manifest \in 0..NoTag
  /\ DOMAIN registry \subseteq 0..MaxBuilds
  /\ \A t \in DOMAIN registry : registry[t] \in Code
  /\ pods \in [tag : 0..NoTag, code : Code]
  /\ AgentTypeOK

\* What the loop promises of all units that are read again by each build.
Promise == INSTANCE Rebuild WITH
  Units   <- Units \ Cached,
  read    <- [u \in Units \ Cached |-> build.read[u]],
  state   <- IF ~loop.alive THEN "dead" ELSE IF isBuilding THEN "working" ELSE "resting"

\* The loop is an implementation of module Rebuild: whenever changes come, while it
\* builds, between two builds or as it dies, it rests only after a build that read
\* them all.
Rebuilds == Promise!Spec

\* In interactive mode, when the loop that deploys images rests, the pods run what
\* the last build read: no tag that was taken, and no rollout that was mistaken for
\* the last one's, leaves them with older code.
DeployedIsBuilt ==
  Resting /\ pipeline = "deploy" /\ mode = "interactive" => pods.code = build.read

\* The same for every unit, those loaded with require among them: at rest the last
\* change the loop was told of has been built.
RestingIsUpToDate == Resting => \A u \in Units : build.read[u] >= noticed

\* "Fail on one or more errors": no build in which a unit failed goes on.
FailsOnErrors ==
  isBuilding /\ build.stage # "compile" => \A u \in Units : build.result[u] = "right"

=============================================================================
