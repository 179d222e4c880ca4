------------------------------ MODULE ReloadWorker ------------------------------
(***************************************************************************)
(* The container agent of a reloadable worker (workflow/reload-worker): it *)
(* waits for messages on a topic of its own, keeps them in a queue that    *)
(* drops its oldest, and for each downloads the bundle it names, stops its *)
(* child processes and starts one on the new code.                         *)
(*                                                                         *)
(* The bundle of a version is always the one object of the bucket, so what *)
(* a message brings is the content the object has when it is downloaded,   *)
(* and messages differ in nothing else.                                    *)
(***************************************************************************)
EXTENDS Naturals

CONSTANTS Units,     \* the files of a bundle
          MaxEdits,  \* bounds the edits a file may hold
          Capacity   \* of the queue, 16 in the code

ASSUME WorkerAssumption ==
  /\ MaxEdits \in Nat
  /\ Capacity \in Nat \ {0}

\* For each file the edit it was compiled from, 0 if there is none.
Code   == [Units -> 0..MaxEdits]
NoCode == [u \in Units |-> 0]

VARIABLES
  container,   \* the agent
  object,      \* the bundle in the bucket
  publishing,  \* messages the pipeline has forked off and not yet sent
  told         \* history: what the object held as the last message came, or
               \* NoCode once something has made the container lose it

agent == <<container, object, publishing, told>>

Child == {"none", "starting", "running"}

Container ==
  [up         : BOOLEAN,
   connected  : BOOLEAN,      \* program has its MQTT client
   subscribed : BOOLEAN,      \* and what listens has its own, and its subscription
   queue      : 0..Capacity,
   loading    : BOOLEAN,      \* processReload has its download
   next       : Code,         \* and this is what it holds
   child      : Child,        \* the process last started,
   serving    : Code]         \* and the code it was given

Down  == [up |-> FALSE, connected |-> FALSE, subscribed |-> FALSE, queue |-> 0, loading |-> FALSE,
          next |-> NoCode, child |-> "none", serving |-> NoCode]
Fresh == [Down EXCEPT !.up = TRUE]

AgentInit ==
  /\ container = Down
  /\ object = NoCode
  /\ publishing = 0
  /\ told = NoCode

-----------------------------------------------------------------------------
\* The probes Kubernetes asks, and what the agent has its health checks say: they do
\* not look at whether it has subscribed or a child runs.
Checks == [probe \in {"startup", "readiness", "liveness"} |-> TRUE]

Ready == container.up /\ \A probe \in DOMAIN Checks : Checks[probe]

\* MQTTLive connects once.  If the broker refuses, the fiber that asked for the client
\* fails: nothing is tried again, and the container stays up.
Connect ==
  /\ container.up
  /\ ~container.connected
  /\ container' = [container EXCEPT !.connected = TRUE]
  /\ UNCHANGED <<object, publishing, told>>

\* main: the subscription is made on a connection of its own, and takes its time.
Subscribe ==
  /\ container.up
  /\ ~container.subscribed
  /\ container' = [container EXCEPT !.subscribed = TRUE]
  /\ UNCHANGED <<object, publishing, told>>

\* Wrong on purpose: nothing is kept while a bundle is loaded.
OfferIfIdle(queue) == IF queue = Capacity \/ container.loading THEN queue ELSE queue + 1

\* Queue.sliding: what comes is kept, and the oldest goes if there are too many.
Offer(queue) == IF queue = Capacity THEN queue ELSE queue + 1

\* A message is not retained: it reaches the container if it has subscribed.
Receive ==
  /\ publishing > 0
  /\ publishing' = publishing - 1
  /\ \/ /\ container.subscribed
        /\ container' = [container EXCEPT !.queue = Offer(@)]
        /\ told' = object
     \/ UNCHANGED <<container, told>>   \* lost, or no one there
  /\ UNCHANGED object

Idle == container.connected /\ ~container.loading

\* downloadFileHTTP and untar, in a directory of its own.
Download(c) == [c EXCEPT !.loading = TRUE, !.next = object]

\* program: it takes a message and loads the bundle.  Errors are logged and the next
\* message is taken.
Load ==
  /\ Idle
  /\ container.queue > 0
  /\ LET taken == [container EXCEPT !.queue = @ - 1] IN
       \/ container' = Download(taken) /\ UNCHANGED told
       \/ container' = taken /\ told' = NoCode
  /\ UNCHANGED <<object, publishing>>

\* resetWorker: every process there ever was is told to stop; then one is started.
\* A process that was told to stop finishes the tasks it has, and takes no others.
StopAll(c)      == [c EXCEPT !.child = "none", !.serving = NoCode]
StartChild(c)   == [c EXCEPT !.child = "starting", !.serving = c.next]
Reset ==
  /\ container.loading
  /\ container' = [StartChild(StopAll(container)) EXCEPT !.loading = FALSE, !.next = NoCode]
  /\ UNCHANGED <<object, publishing, told>>

\* thread: the child creates a Temporal worker and starts it, or exits.  Nobody
\* starts it again.
ChildStarts ==
  /\ container.child = "starting"
  /\ container' = [container EXCEPT !.child = "running"]
  /\ UNCHANGED <<object, publishing, told>>

ChildExits ==
  /\ container.child \in {"starting", "running"}
  /\ container' = StopAll(container)
  /\ told' = NoCode
  /\ UNCHANGED <<object, publishing>>

\* Kubernetes starts the container again, with no code and an empty queue.
Crash ==
  /\ container.up
  /\ container' = Fresh
  /\ told' = NoCode
  /\ UNCHANGED <<object, publishing>>

AgentNext ==
  \/ Connect
  \/ Subscribe
  \/ Receive
  \/ Load
  \/ Reset
  \/ ChildStarts
  \/ ChildExits
  \/ Crash

AgentTypeOK ==
  /\ container \in Container
  /\ object \in Code
  /\ publishing \in Nat
  /\ told \in Code

\* A container that was told of a bundle, has no message left and has lost nothing
\* on the way serves that bundle or a newer one, however messages were dropped and
\* whenever the object was replaced.
ServesWhatItWasTold ==
  Idle /\ container.queue = 0 => \A u \in Units : container.serving[u] >= told[u]

================================================================================
