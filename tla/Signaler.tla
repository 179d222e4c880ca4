-------------------------------- MODULE Signaler --------------------------------
(***************************************************************************)
(* The signaler (packages signaler and workflow-request-response): an HTTP *)
(* server that takes an instruction, finds the task queue a new workflow   *)
(* is to start on, and sends it on to Temporal.  An update is a signal     *)
(* that is answered: the request gives the workflow a topic of its own,    *)
(* and what the workflow publishes there over MQTT is its result.  The     *)
(* signal, the listener and a timer run side by side.                      *)
(*                                                                         *)
(* Temporal, the MQTT broker and the workflows are external.  So are the   *)
(* combinators of the Effect library: raceAll ends with the first success, *)
(* and fails when all its parts have; all fails with the first failure and *)
(* interrupts the rest.                                                    *)
(***************************************************************************)
EXTENDS Naturals, FiniteSets

CONSTANTS
  Requests,     \* requests to the server
  Action,       \* Action[r]: what the instruction asks for
  Targets,      \* Targets[r]: the workflows it is for
  Given,        \* Given[r]: the task queue in its arguments, or NoQueue
  Workflows,    \* workflow ids
  Queues,       \* task queues of the versions
  NoQueue,      \* the empty string
  Connected,    \* whether the MQTT client is open while requests are served
  MaxReplies    \* bounds what workflows publish in answer to one request

Actions == {"signal", "start", "signalWithStart", "signalBatch",
            "signalWithStartBatch", "update", "updateOrStart"}

IsUpdate(r) == Action[r] \in {"update", "updateOrStart"}
Starts(r)   == Action[r] \in {"start", "signalWithStart", "signalWithStartBatch", "updateOrStart"}
\* A batch of starts has a queue for each; the handler looks for none.
AsksQueue(r) == Action[r] \in {"start", "signalWithStart", "updateOrStart"} /\ Given[r] = NoQueue

ASSUME RequestsAssumption ==
  /\ Action \in [Requests -> Actions]
  /\ Targets \in [Requests -> SUBSET Workflows]
  /\ Given \in [Requests -> Queues \cup {NoQueue}]
  /\ NoQueue \notin Queues
  /\ Connected \in BOOLEAN
  /\ MaxReplies \in Nat

VARIABLES
  req,      \* the state of each request in the server
  found,    \* what the feature flag client answered for it
  topics,   \* topics the broker has a subscription for
  running,  \* workflows that run
  applied,  \* applied[r]: the workflows that have r's signal, or were started by it
  replies,  \* replies on their way to the server
  sent      \* sent[r]: replies to r the broker was given

vars == <<req, found, topics, running, applied, replies, sent>>

-----------------------------------------------------------------------------
(* A request *)

Request ==
  [pc       : {"new", "open", "ok", "failed"},
   queue    : Queues \cup {NoQueue},
   call     : {"none", "sending", "done", "abandoned"},       \* the call to Temporal
   listener : {"none", "waiting", "got", "failed", "aborted"}, \* with its callback
   timer    : {"none", "running", "failed", "stopped"}]

New == [pc |-> "new", queue |-> NoQueue, call |-> "none", listener |-> "none", timer |-> "none"]

Ended(r)     == req[r].pc \in {"ok", "failed"}
\* The callback of mqtt.on is there while the listener waits.
Listening(r) == req[r].listener = "waiting"

\* Wrong on purpose: the listener is not interrupted with the rest.
Abandon(q, pc) ==
  [q EXCEPT !.pc    = pc,
            !.call  = IF @ = "sending" THEN "abandoned" ELSE @,
            !.timer = IF @ = "running" THEN "stopped" ELSE @]

\* The end of a request interrupts what still runs.  A promise cannot be called
\* back: Temporal may still get the call.
Close(q, pc) ==
  [q EXCEPT !.pc       = pc,
            !.call     = IF @ = "sending" THEN "abandoned" ELSE @,
            !.listener = IF @ = "waiting" THEN "aborted" ELSE @,
            !.timer    = IF @ = "running" THEN "stopped" ELSE @]

\* Effect.all([raceAll([listener, timer]), signal]), or the signal alone.
RaceWon(q)  == q.listener \in {"got", "none"}
RaceLost(q) == q.listener = "failed" /\ q.timer = "failed"

Settle(q) ==
  IF RaceLost(q) THEN Close(q, "failed")
  ELSE IF RaceWon(q) /\ q.call = "done" THEN Close(q, "ok")
  ELSE q

-----------------------------------------------------------------------------
(* The handler *)

\* sendInstruction: workflowUpdate begins to listen and starts its timer as it sends.
Send(r, queue) ==
  [New EXCEPT !.pc = "open", !.queue = queue, !.call = "sending",
              !.listener = IF IsUpdate(r) THEN "waiting" ELSE "none",
              !.timer    = IF IsUpdate(r) THEN "running" ELSE "none"]

\* getTaskQueueOrFail lets through what its filter accepts, and that is an answer
\* which is empty.
Accepts(queue) == queue = NoQueue

\* implement: a body that is no instruction is a bad request, and goes no further.
Refuse(r) ==
  /\ req[r].pc = "new"
  /\ req' = [req EXCEPT ![r] = Close(New, "failed")]
  /\ UNCHANGED <<found, topics, running, applied, replies, sent>>

Handle(r) ==
  /\ req[r].pc = "new"
  /\ \/ /\ ~AsksQueue(r)
        /\ req' = [req EXCEPT ![r] = Send(r, Given[r])]
        /\ UNCHANGED found
     \/ /\ AsksQueue(r)
        /\ \E queue \in Queues \cup {NoQueue} :
             /\ found' = [found EXCEPT ![r] = queue]
             /\ req' = [req EXCEPT ![r] = IF Accepts(queue) THEN Send(r, queue)
                                          ELSE Close(New, "failed")]
  /\ UNCHANGED <<topics, running, applied, replies, sent>>

-----------------------------------------------------------------------------
(* Temporal *)

\* A signal needs a workflow that runs, a start one that does not and a queue.
CanApply(r, w) ==
  /\ Starts(r) => req[r].queue # NoQueue \/ Action[r] = "signalWithStartBatch"
  /\ Action[r] = "start" => w \notin running
  /\ ~Starts(r) => w \in running

Apply(r, w) ==
  /\ req[r].call \in {"sending", "abandoned"}
  /\ w \in Targets[r] \ applied[r]
  /\ CanApply(r, w)
  /\ applied' = [applied EXCEPT ![r] = @ \cup {w}]
  /\ running' = running \cup {w}
  /\ UNCHANGED <<req, found, topics, replies, sent>>

\* Wrong on purpose: the answer does not settle the request.
AnswerUnnoticed(r) ==
  /\ req[r].call = "sending"
  /\ applied[r] = Targets[r]
  /\ req' = [req EXCEPT ![r].call = "done"]
  /\ UNCHANGED <<found, topics, running, applied, replies, sent>>

Answer(r) ==
  /\ req[r].call = "sending"
  /\ applied[r] = Targets[r]
  /\ req' = [req EXCEPT ![r] = Settle([@ EXCEPT !.call = "done"])]
  /\ topics' = IF req'[r].pc = "open" THEN topics ELSE topics \ {r}
  /\ UNCHANGED <<found, running, applied, replies, sent>>

\* The call is refused, or its answer lost; in a batch some may have it.
CallFails(r) ==
  /\ req[r].call = "sending"
  /\ req' = [req EXCEPT ![r] = Close([@ EXCEPT !.call = "abandoned"], "failed")]
  /\ topics' = topics \ {r}
  /\ UNCHANGED <<found, running, applied, replies, sent>>

Finish(w) ==
  /\ w \in running
  /\ running' = running \ {w}
  /\ UNCHANGED <<req, found, topics, applied, replies, sent>>

-----------------------------------------------------------------------------
(* MQTT *)

\* The subscription reaches the broker some time after the request asked for it.  A
\* client that was ended sends none.
Subscribe(r) ==
  /\ Connected
  /\ Listening(r)
  /\ r \notin topics
  /\ topics' = topics \cup {r}
  /\ UNCHANGED <<req, found, running, applied, replies, sent>>

\* The workflow publishes its result, and again if it tries again.  Without a
\* subscription the broker drops it.
Reply(r, good) ==
  /\ IsUpdate(r)
  /\ applied[r] # {}
  /\ sent[r] < MaxReplies
  /\ sent' = [sent EXCEPT ![r] = @ + 1]
  /\ replies' = IF r \in topics THEN replies \cup {[topic |-> r, good |-> good]} ELSE replies
  /\ UNCHANGED <<req, found, topics, running, applied>>

Lose(m) ==
  /\ m \in replies
  /\ replies' = replies \ {m}
  /\ UNCHANGED <<req, found, topics, running, applied, sent>>

\* Wrong on purpose: the topic is not looked at.
HearsAny(r, m) == Listening(r)

\* Which listeners a message is for: all callbacks see it and look at the topic.
Hears(r, m) == Listening(r) /\ m.topic = r

\* The callback unsubscribes and resolves, with an error if it cannot parse.
Heard(q, m) == Settle([q EXCEPT !.listener = IF m.good THEN "got" ELSE "failed"])

Deliver(m) ==
  /\ m \in replies
  /\ replies' = replies \ {m}
  /\ req' = [r \in Requests |-> IF Hears(r, m) THEN Heard(req[r], m) ELSE req[r]]
  /\ topics' = {r \in topics : ~Hears(r, m)}
  /\ UNCHANGED <<found, running, applied, sent>>

\* RequestResponseTimedOut
TimeOut(r) ==
  /\ req[r].timer = "running"
  /\ req' = [req EXCEPT ![r] = Settle([@ EXCEPT !.timer = "failed"])]
  /\ topics' = IF req'[r].pc = "open" THEN topics ELSE topics \ {r}
  /\ UNCHANGED <<found, running, applied, replies, sent>>

-----------------------------------------------------------------------------
Init ==
  /\ req = [r \in Requests |-> New]
  /\ found = [r \in Requests |-> NoQueue]
  /\ topics = {}
  /\ running \in SUBSET Workflows
  /\ applied = [r \in Requests |-> {}]
  /\ replies = {}
  /\ sent = [r \in Requests |-> 0]

Next ==
  \/ \E r \in Requests :
       \/ Refuse(r)
       \/ Handle(r)
       \/ \E w \in Workflows : Apply(r, w)
       \/ Answer(r)
       \/ CallFails(r)
       \/ Subscribe(r)
       \/ \E good \in BOOLEAN : Reply(r, good)
       \/ TimeOut(r)
  \/ \E m \in replies : Lose(m) \/ Deliver(m)
  \/ \E w \in Workflows : Finish(w)

Spec == Init /\ [][Next]_vars

\* Requests are handled, calls to Temporal end one way or the other, and timers
\* fire; workflows and broker owe nothing.
Fairness ==
  \A r \in Requests : /\ WF_vars(Handle(r) \/ Refuse(r))
                      /\ WF_vars(Answer(r) \/ CallFails(r))
                      /\ WF_vars(TimeOut(r))

FairSpec == Spec /\ Fairness

-----------------------------------------------------------------------------
(* Properties *)

TypeOK ==
  /\ req \in [Requests -> Request]
  /\ found \in [Requests -> Queues \cup {NoQueue}]
  /\ topics \subseteq Requests
  /\ running \subseteq Workflows
  /\ applied \in [Requests -> SUBSET Workflows]
  /\ \A r \in Requests : applied[r] \subseteq Targets[r]
  /\ replies \subseteq [topic : Requests, good : BOOLEAN]
  /\ sent \in [Requests -> 0..MaxReplies]

\* "Success path is only reachable when a reply from workflow": an update that
\* succeeds has all its signals delivered, and a reply to itself and no other.
SuccessIsAnswered ==
  \A r \in Requests :
    req[r].pc = "ok" =>
      /\ applied[r] = Targets[r]
      /\ IsUpdate(r) => sent[r] > 0 /\ req[r].listener = "got"

\* However a request ends, and whatever ends first, it leaves no callback on the
\* client all requests share, and no subscription.
NothingLeftBehind ==
  \A r \in Requests : Listening(r) \/ r \in topics => req[r].pc = "open"

\* A request whose listener has its reply ends: it waits for Temporal's answer only.
HeardEnds == \A r \in Requests : req[r].listener = "got" ~> Ended(r)

\* "Timeout is mapped to error (and races with the reply)": every request ends.
RequestsEnd == \A r \in Requests : req[r].pc = "open" ~> Ended(r)

\* "Returns the task queue that context should start on or an error": a request is
\* not refused for want of a queue when the flags have one.
QueueFoundIsUsed ==
  \A r \in Requests : found[r] # NoQueue => req[r].queue = found[r]

=============================================================================
