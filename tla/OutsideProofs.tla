----------------------------- MODULE OutsideProofs -----------------------------
(***************************************************************************)
(* Theorems about what is around the workflows, for every value of the     *)
(* constants: the signaler, through which they are called, the activities  *)
(* they call, and the clock of tests.                                      *)
(***************************************************************************)
EXTENDS Signaler, Activity, SimulatedClock, FiniteSetTheorems, TLAPS

-----------------------------------------------------------------------------
(* The signaler.  A request is sound if it waits for what it says it waits *)
(* for, and what it has been told was said.                                *)

Sound(r) ==
  /\ req[r].pc = "new" => req[r] = New
  /\ req[r].pc # "open" => /\ req[r].call # "sending"
                           /\ req[r].listener # "waiting"
                           /\ req[r].timer # "running"
  /\ req[r].call = "done" => applied[r] = Targets[r]
  /\ req[r].listener = "got" => sent[r] > 0
  /\ req[r].pc = "ok" => req[r].call = "done" /\ req[r].listener \in {"got", "none"}
  /\ IsUpdate(r) /\ req[r].pc \in {"open", "ok"} => req[r].listener # "none"
  /\ r \in topics => req[r].listener = "waiting"

SignalerInv == /\ TypeOK
               /\ \A r \in Requests : Sound(r)
               /\ \A m \in replies : sent[m.topic] > 0

\* What the end of a request leaves.
LEMMA CloseIs ==
  ASSUME NEW q \in Request, NEW end \in {"ok", "failed"}
  PROVE  /\ Close(q, end) \in Request
         /\ Close(q, end).pc = end
         /\ Close(q, end).call \in {q.call, "abandoned"} \ {"sending"}
         /\ Close(q, end).listener \in {q.listener, "aborted"} \ {"waiting"}
         /\ Close(q, end).timer # "running"
         /\ q.call = "done" => Close(q, end).call = "done"
         /\ q.listener # "waiting" => Close(q, end).listener = q.listener
<1> DEFINE p == Close(q, end)
<1>1. p \in Request /\ p.pc = end
  BY DEF Close, Request
<1>2. /\ p.call = IF q.call = "sending" THEN "abandoned" ELSE q.call
      /\ p.listener = IF q.listener = "waiting" THEN "aborted" ELSE q.listener
      /\ p.timer = IF q.timer = "running" THEN "stopped" ELSE q.timer
  BY DEF Close, Request
<1> HIDE DEF p
<1>3. /\ p.call \in {q.call, "abandoned"} \ {"sending"}
      /\ p.listener \in {q.listener, "aborted"} \ {"waiting"}
      /\ p.timer # "running"
      /\ q.call = "done" => p.call = "done"
      /\ q.listener # "waiting" => p.listener = q.listener
  BY <1>2
<1> QED
  BY <1>1, <1>3 DEF p

\* A request that is settled either goes on as it was or ends, and with success
\* only if Temporal has answered and, if there is a listener, so has the workflow.
LEMMA SettleIs ==
  ASSUME NEW q \in Request
  PROVE  \/ Settle(q) = Close(q, "failed")
         \/ Settle(q) = Close(q, "ok") /\ q.call = "done" /\ q.listener \in {"got", "none"}
         \/ Settle(q) = q
  BY DEF Settle, RaceWon, RaceLost

\* A request that a step does not concern stays sound.
LEMMA SoundStays ==
  ASSUME NEW r \in Requests, Sound(r), req'[r] = req[r], applied'[r] = applied[r],
         sent[r] \in Nat, sent'[r] \in Nat, sent'[r] >= sent[r], r \in topics' => r \in topics
  PROVE  Sound(r)'
  BY DEF Sound, IsUpdate

\* A request stays sound when it hears of something and is settled.
LEMMA SoundSettles ==
  ASSUME NEW r \in Requests, NEW q \in Request, q.pc = "open",
         req'[r] = Settle(q), applied'[r] = applied[r], sent'[r] = sent[r],
         q.call = "done" => applied[r] = Targets[r],
         q.listener = "got" => sent[r] > 0,
         IsUpdate(r) => q.listener # "none",
         r \in topics' => Settle(q).pc = "open" /\ q.listener = "waiting"
  PROVE  Sound(r)' /\ req'[r] \in Request
<1>1. CASE Settle(q) = Close(q, "failed")
  BY <1>1, CloseIs DEF Sound, IsUpdate
<1>2. CASE Settle(q) = Close(q, "ok") /\ q.call = "done" /\ q.listener \in {"got", "none"}
  BY <1>2, CloseIs DEF Sound, IsUpdate
<1>3. CASE Settle(q) = q
  BY <1>3 DEF Sound, IsUpdate
<1> QED
  BY <1>1, <1>2, <1>3, SettleIs

\* A request that is refused, or whose call has failed, ends sound.
LEMMA SoundFails ==
  ASSUME NEW r \in Requests, NEW q \in Request, req'[r] = Close(q, "failed"),
         applied'[r] = applied[r], sent'[r] = sent[r],
         q.call = "done" => applied[r] = Targets[r],
         q.listener = "got" => sent[r] > 0, r \notin topics'
  PROVE  Sound(r)' /\ req'[r] \in Request
  BY CloseIs DEF Sound, IsUpdate

LEMMA SignalerInit == Init => SignalerInv
<1> SUFFICES ASSUME Init PROVE SignalerInv
  OBVIOUS
<1>1. New \in Request
  BY DEF New, Request
<1>2. TypeOK
  BY <1>1, RequestsAssumption DEF Init, TypeOK
<1>3. ASSUME NEW r \in Requests PROVE Sound(r)
  BY DEF Init, Sound, New
<1> QED
  BY <1>2, <1>3 DEF Init, SignalerInv

\* The type of a request a step has changed, and of the rest.
LEMMA ReqTyped ==
  ASSUME TypeOK, NEW r \in Requests, NEW q \in Request, req' = [req EXCEPT ![r] = q]
  PROVE  /\ req' \in [Requests -> Request] /\ req'[r] = q
         /\ \A s \in Requests \ {r} : req'[s] = req[s]
  BY DEF TypeOK

\* A step on one request leaves the others sound.
LEMMA OthersStay ==
  ASSUME SignalerInv, NEW r \in Requests, NEW q \in Request, req' = [req EXCEPT ![r] = q],
         applied' = applied, sent' = sent, topics' \subseteq topics \cup {r}
  PROVE  \A s \in Requests \ {r} : Sound(s)'
<1> SUFFICES ASSUME NEW s \in Requests \ {r} PROVE Sound(s)'
  OBVIOUS
<1>1. sent[s] \in Nat
  BY RequestsAssumption DEF SignalerInv, TypeOK
<1>2. req'[s] = req[s]
  BY ReqTyped DEF SignalerInv
<1> QED
  BY <1>1, <1>2, SoundStays DEF SignalerInv

\* A step on one request that leaves it sound keeps the invariant.
LEMMA OneRequest ==
  ASSUME SignalerInv, NEW r \in Requests, NEW q \in Request, req' = [req EXCEPT ![r] = q],
         topics' \subseteq topics \cup {r}, found' \in [Requests -> Queues \cup {NoQueue}],
         UNCHANGED <<running, applied, replies, sent>>, Sound(r)'
  PROVE  SignalerInv'
<1>1. TypeOK'
  BY ReqTyped DEF SignalerInv, TypeOK
<1>2. \A s \in Requests : Sound(s)'
  BY OthersStay
<1> QED
  BY <1>1, <1>2 DEF SignalerInv

LEMMA NewRequests == New \in Request /\ New.call = "none" /\ New.listener = "none"
                                     /\ New.timer = "none"
  BY DEF New, Request

\* A request that has not been handled has no topic.
LEMMA RefuseStep ==
  ASSUME SignalerInv, NEW r \in Requests, Refuse(r)
  PROVE  SignalerInv'
<1>1. req' = [req EXCEPT ![r] = Close(New, "failed")] /\ Close(New, "failed") \in Request
  BY NewRequests, CloseIs DEF Refuse
<1>2. req'[r] = Close(New, "failed")
  BY <1>1, ReqTyped DEF SignalerInv
<1>3. r \notin topics
  BY DEF SignalerInv, Sound, Refuse
<1>4. Sound(r)'
  BY <1>2, <1>3, NewRequests, SoundFails DEF Refuse
<1> QED
  BY <1>1, <1>4, OneRequest DEF Refuse, SignalerInv, TypeOK

LEMMA SendIs ==
  ASSUME NEW r \in Requests, NEW queue \in Queues \cup {NoQueue}
  PROVE  /\ Send(r, queue) \in Request
         /\ Send(r, queue).pc = "open" /\ Send(r, queue).call = "sending"
         /\ Send(r, queue).listener = IF IsUpdate(r) THEN "waiting" ELSE "none"
  BY DEF Send, New, Request

LEMMA HandleStep ==
  ASSUME SignalerInv, NEW r \in Requests, Handle(r)
  PROVE  SignalerInv'
<1>1. r \notin topics
  BY DEF SignalerInv, Sound, Handle
<1>2. ASSUME NEW queue \in Queues \cup {NoQueue}, req' = [req EXCEPT ![r] = Send(r, queue)],
             found' \in [Requests -> Queues \cup {NoQueue}]
      PROVE  SignalerInv'
  <2>1. req'[r] = Send(r, queue) /\ Send(r, queue) \in Request
    BY <1>2, SendIs, ReqTyped DEF SignalerInv
  <2>2. Sound(r)'
    BY <1>1, <2>1, SendIs DEF Sound, Handle, IsUpdate
  <2> QED
    BY <1>2, <2>1, <2>2, OneRequest DEF Handle
<1>3. ASSUME req' = [req EXCEPT ![r] = Close(New, "failed")],
             found' \in [Requests -> Queues \cup {NoQueue}]
      PROVE  SignalerInv'
  <2>1. Close(New, "failed") \in Request
    BY NewRequests, CloseIs
  <2>2. req'[r] = Close(New, "failed")
    BY <1>3, <2>1, ReqTyped DEF SignalerInv
  <2>3. Sound(r)'
    BY <1>1, <2>2, NewRequests, SoundFails DEF Handle
  <2> QED
    BY <1>3, <2>1, <2>3, OneRequest DEF Handle
<1>4. CASE ~AsksQueue(r) /\ req' = [req EXCEPT ![r] = Send(r, Given[r])] /\ UNCHANGED found
  BY <1>2, <1>4, RequestsAssumption DEF SignalerInv, TypeOK
<1>5. ASSUME NEW queue \in Queues \cup {NoQueue}, found' = [found EXCEPT ![r] = queue],
             req' = [req EXCEPT ![r] = IF Accepts(queue) THEN Send(r, queue)
                                       ELSE Close(New, "failed")]
      PROVE  SignalerInv'
  <2>1. found' \in [Requests -> Queues \cup {NoQueue}]
    BY <1>5 DEF SignalerInv, TypeOK
  <2> QED
    BY <1>2, <1>3, <1>5, <2>1
<1> QED
  BY <1>4, <1>5 DEF Handle

\* Temporal answers, or its call fails.
LEMMA AnswerStep ==
  ASSUME SignalerInv, NEW r \in Requests, Answer(r)
  PROVE  SignalerInv'
<1> DEFINE q == [req[r] EXCEPT !.call = "done"]
<1>1. req[r] \in Request /\ Sound(r)
  BY DEF SignalerInv, TypeOK
<1>2. q \in Request /\ q.pc = req[r].pc /\ q.listener = req[r].listener /\ q.call = "done"
  BY <1>1 DEF Request
<1>3. /\ req[r].call = "sending" /\ applied[r] = Targets[r]
      /\ req' = [req EXCEPT ![r] = Settle(q)]
      /\ topics' = IF req'[r].pc = "open" THEN topics ELSE topics \ {r}
      /\ UNCHANGED <<found, running, applied, replies, sent>>
  BY DEF Answer
<1> HIDE DEF q
<1>4. Settle(q) \in Request
  BY <1>2, SettleIs, CloseIs
<1>5. req'[r] = Settle(q)
  BY <1>3, <1>4, ReqTyped DEF SignalerInv
<1>6. q.pc = "open"
  BY <1>1, <1>2, <1>3 DEF Sound
<1>7. r \in topics' => Settle(q).pc = "open" /\ q.listener = "waiting"
  BY <1>1, <1>2, <1>3, <1>5 DEF Sound
<1>8. Sound(r)'
  BY <1>1, <1>2, <1>3, <1>5, <1>6, <1>7, SoundSettles DEF Sound
<1> QED
  BY <1>3, <1>4, <1>8, OneRequest DEF SignalerInv, TypeOK

LEMMA CallFailsStep ==
  ASSUME SignalerInv, NEW r \in Requests, CallFails(r)
  PROVE  SignalerInv'
<1> DEFINE q == [req[r] EXCEPT !.call = "abandoned"]
<1>1. req[r] \in Request /\ Sound(r)
  BY DEF SignalerInv, TypeOK
<1>2. q \in Request /\ q.listener = req[r].listener /\ q.call = "abandoned"
  BY <1>1 DEF Request
<1>3. /\ req' = [req EXCEPT ![r] = Close(q, "failed")]
      /\ topics' = topics \ {r}
      /\ UNCHANGED <<found, running, applied, replies, sent>>
  BY DEF CallFails
<1> HIDE DEF q
<1>4. Close(q, "failed") \in Request
  BY <1>2, CloseIs
<1>5. req'[r] = Close(q, "failed")
  BY <1>3, <1>4, ReqTyped DEF SignalerInv
<1>6. Sound(r)'
  BY <1>1, <1>2, <1>3, <1>5, SoundFails DEF Sound
<1> QED
  BY <1>3, <1>4, <1>6, OneRequest DEF SignalerInv, TypeOK

\* The timer fires; then its request was open.
LEMMA TimeOutStep ==
  ASSUME SignalerInv, NEW r \in Requests, TimeOut(r)
  PROVE  SignalerInv'
<1> DEFINE q == [req[r] EXCEPT !.timer = "failed"]
<1>1. req[r] \in Request /\ Sound(r)
  BY DEF SignalerInv, TypeOK
<1>2. /\ q \in Request /\ q.pc = req[r].pc /\ q.listener = req[r].listener
      /\ q.call = req[r].call
  BY <1>1 DEF Request
<1>3. /\ req[r].timer = "running"
      /\ req' = [req EXCEPT ![r] = Settle(q)]
      /\ topics' = IF req'[r].pc = "open" THEN topics ELSE topics \ {r}
      /\ UNCHANGED <<found, running, applied, replies, sent>>
  BY DEF TimeOut
<1> HIDE DEF q
<1>4. Settle(q) \in Request
  BY <1>2, SettleIs, CloseIs
<1>5. req'[r] = Settle(q)
  BY <1>3, <1>4, ReqTyped DEF SignalerInv
<1>6. q.pc = "open"
  BY <1>1, <1>2, <1>3 DEF Sound
<1>7. r \in topics' => Settle(q).pc = "open" /\ q.listener = "waiting"
  BY <1>1, <1>2, <1>3, <1>5 DEF Sound
<1>8. Sound(r)'
  BY <1>1, <1>2, <1>3, <1>5, <1>6, <1>7, SoundSettles DEF Sound
<1> QED
  BY <1>3, <1>4, <1>8, OneRequest DEF SignalerInv, TypeOK

\* A step on no request: some workflow has its signal, or some reply is sent or lost.
LEMMA NoRequest ==
  ASSUME SignalerInv, TypeOK', req' = req, topics' \subseteq topics,
         \A r \in Requests : /\ applied'[r] = applied[r] \/ applied[r] # Targets[r]
                             /\ sent'[r] >= sent[r],
         \A m \in replies' : sent'[m.topic] > 0
  PROVE  SignalerInv'
<1>1. ASSUME NEW r \in Requests PROVE Sound(r)'
  <2>1. sent[r] \in Nat /\ sent'[r] \in Nat /\ Sound(r)
    BY RequestsAssumption DEF SignalerInv, TypeOK
  <2> QED
    BY <2>1 DEF Sound, IsUpdate
<1> QED
  BY <1>1 DEF SignalerInv

LEMMA ApplyStep ==
  ASSUME SignalerInv, NEW r \in Requests, NEW w \in Workflows, Apply(r, w)
  PROVE  SignalerInv'
<1>1. TypeOK'
  BY DEF SignalerInv, TypeOK, Apply
<1>2. /\ req[r].call \in {"sending", "abandoned"} /\ w \in Targets[r] \ applied[r]
      /\ applied' = [applied EXCEPT ![r] = @ \cup {w}]
      /\ UNCHANGED <<req, topics, replies, sent>>
  BY DEF Apply
<1>3. /\ \A s \in Requests : applied'[s] = applied[s] \/ applied[s] # Targets[s]
      /\ \A s \in Requests : sent'[s] >= sent[s]
  BY <1>2, RequestsAssumption DEF SignalerInv, TypeOK
<1> QED
  BY <1>1, <1>2, <1>3, NoRequest DEF SignalerInv

LEMMA FinishStep ==
  ASSUME SignalerInv, NEW w \in Workflows, Finish(w)
  PROVE  SignalerInv'
<1>1. TypeOK'
  BY DEF SignalerInv, TypeOK, Finish
<1>2. \A s \in Requests : sent'[s] >= sent[s]
  BY RequestsAssumption DEF SignalerInv, TypeOK, Finish
<1> QED
  BY <1>1, <1>2, NoRequest DEF SignalerInv, Finish

LEMMA ReplyStep ==
  ASSUME SignalerInv, NEW r \in Requests, NEW good \in BOOLEAN, Reply(r, good)
  PROVE  SignalerInv'
<1>1. sent \in [Requests -> 0..MaxReplies] /\ MaxReplies \in Nat
  BY RequestsAssumption DEF SignalerInv, TypeOK
<1>2. sent[r] < MaxReplies /\ sent' = [sent EXCEPT ![r] = sent[r] + 1]
  BY DEF Reply
<1>3. /\ sent' \in [Requests -> 0..MaxReplies] /\ sent'[r] > 0
      /\ \A s \in Requests : sent'[s] >= sent[s]
  BY <1>1, <1>2
<1>4. replies' \subseteq replies \cup {[topic |-> r, good |-> good]}
  BY DEF Reply
<1>5. replies \subseteq [topic : Requests, good : BOOLEAN]
  BY DEF SignalerInv, TypeOK
<1>6. replies' \subseteq [topic : Requests, good : BOOLEAN]
  BY <1>4, <1>5
<1>7. TypeOK'
  BY <1>3, <1>6 DEF SignalerInv, TypeOK, Reply
<1>8. ASSUME NEW m \in replies' PROVE sent'[m.topic] > 0
  <2>1. CASE m \in replies
    <3>1. m.topic \in Requests /\ sent[m.topic] > 0
      BY <1>5, <2>1 DEF SignalerInv
    <3> QED
      BY <1>1, <1>2, <1>3, <3>1
  <2>2. CASE m = [topic |-> r, good |-> good]
    BY <1>3, <2>2
  <2> QED
    BY <1>4, <2>1, <2>2
<1> QED
  BY <1>3, <1>7, <1>8, NoRequest DEF Reply

LEMMA LoseStep ==
  ASSUME SignalerInv, NEW m \in replies, Lose(m)
  PROVE  SignalerInv'
<1>1. TypeOK'
  BY DEF SignalerInv, TypeOK, Lose
<1>2. \A s \in Requests : sent'[s] >= sent[s]
  BY RequestsAssumption DEF SignalerInv, TypeOK, Lose
<1> QED
  BY <1>1, <1>2, NoRequest DEF SignalerInv, Lose

\* Only a request that listens gets a subscription.
LEMMA SubscribeStep ==
  ASSUME SignalerInv, NEW r \in Requests, Subscribe(r)
  PROVE  SignalerInv'
<1>1. req[r] \in Request /\ req' = [req EXCEPT ![r] = req[r]]
  BY DEF SignalerInv, TypeOK, Subscribe
<1>2. Sound(r)'
  BY DEF SignalerInv, Sound, Subscribe, Listening, IsUpdate
<1> QED
  BY <1>1, <1>2, OneRequest DEF Subscribe, SignalerInv, TypeOK

\* A reply is for the request of its topic, if it listens.
LEMMA DeliverStep ==
  ASSUME SignalerInv, NEW m \in replies, Deliver(m)
  PROVE  SignalerInv'
<1> DEFINE q(r) == [req[r] EXCEPT !.listener = IF m.good THEN "got" ELSE "failed"]
<1>1. req \in [Requests -> Request] /\ \A r \in Requests : Sound(r)
  BY DEF SignalerInv, TypeOK
<1>2. m.topic \in Requests /\ sent[m.topic] > 0
  BY DEF SignalerInv, TypeOK
<1>3. ASSUME NEW r \in Requests, Hears(r, m)
      PROVE  Sound(r)' /\ req'[r] \in Request
  <2>1. req[r] \in Request /\ req[r].listener = "waiting" /\ m.topic = r /\ sent[r] > 0
    BY <1>1, <1>2, <1>3 DEF Hears, Listening
  <2>2. /\ q(r) \in Request /\ q(r).pc = req[r].pc /\ q(r).call = req[r].call
        /\ q(r).listener \in {"got", "failed"}
    BY <2>1 DEF Request
  <2>3. req'[r] = Settle(q(r))
    BY <1>3 DEF Deliver, Heard
  <2>4. r \notin topics' /\ applied'[r] = applied[r] /\ sent'[r] = sent[r]
    BY <1>3 DEF Deliver
  <2> HIDE DEF q
  <2>5. q(r).pc = "open" /\ (q(r).call = "done" => applied[r] = Targets[r])
    BY <1>1, <2>1, <2>2 DEF Sound
  <2> QED
    BY <2>1, <2>2, <2>3, <2>4, <2>5, SoundSettles
<1>4. ASSUME NEW r \in Requests, ~Hears(r, m)
      PROVE  Sound(r)' /\ req'[r] \in Request
  <2>1. req'[r] = req[r] /\ applied'[r] = applied[r] /\ sent'[r] = sent[r]
        /\ (r \in topics' => r \in topics)
    BY <1>4 DEF Deliver
  <2>2. sent[r] \in Nat
    BY RequestsAssumption DEF SignalerInv, TypeOK
  <2> QED
    BY <1>1, <2>1, <2>2, SoundStays
<1>5. \A r \in Requests : Sound(r)' /\ req'[r] \in Request
  BY <1>3, <1>4
<1>6. req' \in [Requests -> Request]
  BY <1>5 DEF Deliver
<1>7. TypeOK' /\ replies' \subseteq replies /\ sent' = sent
  BY <1>6 DEF SignalerInv, TypeOK, Deliver
<1> QED
  BY <1>5, <1>7 DEF SignalerInv

LEMMA SignalerStep == SignalerInv /\ [Next]_vars => SignalerInv'
<1> SUFFICES ASSUME SignalerInv, [Next]_vars PROVE SignalerInv'
  OBVIOUS
<1>1. CASE UNCHANGED vars
  BY <1>1 DEF vars, SignalerInv, TypeOK, Sound, IsUpdate
<1>2. ASSUME NEW r \in Requests,
             \/ Refuse(r) \/ Handle(r) \/ Answer(r) \/ CallFails(r) \/ Subscribe(r)
             \/ TimeOut(r)
             \/ \E w \in Workflows : Apply(r, w)
             \/ \E good \in BOOLEAN : Reply(r, good)
      PROVE  SignalerInv'
  BY <1>2, RefuseStep, HandleStep, AnswerStep, CallFailsStep, SubscribeStep, TimeOutStep,
     ApplyStep, ReplyStep
<1>3. ASSUME NEW m \in replies, Lose(m) \/ Deliver(m) PROVE SignalerInv'
  BY <1>3, LoseStep, DeliverStep
<1>4. ASSUME NEW w \in Workflows, Finish(w) PROVE SignalerInv'
  BY <1>4, FinishStep
<1> QED
  BY <1>1, <1>2, <1>3, <1>4 DEF Next

LEMMA SignalerAlways == Spec => []SignalerInv
  BY SignalerInit, SignalerStep, PTL DEF Spec

\* Every variable of the signaler has its type (`Signaler`): whatever Temporal, the
\* broker and the timers do, and in whatever order, each request has one outcome.
THEOREM SignalerTypes == Spec => []TypeOK
<1>1. SignalerInv => TypeOK
  BY DEF SignalerInv
<1> QED
  BY <1>1, SignalerAlways, PTL

\* workflowUpdate and sendInstruction: "Success path is only reachable when a reply
\* from workflow".  A request that succeeds has reached all the workflows it is for,
\* and an update that succeeds was answered on its own topic.
THEOREM SuccessMeansAnswered == Spec => []SuccessIsAnswered
<1>1. SignalerInv => SuccessIsAnswered
  BY DEF SignalerInv, Sound, SuccessIsAnswered
<1> QED
  BY <1>1, SignalerAlways, PTL

\* The listener of workflowUpdate: however a request ends, by success, by a failure of
\* the call or by the timeout, its callback and its subscription go with it.
THEOREM RequestsLeaveNothing == Spec => []NothingLeftBehind
<1>1. SignalerInv => NothingLeftBehind
  BY DEF SignalerInv, Sound, NothingLeftBehind, Listening
<1> QED
  BY <1>1, SignalerAlways, PTL

\* What an open request may have heard so far, and that it would have ended with more.
Parts(q) ==
  /\ q.call \in {"sending", "done"}
  /\ q.listener # "none" => /\ q.listener \in {"waiting", "got", "failed"}
                            /\ q.timer \in {"running", "failed"}
Unsettled(q) ==
  q.pc = "open" => /\ Parts(q)
                   /\ ~RaceLost(q) /\ ~(RaceWon(q) /\ q.call = "done")

\* A request that has heard of something ends if that was the last it needed.
LEMMA SettleUnsettled ==
  ASSUME NEW q \in Request, Parts(q)
  PROVE  Unsettled(Settle(q))
<1>1. CASE RaceLost(q) \/ (RaceWon(q) /\ q.call = "done")
  BY <1>1, CloseIs DEF Settle, Unsettled
<1>2. CASE ~RaceLost(q) /\ ~(RaceWon(q) /\ q.call = "done")
  BY <1>2 DEF Settle, Unsettled
<1> QED
  BY <1>1, <1>2

\* A step leaves each request as it was, or begins it, ends it, or tells it one thing
\* and settles it.
LEMMA RequestsUnsettled ==
  ASSUME SignalerInv, \A r \in Requests : Unsettled(req[r]), Next
  PROVE  \A r \in Requests : Unsettled(req[r])'
<1> SUFFICES ASSUME NEW r \in Requests PROVE Unsettled(req'[r])
  BY DEF Unsettled, Parts, RaceLost, RaceWon
<1>1. req[r] \in Request /\ Sound(r) /\ Unsettled(req[r]) /\ New \in Request
  BY NewRequests DEF SignalerInv, TypeOK
<1>2. ASSUME NEW s \in Requests, NEW q \in Request, req' = [req EXCEPT ![s] = q],
             s = r => Unsettled(q)
      PROVE  Unsettled(req'[r])
  BY <1>1, <1>2, ReqTyped DEF SignalerInv
<1>3. ASSUME NEW s \in Requests, NEW q \in Request, req' = [req EXCEPT ![s] = Settle(q)],
             s = r => Parts(q)
      PROVE  Unsettled(req'[r])
  <2>1. Settle(q) \in Request
    BY SettleIs, CloseIs
  <2> QED
    BY <1>2, <1>3, <2>1, SettleUnsettled
<1>4. ASSUME NEW s \in Requests, NEW q \in Request, req' = [req EXCEPT ![s] = Close(q, "failed")]
      PROVE  Unsettled(req'[r])
  <2>1. Close(q, "failed") \in Request /\ Unsettled(Close(q, "failed"))
    BY CloseIs DEF Unsettled
  <2> QED
    BY <1>2, <1>4, <2>1
<1>5. ASSUME NEW s \in Requests, Refuse(s) \/ Handle(s) PROVE Unsettled(req'[r])
  <2>1. ASSUME NEW queue \in Queues \cup {NoQueue}, req' = [req EXCEPT ![s] = Send(s, queue)]
        PROVE  Unsettled(req'[r])
    <3>1. Send(s, queue) \in Request /\ Unsettled(Send(s, queue))
      BY DEF Send, New, Request, Unsettled, Parts, RaceLost, RaceWon
    <3> QED
      BY <1>2, <2>1, <3>1
  <2>2. Given[s] \in Queues \cup {NoQueue}
    BY RequestsAssumption
  <2> QED
    BY <1>1, <1>4, <1>5, <2>1, <2>2 DEF Refuse, Handle
<1>6. ASSUME NEW s \in Requests, Answer(s) PROVE Unsettled(req'[r])
  <2> DEFINE q == [req[s] EXCEPT !.call = "done"]
  <2>1. req[s] \in Request /\ Sound(s)
    BY DEF SignalerInv, TypeOK
  <2>2. /\ q \in Request /\ q.listener = req[s].listener /\ q.timer = req[s].timer
        /\ q.call = "done"
    BY <2>1 DEF Request
  <2>3. req[s].call = "sending" /\ req' = [req EXCEPT ![s] = Settle(q)]
    BY <1>6 DEF Answer
  <2> HIDE DEF q
  <2>4. s = r => Parts(q)
    BY <1>1, <2>2, <2>3 DEF Sound, Unsettled, Parts
  <2> QED
    BY <1>3, <2>2, <2>3, <2>4
<1>7. ASSUME NEW s \in Requests, CallFails(s) PROVE Unsettled(req'[r])
  <2> DEFINE q == [req[s] EXCEPT !.call = "abandoned"]
  <2>1. q \in Request /\ req' = [req EXCEPT ![s] = Close(q, "failed")]
    BY <1>7 DEF SignalerInv, TypeOK, CallFails, Request
  <2> QED
    BY <1>4, <2>1
<1>8. ASSUME NEW s \in Requests, TimeOut(s) PROVE Unsettled(req'[r])
  <2> DEFINE q == [req[s] EXCEPT !.timer = "failed"]
  <2>1. req[s] \in Request /\ Sound(s)
    BY DEF SignalerInv, TypeOK
  <2>2. /\ q \in Request /\ q.listener = req[s].listener /\ q.call = req[s].call
        /\ q.timer = "failed"
    BY <2>1 DEF Request
  <2>3. req[s].timer = "running" /\ req' = [req EXCEPT ![s] = Settle(q)]
    BY <1>8 DEF TimeOut
  <2> HIDE DEF q
  <2>4. s = r => Parts(q)
    BY <1>1, <2>2, <2>3 DEF Sound, Unsettled, Parts
  <2> QED
    BY <1>3, <2>2, <2>3, <2>4
<1>9. ASSUME NEW m \in replies, Deliver(m) PROVE Unsettled(req'[r])
  <2>1. CASE ~Hears(r, m)
    BY <1>1, <1>9, <2>1 DEF Deliver
  <2>2. CASE Hears(r, m)
    <3> DEFINE q == [req[r] EXCEPT !.listener = IF m.good THEN "got" ELSE "failed"]
    <3>1. req'[r] = Settle(q) /\ req[r].listener = "waiting"
      BY <1>9, <2>2 DEF Deliver, Heard, Hears, Listening
    <3>2. /\ q \in Request /\ q.listener \in {"got", "failed"} /\ q.call = req[r].call
          /\ q.timer = req[r].timer
      BY <1>1 DEF Request
    <3> HIDE DEF q
    <3>3. Parts(q)
      BY <1>1, <3>1, <3>2 DEF Sound, Unsettled, Parts
    <3> QED
      BY <3>1, <3>2, <3>3, SettleUnsettled
  <2> QED
    BY <2>1, <2>2
<1>10. CASE req' = req
  BY <1>1, <1>10
<1> QED
  BY <1>5, <1>6, <1>7, <1>8, <1>9, <1>10
     DEF Next, Apply, Subscribe, Reply, Lose, Finish

\* However the ends of its parts fall, an open request waits for something that has not
\* come: for Temporal's answer, for the workflow's reply, or, where the reply could not
\* be read, for its timer.  In particular one that has its reply waits for Temporal only.
OpenIsOwedAnEnd ==
  \A r \in Requests : req[r].pc = "open" =>
    \/ req[r].call = "sending"
    \/ req[r].listener = "waiting"
    \/ req[r].listener = "failed" /\ req[r].timer = "running"

\* raceAll and all of workflowUpdate: no order of answer, reply and timeout leaves a
\* request open that has all it needs.
THEOREM OpenRequestsWait == Spec => []OpenIsOwedAnEnd
<1> DEFINE Inv == \A r \in Requests : Unsettled(req[r])
<1>1. Init => Inv
  BY DEF Init, New, Unsettled
<1>2. SignalerInv /\ Inv /\ [Next]_vars => Inv'
  <2> SUFFICES ASSUME SignalerInv, Inv, [Next]_vars PROVE Inv'
    OBVIOUS
  <2>1. CASE UNCHANGED vars
    BY <2>1 DEF vars, Unsettled, Parts, RaceLost, RaceWon
  <2>2. CASE Next
    BY <2>2, RequestsUnsettled
  <2> QED
    BY <2>1, <2>2
<1>3. Inv => OpenIsOwedAnEnd
  BY DEF Unsettled, Parts, RaceLost, RaceWon, OpenIsOwedAnEnd
<1> HIDE DEF Inv
<1> QED
  BY <1>1, <1>2, <1>3, SignalerAlways, PTL DEF Spec

-----------------------------------------------------------------------------
(* Activities.  An attempt Temporal has heard of is over; it waits for one     *)
(* that it has not; and nothing is shown until the call is closed.             *)

IsFinal(exit) == Told(exit) /\ exit.error.final

Heeded ==
  /\ heard \cap executing = {}
  /\ call.at = "idle" => started = 0
  /\ call.at = "started" => started \notin heard
  /\ call.at # "closed" => seen = None
  /\ \A n \in heard : IsFinal(exits[n]) => call.at = "closed" /\ started = n

CallInv == CallTypeOK /\ Heeded /\ ShowsTheLastAttempt

\* What an attempt may end with.
Endings == UNION {{e, NoExit} \cup Validated(e) : e \in Exit}

LEMMA ExitsAre == Exits \subseteq Endings /\ NoExit \in Endings
<1>1. Failed(ParseError) \in Exit
  BY DEF Failed, Exit
<1>2. Exit \subseteq Endings /\ NoExit \in Endings /\ UNION {Validated(e) : e \in Exit} \subseteq Endings
  BY <1>1 DEF Endings
<1> QED
  BY <1>1, <1>2 DEF Exits

\* toApplicationFailure: an error that can be told keeps what it says of retries.
LEMMA FinalIsPassedOn ==
  ASSUME NEW exit, IsFinal(exit)
  PROVE  Thrown(exit).final /\ Thrown(exit).detail = "own"
<1>1. /\ exit.as = "fail" /\ exit.error.tagged /\ exit.error.final
      /\ exit.error.error => exit.error.json
  BY DEF IsFinal, Told
<1>2. /\ GetFailure(exit).known /\ GetFailure(exit).json
      /\ GetFailure(exit).final = exit.error.final
  BY <1>1 DEF GetFailure
<1>3. Thrown(exit) = ToApplicationFailure(GetFailure(exit))
  BY <1>1 DEF Thrown
<1>4. /\ ToApplicationFailure(GetFailure(exit)).final = GetFailure(exit).final
      /\ ToApplicationFailure(GetFailure(exit)).detail = "own"
  BY <1>2 DEF ToApplicationFailure
<1> QED
  BY <1>1, <1>2, <1>3, <1>4

\* What the workflow is told of a failure, decoded or not.
LEMMA MapErrorIs ==
  ASSUME NEW n \in Attempts \cup {0}, NEW failure
  PROVE  /\ MapError(n, failure) \in Plain
         /\ MapError(n, failure).as \in {"error", "UnknownException"}
         /\ MapError(n, failure).as = "error" => MapError(n, failure).by = n
         /\ failure.detail = "own" => MapError(n, failure).as = "error"
  BY DEF MapError, Plain

LEMMA FailsShows ==
  ASSUME NEW result \in Plain, Fails(result)
  PROVE  Inner' = result /\ seen' \in Plain \cup {None} \cup [as : {"Cause"}, of : Plain]
<1>1. CASE seen' = [as |-> "Cause", of |-> result]
  BY <1>1 DEF Inner
<1>2. CASE seen' = result
  BY <1>2 DEF Inner, Plain
<1> QED
  BY <1>1, <1>2 DEF Fails, OnFailure

LEMMA SucceedsShows ==
  ASSUME NEW n \in Attempts, Succeeds(n)
  PROVE  /\ Inner'.as \in {"value", "BadOutput"} /\ Inner'.by = n
         /\ seen' \in Plain
<1>1. seen' = [as |-> "value", by |-> n] \/ seen' = [as |-> "BadOutput", by |-> n]
  BY DEF Succeeds, OnSuccess
<1> QED
  BY <1>1 DEF Inner, Plain

LEMMA NothingShown ==
  ASSUME seen = None
  PROVE  Inner = None /\ Inner.as \notin {"error", "value", "BadOutput"}
  BY DEF Inner, None

LEMMA CallStart == CallInit => CallInv
<1> SUFFICES ASSUME CallInit PROVE CallInv
  OBVIOUS
<1>1. CallTypeOK
  <2>1. exits \in [Attempts -> Endings]
    BY ExitsAre DEF CallInit
  <2> QED
    BY <2>1, ActivityAssumption DEF CallInit, CallTypeOK, Endings, Vias
<1>2. Heeded
  BY DEF CallInit, Heeded
<1>3. ShowsTheLastAttempt
  BY NothingShown DEF CallInit, ShowsTheLastAttempt
<1> QED
  BY <1>1, <1>2, <1>3 DEF CallInv

\* What the type invariant says of the parts the steps disturb.
LEMMA CallTypes ==
  ASSUME CallTypeOK
  PROVE  /\ started \in 0..MaximumAttempts /\ MaximumAttempts \in Nat \ {0}
         /\ executing \subseteq 1..started /\ heard \subseteq 1..started
         /\ 1..started \subseteq Attempts
         /\ exits \in [Attempts -> Endings]
  BY ActivityAssumption DEF CallTypeOK, Endings, Attempts

\* The call is made, or given up on its input before an attempt was.
LEMMA CallMade ==
  ASSUME CallInv, NEW via \in Vias, NEW fits \in BOOLEAN, Call(via, fits)
  PROVE  CallInv'
<1>1. /\ call.at = "idle" /\ started = 0 /\ heard = {} /\ seen = None
      /\ UNCHANGED <<checked, started, executing, exits, heard>>
  BY CallTypes DEF CallInv, Heeded, Call
<1>2. CASE /\ call' = [at |-> "closed", via |-> via, fits |-> fits]
           /\ seen' = OnFailure([as |-> "BadInput", by |-> 0])
  <2> DEFINE result == [as |-> "BadInput", by |-> 0]
  <2>1. result \in Plain
    BY DEF Plain
  <2>2. seen' = [as |-> "Cause", of |-> result]
    BY <1>2 DEF OnFailure
  <2>3. Inner' = result
    BY <2>2 DEF Inner
  <2>4. CallTypeOK'
    BY <1>1, <1>2, <2>1, <2>2 DEF CallInv, CallTypeOK
  <2>5. Heeded'
    BY <1>1, <1>2 DEF CallInv, Heeded
  <2>6. ShowsTheLastAttempt'
    BY <1>1, <2>3 DEF ShowsTheLastAttempt
  <2> QED
    BY <2>4, <2>5, <2>6 DEF CallInv
<1>3. CASE /\ call' = [at |-> "scheduled", via |-> via, fits |-> fits]
           /\ UNCHANGED seen
  <2>1. CallTypeOK'
    BY <1>1, <1>3 DEF CallInv, CallTypeOK
  <2>2. Heeded'
    BY <1>1, <1>3 DEF CallInv, Heeded
  <2>3. ShowsTheLastAttempt'
    BY <1>1, <1>3, NothingShown DEF ShowsTheLastAttempt, Inner, None
  <2> QED
    BY <2>1, <2>2, <2>3 DEF CallInv
<1> QED
  BY <1>2, <1>3 DEF Call

\* While the call is open nothing is shown, and while nothing is shown and it stays
\* open nothing has to be.
LEMMA StaysOpen ==
  ASSUME CallInv, call'.at # "closed", UNCHANGED seen, call.at # "closed"
  PROVE  ShowsTheLastAttempt'
<1>1. seen' = None
  BY DEF CallInv, Heeded
<1>2. Inner' = None
  BY <1>1 DEF Inner, None
<1> QED
  BY <1>2 DEF ShowsTheLastAttempt, None

\* An attempt is started only if those heard of may be tried again.
LEMMA AttemptStarts ==
  ASSUME CallInv, Start
  PROVE  CallInv'
<1>1. /\ call.at = "scheduled" /\ started < MaximumAttempts /\ started' = started + 1
      /\ executing' = executing \cup {started'} /\ call' = [call EXCEPT !.at = "started"]
      /\ UNCHANGED <<checked, exits, heard, seen>>
  BY DEF Start, MayRetry
<1>2. call' \in [at : {"started"}, via : Vias, fits : BOOLEAN]
  BY <1>1 DEF CallInv, CallTypeOK
<1>3. started' \in 0..MaximumAttempts /\ 1..started \subseteq 1..started' /\ started' \in 1..started'
      /\ started' \notin 1..started
  BY <1>1, CallTypes DEF CallInv
<1>4. CallTypeOK'
  BY <1>1, <1>2, <1>3 DEF CallInv, CallTypeOK
<1>5. Heeded'
  BY <1>1, <1>2, <1>3, CallTypes DEF CallInv, Heeded
<1>6. ShowsTheLastAttempt'
  BY <1>1, <1>2, StaysOpen
<1> QED
  BY <1>4, <1>5, <1>6 DEF CallInv

LEMMA AttemptGivenUp ==
  ASSUME CallInv, GivesUp
  PROVE  CallInv'
<1>1. /\ call.at = "started" /\ call' = [call EXCEPT !.at = "scheduled"]
      /\ UNCHANGED <<checked, started, executing, exits, heard, seen>>
  BY DEF GivesUp
<1>2. call' \in [at : {"scheduled"}, via : Vias, fits : BOOLEAN]
  BY <1>1 DEF CallInv, CallTypeOK
<1>3. CallTypeOK'
  BY <1>1, <1>2 DEF CallInv, CallTypeOK
<1>4. Heeded'
  BY <1>1, <1>2 DEF CallInv, Heeded
<1>5. ShowsTheLastAttempt'
  BY <1>1, <1>2, StaysOpen
<1> QED
  BY <1>3, <1>4, <1>5 DEF CallInv

LEMMA AttemptCrashes ==
  ASSUME CallInv, NEW n \in Attempts, Crash(n)
  PROVE  CallInv'
<1>1. executing' \subseteq executing /\ UNCHANGED <<checked, call, started, exits, heard, seen>>
  BY DEF Crash
<1>2. CallTypeOK'
  BY <1>1 DEF CallInv, CallTypeOK
<1>3. Heeded'
  BY <1>1 DEF CallInv, Heeded
<1>4. ShowsTheLastAttempt'
  BY <1>1 DEF CallInv, ShowsTheLastAttempt, Inner
<1> QED
  BY <1>2, <1>3, <1>4 DEF CallInv

\* The timeout closes the call with what is no error of an attempt.  One that was final
\* would have closed it.
LEMMA CallTimesOut ==
  ASSUME CallInv, TimesOut
  PROVE  CallInv'
<1> DEFINE result == MapError(started, [detail |-> "none", final |-> TRUE])
<1>1. /\ call.at \in {"scheduled", "started"} /\ call' = [call EXCEPT !.at = "closed"]
      /\ Fails(result) /\ UNCHANGED <<checked, started, executing, exits, heard>>
  BY DEF TimesOut
<1>2. result = [as |-> "UnknownException", by |-> 0]
  BY DEF MapError
<1>3. result \in Plain
  BY <1>2 DEF Plain
<1> HIDE DEF result
<1>4. Inner' = result /\ seen' \in Plain \cup {None} \cup [as : {"Cause"}, of : Plain]
  BY <1>1, <1>3, FailsShows
<1>5. call' \in [at : {"closed"}, via : Vias, fits : BOOLEAN]
  BY <1>1 DEF CallInv, CallTypeOK
<1>6. CallTypeOK'
  BY <1>1, <1>4, <1>5 DEF CallInv, CallTypeOK
<1>7. Heeded'
  BY <1>1, <1>5 DEF CallInv, Heeded
<1>8. \A n \in heard : ~IsFinal(exits[n])
  BY <1>1 DEF CallInv, Heeded
<1>9. ShowsTheLastAttempt'
  BY <1>1, <1>2, <1>4, <1>8 DEF ShowsTheLastAttempt, IsFinal, Told
<1> QED
  BY <1>6, <1>7, <1>9 DEF CallInv

\* What the end of an attempt leaves alone.
LEMMA AttemptOver ==
  ASSUME CallInv, NEW n \in Attempts, NEW exit \in Exits, Ends(n, exit)
  PROVE  /\ n \in executing /\ n \in 1..started /\ n \notin heard
         /\ executing' = executing \ {n} /\ checked' = checked /\ started' = started
         /\ exits' \in [Attempts -> Endings] /\ exits'[n] = exit
         /\ \A k \in heard : exits'[k] = exits[k]
<1>1. /\ n \in executing /\ executing' = executing \ {n} /\ exits' = [exits EXCEPT ![n] = exit]
      /\ UNCHANGED <<checked, started>>
  BY DEF Ends
<1>2. n \in 1..started /\ n \notin heard
  BY <1>1, CallTypes DEF CallInv, Heeded
<1>3. exits' \in [Attempts -> Endings] /\ exits'[n] = exit
  BY <1>1, CallTypes, ExitsAre DEF CallInv
<1>4. \A k \in heard : exits'[k] = exits[k]
  BY <1>1, <1>2, CallTypes DEF CallInv
<1> QED
  BY <1>1, <1>2, <1>3, <1>4

\* An attempt whose answer comes too late changes nothing Temporal or the workflow sees.
LEMMA LateEnd ==
  ASSUME CallInv, NEW n \in Attempts, NEW exit \in Exits, Ends(n, exit),
         ~(call.at = "started" /\ n = started)
  PROVE  CallInv'
<1>1. UNCHANGED <<call, heard, seen>>
  BY DEF Ends
<1>2. CallTypeOK'
  BY <1>1, AttemptOver DEF CallInv, CallTypeOK, Endings
<1>3. Heeded'
  BY <1>1, AttemptOver DEF CallInv, Heeded
<1>4. Inner' = Inner
  BY <1>1 DEF Inner
<1>5. started \in heard => exits'[started] = exits[started]
  BY AttemptOver
<1>6. ShowsTheLastAttempt'
  BY <1>1, <1>4, <1>5, AttemptOver DEF CallInv, ShowsTheLastAttempt
<1> QED
  BY <1>2, <1>3, <1>6 DEF CallInv

\* The call closes with the attempt Temporal waits for: no other was final.
LEMMA ClosingEnd ==
  ASSUME CallInv, NEW n \in Attempts, NEW exit \in Exits, Ends(n, exit),
         call.at = "started", n = started, heard' = heard \cup {n},
         call' = [call EXCEPT !.at = "closed"],
         seen' \in Plain \cup {None} \cup [as : {"Cause"}, of : Plain],
         ShowsTheLastAttempt'
  PROVE  CallInv'
<1>1. call' \in [at : {"closed"}, via : Vias, fits : BOOLEAN]
  BY DEF CallInv, CallTypeOK
<1>2. CallTypeOK'
  BY <1>1, AttemptOver DEF CallInv, CallTypeOK, Endings
<1>3. \A k \in heard : ~IsFinal(exits[k])
  BY DEF CallInv, Heeded
<1>4. \A k \in heard' : IsFinal(exits'[k]) => started' = k
  <2>1. \A k \in heard : ~IsFinal(exits'[k])
    BY <1>3, AttemptOver DEF IsFinal, Told
  <2> QED
    BY <2>1, AttemptOver
<1>5. Heeded'
  BY <1>1, <1>4, AttemptOver DEF CallInv, Heeded, IsFinal, Told
<1> QED
  BY <1>2, <1>5 DEF CallInv

LEMMA GoodEnd ==
  ASSUME CallInv, NEW n \in Attempts, NEW exit \in Exits, Ends(n, exit),
         call.at = "started", n = started, exit.as = "value"
  PROVE  CallInv'
<1>1. heard' = heard \cup {n} /\ call' = [call EXCEPT !.at = "closed"] /\ Succeeds(n)
  BY DEF Ends
<1>2. Inner'.as \in {"value", "BadOutput"} /\ Inner'.by = n /\ seen' \in Plain
  BY <1>1, SucceedsShows
<1>3. exits'[started'].as = "value" /\ started' = n
  BY AttemptOver
<1>4. ShowsTheLastAttempt'
  BY <1>1, <1>2, <1>3 DEF ShowsTheLastAttempt, Told
<1> QED
  BY <1>1, <1>2, <1>4, ClosingEnd

LEMMA FailedEnd ==
  ASSUME CallInv, NEW n \in Attempts, NEW exit \in Exits, Ends(n, exit),
         call.at = "started", n = started, exit.as # "value", heard' = heard \cup {n},
         call' = [call EXCEPT !.at = "closed"], Fails(MapError(n, Thrown(exit)))
  PROVE  CallInv'
<1> DEFINE result == MapError(n, Thrown(exit))
<1>1. /\ result \in Plain /\ result.as \in {"error", "UnknownException"}
      /\ result.as = "error" => result.by = n
      /\ Thrown(exit).detail = "own" => result.as = "error"
  BY MapErrorIs
<1> HIDE DEF result
<1>2. Inner' = result /\ seen' \in Plain \cup {None} \cup [as : {"Cause"}, of : Plain]
  BY <1>1, FailsShows DEF result
<1>3. exits'[started'] = exit /\ started' = n
  BY AttemptOver
<1>4. IsFinal(exit) => result.as = "error"
  BY <1>1, FinalIsPassedOn
<1>5. ShowsTheLastAttempt'
  BY <1>1, <1>2, <1>3, <1>4 DEF ShowsTheLastAttempt, IsFinal, Told
<1> QED
  BY <1>2, <1>5, ClosingEnd

\* An attempt that failed for good is not retried: its failure says it is final.
LEMMA RetriedEnd ==
  ASSUME CallInv, NEW n \in Attempts, NEW exit \in Exits, Ends(n, exit),
         call.at = "started", n = started, heard' = heard \cup {n},
         ~Thrown(exit).final, call' = [call EXCEPT !.at = "scheduled"], UNCHANGED seen
  PROVE  CallInv'
<1>1. call' \in [at : {"scheduled"}, via : Vias, fits : BOOLEAN]
  BY DEF CallInv, CallTypeOK
<1>2. CallTypeOK'
  BY <1>1, AttemptOver DEF CallInv, CallTypeOK, Endings
<1>3. \A k \in heard' : ~IsFinal(exits'[k])
  <2>1. \A k \in heard : ~IsFinal(exits'[k])
    BY AttemptOver DEF CallInv, Heeded, IsFinal, Told
  <2>2. ~IsFinal(exit)
    BY FinalIsPassedOn
  <2> QED
    BY <2>1, <2>2, AttemptOver
<1>4. Heeded'
  BY <1>1, <1>3, AttemptOver DEF CallInv, Heeded, IsFinal, Told
<1>5. ShowsTheLastAttempt'
  BY <1>1, StaysOpen
<1> QED
  BY <1>2, <1>4, <1>5 DEF CallInv

LEMMA AttemptEnds ==
  ASSUME CallInv, NEW n \in Attempts, NEW exit \in Exits, Ends(n, exit)
  PROVE  CallInv'
<1>1. CASE ~(call.at = "started" /\ n = started)
  BY <1>1, LateEnd
<1>2. CASE (call.at = "started" /\ n = started) /\ exit.as = "value"
  BY <1>2, GoodEnd
<1>3. CASE (call.at = "started" /\ n = started) /\ exit.as # "value"
  <2>1. /\ heard' = heard \cup {n}
        /\ \/ /\ ~Thrown(exit).final /\ call' = [call EXCEPT !.at = "scheduled"]
              /\ UNCHANGED seen
           \/ /\ call' = [call EXCEPT !.at = "closed"]
              /\ Fails(MapError(n, Thrown(exit)))
    BY <1>3 DEF Ends
  <2> QED
    BY <1>3, <2>1, RetriedEnd, FailedEnd
<1> QED
  BY <1>1, <1>2, <1>3

LEMMA CallAlways == CallSpec => []CallInv
<1>1. CallInv /\ [CallNext]_callVars => CallInv'
  <2> SUFFICES ASSUME CallInv, [CallNext]_callVars PROVE CallInv'
    OBVIOUS
  <2>1. CASE UNCHANGED callVars
    BY <2>1 DEF callVars, CallInv, CallTypeOK, Heeded, ShowsTheLastAttempt, Inner
  <2>2. ASSUME NEW via \in Vias, NEW fits \in BOOLEAN, Call(via, fits) PROVE CallInv'
    BY <2>2, CallMade
  <2>3. ASSUME NEW n \in Attempts, Crash(n) \/ \E exit \in Exits : Ends(n, exit)
        PROVE  CallInv'
    BY <2>3, AttemptCrashes, AttemptEnds
  <2> QED
    BY <2>1, <2>2, <2>3, AttemptStarts, AttemptGivenUp, CallTimesOut DEF CallNext
<1> QED
  BY <1>1, CallStart, PTL DEF CallSpec

\* Every variable of a call has its type (`Activity`): however attempts, timeouts and
\* late answers interleave, the workflow is shown a value, an error or a Cause.
THEOREM CallTypeCorrect == CallSpec => []CallTypeOK
<1>1. CallInv => CallTypeOK
  BY DEF CallInv
<1> QED
  BY <1>1, CallAlways, PTL

\* nonRetryable through toApplicationFailure: an error that is not to be retried, once
\* heard of, ends the call, for any set of errors and any number of attempts.
THEOREM FinalIsNotRetried == CallSpec => []FinalIsFinal
<1>1. CallInv => FinalIsFinal
  BY DEF CallInv, Heeded, FinalIsFinal, IsFinal
<1> QED
  BY <1>1, CallAlways, PTL

\* toInvokeActivity and addGroupDecoder: the workflow is shown the end of the last
\* attempt, never that of one Temporal had given up on.
THEOREM LastAttemptIsShown == CallSpec => []ShowsTheLastAttempt
<1>1. CallInv => ShowsTheLastAttempt
  BY DEF CallInv
<1> QED
  BY <1>1, CallAlways, PTL

-----------------------------------------------------------------------------
(* The clock of tests.  First the copy a flush goes through: it has each timer *)
(* that is set, once, in the order of their ends.                              *)

\* A timer's end is a time.
LEMMA TimerIs ==
  ASSUME NEW t \in Timer
  PROVE  /\ End(t) \in Nat /\ t.id \in Nat /\ t.start \in Nat /\ t.timeout \in Nat
         /\ End(t) = t.start + t.timeout /\ t.id \in 0..MaxTimers
<1>1. t.id \in 0..MaxTimers /\ t.start \in 0..MaxTime /\ t.timeout \in Timeouts
  BY DEF Timer
<1>2. t.timeout \in Nat
  BY <1>1, ClockAssumption
<1>3. t.start \in Nat /\ t.id \in Nat
  BY <1>1
<1> QED
  BY <1>1, <1>2, <1>3 DEF End

\* Timers of different ids are in one order or the other.
LEMMA BeforeOrders ==
  ASSUME NEW T \in SUBSET Timer, \A s, t \in T : s.id = t.id => s = t
  PROVE  /\ \A t \in T : ~Before(t, t)
         /\ \A s, t \in T : s = t \/ Before(s, t) \/ Before(t, s)
         /\ \A s, t, u \in T : Before(s, t) /\ Before(t, u) => Before(s, u)
<1>1. \A t \in T : End(t) \in Nat /\ t.id \in Nat
  BY TimerIs
<1>2. \A t \in T : ~Before(t, t)
  BY <1>1 DEF Before
<1>3. \A s, t \in T : s = t \/ Before(s, t) \/ Before(t, s)
  BY <1>1 DEF Before
<1>4. \A s, t, u \in T : Before(s, t) /\ Before(t, u) => Before(s, u)
  BY <1>1 DEF Before
<1> QED
  BY <1>2, <1>3, <1>4

LEMMA SortedIs ==
  ASSUME NEW T \in SUBSET Timer, IsFiniteSet(T), \A s, t \in T : s.id = t.id => s = t
  PROVE  /\ Sorted(T) \in Seq(T)
         /\ \A t \in T : \E i \in 1..Len(Sorted(T)) : Sorted(T)[i] = t
         /\ \A i, j \in 1..Len(Sorted(T)) : i < j => Before(Sorted(T)[i], Sorted(T)[j])
<1> DEFINE n == Cardinality(T)
           below(t) == {s \in T : Before(s, t)}
           place == [t \in T |-> 1 + Cardinality(below(t))]
           sorted == [i \in 1..n |-> CHOOSE t \in T : 1 + Cardinality(below(t)) = i]
<1>1. n \in Nat
  BY FS_CardinalityType
<1>2. ASSUME NEW t \in T
      PROVE  /\ IsFiniteSet(below(t)) /\ Cardinality(below(t)) \in Nat
             /\ Cardinality(below(t)) <= n - 1
  <2>1. IsFiniteSet(T \ {t}) /\ Cardinality(T \ {t}) = n - 1
    BY FS_RemoveElement
  <2>2. below(t) \subseteq T \ {t}
    BY BeforeOrders
  <2>3. IsFiniteSet(below(t)) /\ Cardinality(below(t)) <= Cardinality(T \ {t})
    BY <2>1, <2>2, FS_Subset
  <2> QED
    BY <2>1, <2>3, FS_CardinalityType
<1>3. ASSUME NEW t \in T, NEW u \in T, Before(t, u)
      PROVE  place[t] < place[u]
  <2>1. t \notin below(t) /\ below(t) \cup {t} \subseteq below(u)
    BY <1>3, BeforeOrders
  <2>2. Cardinality(below(t) \cup {t}) = Cardinality(below(t)) + 1
    BY <1>2, <2>1, FS_AddElement
  <2>3. Cardinality(below(t) \cup {t}) <= Cardinality(below(u))
    BY <1>2, <2>1, FS_Subset
  <2> HIDE DEF below
  <2> QED
    BY <1>2, <2>2, <2>3
<1>4. place \in [T -> 1..n]
  <2> HIDE DEF below, n
  <2> QED
    BY <1>1, <1>2
<1>p. \A t \in T : place[t] = 1 + Cardinality(below(t))
  OBVIOUS
<1> HIDE DEF place, n
<1>5. \A t, u \in T : place[t] = place[u] => t = u
  <2>1. \A t, u \in T : place[t] < place[u] => place[t] # place[u]
    BY <1>1, <1>4
  <2> QED
    BY <1>3, <2>1, BeforeOrders
<1>6. place \in Injection(T, 1..n)
  BY <1>4, <1>5 DEF Injection, IsInjective
<1>7. place \in Surjection(T, 1..n)
  <2>1. IsFiniteSet(1..n) /\ Cardinality(1..n) = n
    BY <1>1, FS_Interval
  <2> QED
    BY <1>6, <2>1, FS_Injection DEF n
<1>8. \A i \in 1..n : sorted[i] \in T /\ place[sorted[i]] = i
  <2>1. ASSUME NEW i \in 1..n PROVE \E t \in T : 1 + Cardinality(below(t)) = i
    BY <1>7, <1>p DEF Surjection
  <2> HIDE DEF below
  <2>2. \A i \in 1..n : sorted[i] \in T /\ 1 + Cardinality(below(sorted[i])) = i
    BY <2>1
  <2> QED
    BY <2>2, <1>p DEF below
<1>9. sorted \in [1..n -> T]
  BY <1>8
<1> HIDE DEF sorted
<1>10. sorted \in Seq(T) /\ Len(sorted) = n
  BY <1>1, <1>9
<1>11. \A t \in T : \E i \in 1..n : sorted[i] = t
  BY <1>4, <1>5, <1>8
<1>12. ASSUME NEW i \in 1..n, NEW j \in 1..n, i < j
       PROVE  Before(sorted[i], sorted[j])
  <2>1. ~Before(sorted[j], sorted[i]) /\ sorted[i] # sorted[j]
    BY <1>1, <1>3, <1>8, <1>12
  <2> QED
    BY <1>8, <2>1, BeforeOrders
<1>13. Sorted(T) = sorted
  BY DEF Sorted, sorted, n
<1> QED
  BY <1>10, <1>11, <1>12, <1>13

\* The elements of a sequence, and sequences of timers in the order of their ends.
Elements(s) == {s[i] : i \in 1..Len(s)}
InOrder(s) == \A i, j \in 1..Len(s) : i < j => End(s[i]) <= End(s[j]) /\ s[i].id # s[j].id

LEMMA ElementsAppend ==
  ASSUME NEW s \in Seq(Timer), NEW t \in Timer
  PROVE  Append(s, t) \in Seq(Timer) /\ Elements(Append(s, t)) = Elements(s) \cup {t}
<1> DEFINE a == Append(s, t)
<1>1. /\ a \in Seq(Timer) /\ Len(a) = Len(s) + 1 /\ a[Len(s) + 1] = t
      /\ \A i \in 1..Len(s) : a[i] = s[i]
  OBVIOUS
<1>2. 1..Len(a) = 1..Len(s) \cup {Len(s) + 1}
  BY <1>1
<1> HIDE DEF a
<1>3. \A i \in 1..Len(s) : a[i] = s[i] /\ i \in 1..Len(a)
  BY <1>1, <1>2
<1>4. Len(s) + 1 \in 1..Len(a)
  BY <1>2
<1>5. Elements(s) \cup {t} \subseteq Elements(a)
  BY <1>1, <1>3, <1>4 DEF Elements
<1>6. Elements(a) \subseteq Elements(s) \cup {t}
  BY <1>1, <1>2 DEF Elements
<1> QED
  BY <1>1, <1>5, <1>6 DEF a

LEMMA ElementsTail ==
  ASSUME NEW s \in Seq(Timer), s # <<>>
  PROVE  /\ Head(s) \in Timer /\ Tail(s) \in Seq(Timer)
         /\ Elements(s) = {Head(s)} \cup Elements(Tail(s))
         /\ InOrder(s) => /\ InOrder(Tail(s))
                          /\ \A t \in Elements(Tail(s)) : /\ End(Head(s)) <= End(t)
                                                          /\ Head(s).id # t.id
<1> DEFINE h == Head(s)
           r == Tail(s)
<1>1. /\ Len(s) \in Nat \ {0} /\ h = s[1] /\ r \in Seq(Timer) /\ Len(r) = Len(s) - 1
      /\ \A i \in 1..Len(r) : r[i] = s[i + 1]
  OBVIOUS
<1>2. h \in Timer
  BY <1>1
<1> HIDE DEF h, r
<1>3. \A i \in 1..Len(r) : i + 1 \in 1..Len(s) /\ r[i] = s[i + 1] /\ 1 < i + 1
  BY <1>1
<1>4. \A i \in 1..Len(s) : i = 1 \/ (i - 1 \in 1..Len(r) /\ s[i] = r[i - 1])
  BY <1>1
<1>5. 1 \in 1..Len(s)
  BY <1>1
<1>6. Elements(s) \subseteq {h} \cup Elements(r)
  BY <1>1, <1>4 DEF Elements
<1>7. {h} \cup Elements(r) \subseteq Elements(s)
  BY <1>1, <1>3, <1>5 DEF Elements
<1>8. ASSUME InOrder(s)
      PROVE  InOrder(r) /\ \A t \in Elements(r) : End(h) <= End(t) /\ h.id # t.id
  <2>1. ASSUME NEW t \in Elements(r) PROVE End(h) <= End(t) /\ h.id # t.id
    <3>1. PICK i \in 1..Len(r) : t = r[i]
      BY DEF Elements
    <3>2. i + 1 \in 1..Len(s) /\ t = s[i + 1] /\ 1 < i + 1
      BY <1>3, <3>1
    <3> QED
      BY <1>1, <1>5, <1>8, <3>2 DEF InOrder
  <2>2. ASSUME NEW i \in 1..Len(r), NEW j \in 1..Len(r), i < j
        PROVE  End(r[i]) <= End(r[j]) /\ r[i].id # r[j].id
    <3>1. i + 1 \in 1..Len(s) /\ j + 1 \in 1..Len(s) /\ i + 1 < j + 1
      BY <1>3, <2>2
    <3>2. r[i] = s[i + 1] /\ r[j] = s[j + 1]
      BY <1>3
    <3> QED
      BY <1>8, <3>1, <3>2 DEF InOrder
  <2>3. InOrder(r)
    BY <2>2 DEF InOrder
  <2> QED
    BY <2>1, <2>3
<1> QED
  BY <1>1, <1>2, <1>6, <1>7, <1>8 DEF h, r

LEMMA InOrderAppend ==
  ASSUME NEW s \in Seq(Timer), NEW t \in Timer, InOrder(s),
         \A u \in Elements(s) : End(u) <= End(t) /\ u.id # t.id
  PROVE  InOrder(Append(s, t))
<1> DEFINE a == Append(s, t)
<1>1. /\ Len(a) = Len(s) + 1 /\ a[Len(s) + 1] = t /\ Len(s) \in Nat
      /\ \A i \in 1..Len(s) : a[i] = s[i]
  OBVIOUS
<1> HIDE DEF a
<1>2. ASSUME NEW i \in 1..Len(a), NEW j \in 1..Len(a), i < j
      PROVE  End(a[i]) <= End(a[j]) /\ a[i].id # a[j].id
  <2>1. i \in 1..Len(s) /\ a[i] = s[i]
    BY <1>1, <1>2
  <2>2. CASE j \in 1..Len(s)
    BY <1>1, <1>2, <2>1, <2>2 DEF InOrder
  <2>3. CASE j = Len(s) + 1
    BY <1>1, <2>1, <2>3 DEF Elements
  <2> QED
    BY <1>1, <2>2, <2>3
<1>3. InOrder(a)
  BY <1>2 DEF InOrder
<1> QED
  BY <1>3 DEF a

\* Timers sorted are in order.
LEMMA SortedInOrder ==
  ASSUME NEW T \in SUBSET Timer, IsFiniteSet(T), \A s, t \in T : s.id = t.id => s = t
  PROVE  Sorted(T) \in Seq(Timer) /\ Elements(Sorted(T)) = T /\ InOrder(Sorted(T))
<1> DEFINE c == Sorted(T)
<1>1. /\ c \in Seq(T) /\ \A t \in T : \E i \in 1..Len(c) : c[i] = t
      /\ \A i, j \in 1..Len(c) : i < j => Before(c[i], c[j])
  BY SortedIs
<1> HIDE DEF c
<1>2. c \in Seq(Timer) /\ \A i \in 1..Len(c) : c[i] \in T
  BY <1>1
<1>3. Elements(c) = T
  BY <1>1, <1>2 DEF Elements
<1>4. \A i \in 1..Len(c) : End(c[i]) \in Nat
  BY <1>2, TimerIs
<1>5. ASSUME NEW i \in 1..Len(c), NEW j \in 1..Len(c), i < j
      PROVE  End(c[i]) <= End(c[j])
  <2>1. End(c[i]) < End(c[j]) \/ End(c[i]) = End(c[j])
    BY <1>1, <1>5 DEF Before
  <2> QED
    BY <1>4, <2>1
<1>6. \A i, j \in 1..Len(c) : i < j => c[i].id # c[j].id
  <2>1. \A i, j \in 1..Len(c) : Before(c[i], c[j]) => c[i] # c[j]
    BY <1>2, BeforeOrders
  <2> QED
    BY <1>1, <1>2, <2>1
<1>7. InOrder(c)
  BY <1>5, <1>6 DEF InOrder
<1> QED
  BY <1>2, <1>3, <1>7 DEF c

\* Flushes on the stack.
LEMMA FlushPushed ==
  ASSUME NEW f \in Flush, flushes \in Seq(Flush), flushes' = Append(flushes, f)
  PROVE  flushes' \in Seq(Flush) /\ Depth' = Depth + 1 /\ Top' = f /\ Depth \in Nat
<1>1. Depth \in Nat
  BY DEF Depth
<1>2. /\ Append(flushes, f) \in Seq(Flush) /\ Len(Append(flushes, f)) = Len(flushes) + 1
      /\ Append(flushes, f)[Len(flushes) + 1] = f
  OBVIOUS
<1> QED
  BY <1>1, <1>2 DEF Depth, Top

LEMMA FlushReplaced ==
  ASSUME NEW f \in Flush, flushes \in Seq(Flush), Depth > 0, Replace(f)
  PROVE  flushes' \in Seq(Flush) /\ Depth' = Depth /\ Top' = f
<1>1. Depth \in 1..Len(flushes) /\ Len(flushes) \in Nat
  BY DEF Depth
<1>2. flushes' \in Seq(Flush) /\ Len(flushes') = Len(flushes) /\ flushes'[Depth] = f
  BY <1>1 DEF Replace
<1> QED
  BY <1>1, <1>2 DEF Depth, Top

LEMMA FlushPopped ==
  ASSUME flushes \in Seq(Flush), Depth > 0, flushes' = SubSeq(flushes, 1, Depth - 1)
  PROVE  flushes' \in Seq(Flush) /\ Depth' = Depth - 1
<1>1. Len(flushes) \in Nat /\ Len(flushes) > 0
  BY DEF Depth
<1>2. /\ SubSeq(flushes, 1, Len(flushes) - 1) \in Seq(Flush)
      /\ Len(SubSeq(flushes, 1, Len(flushes) - 1)) = Len(flushes) - 1
  <2> DEFINE k == Len(flushes) - 1
  <2>1. k \in Nat /\ 1 \in Int /\ k \in Int /\ \A i \in 1..k : flushes[i] \in Flush
    BY <1>1
  <2> HIDE DEF k
  <2>2. /\ SubSeq(flushes, 1, k) \in Seq(Flush)
        /\ Len(SubSeq(flushes, 1, k)) = IF 1 <= k THEN k - 1 + 1 ELSE 0
    BY <2>1
  <2>3. (IF 1 <= k THEN k - 1 + 1 ELSE 0) = k
    BY <2>1
  <2> QED
    BY <2>2, <2>3 DEF k
<1> QED
  BY <1>2 DEF Depth

LEMMA TopIs ==
  ASSUME flushes \in Seq(Flush), Depth > 0
  PROVE  Top \in Flush /\ Top.rest \in Seq(Timer) /\ Top.calling \in BOOLEAN
<1>1. Top \in Flush
  BY DEF Depth, Top
<1> QED
  BY <1>1 DEF Flush

\* The timers that are set.
LEMMA SetIs ==
  ASSUME ClockTypeOK
  PROVE  /\ Set \subseteq Timer /\ IsFiniteSet(Set)
         /\ \A s, t \in Set : s.id = t.id => s = t
         /\ \A t \in Set : t.id \in DOMAIN timeouts /\ timeouts[t.id] = t /\ t.id < _id
         /\ \A id \in DOMAIN timeouts : timeouts[id] \in Set /\ timeouts[id].id = id
<1>1. \A id \in DOMAIN timeouts : timeouts[id] \in Timer /\ timeouts[id].id = id
  BY DEF ClockTypeOK
<1>2. \A t \in Set : t.id \in DOMAIN timeouts /\ timeouts[t.id] = t
  BY <1>1 DEF Set
<1>3. _id \in Nat /\ DOMAIN timeouts \subseteq 0..(_id - 1)
  BY ClockAssumption DEF ClockTypeOK
<1>4. \A t \in Set : t.id < _id
  BY <1>2, <1>3
<1>5. IsFiniteSet(DOMAIN timeouts)
  <2>1. IsFiniteSet(0..(_id - 1))
    BY <1>3, FS_Interval
  <2> QED
    BY <1>3, <2>1, FS_Subset
<1>6. IsFiniteSet(Set)
  <2> DEFINE f == [id \in DOMAIN timeouts |-> timeouts[id]]
  <2>1. f \in Surjection(DOMAIN timeouts, Set)
    BY DEF Surjection, Set
  <2> QED
    BY <1>5, <2>1, FS_Surjection
<1>7. Set \subseteq Timer
  BY <1>1 DEF Set
<1>8. \A id \in DOMAIN timeouts : timeouts[id] \in Set
  BY DEF Set
<1> QED
  BY <1>1, <1>2, <1>4, <1>6, <1>7, <1>8

\* What is left of them when some are cleared.
LEMMA SetWithout ==
  ASSUME ClockTypeOK, NEW X, DOMAIN timeouts' = DOMAIN timeouts \ X,
         \A id \in DOMAIN timeouts' : timeouts'[id] = timeouts[id]
  PROVE  Set' = {t \in Set : t.id \notin X}
<1>1. Set' = {timeouts'[id] : id \in DOMAIN timeouts'}
  BY DEF Set
<1>2. ASSUME NEW t \in Set, t.id \notin X PROVE t \in Set'
  BY <1>1, <1>2, SetIs
<1>3. ASSUME NEW t \in Set' PROVE t \in Set /\ t.id \notin X
  BY <1>1, <1>3, SetIs
<1> QED
  BY <1>2, <1>3

-----------------------------------------------------------------------------
(* The clock's invariant: a timer that is overdue is one the innermost flush   *)
(* has still to go through, unless one was given up; and while no callback has moved the clock, what    *)
(* is still to fire ends no earlier than what has.                             *)

\* Timers of the innermost flush's copy that it has not come to.
Ahead  == IF Depth > 0 THEN Elements(Top.rest) ELSE {}
Coming == Set \cup Ahead
\* One to fire at once, set while a flush is under way, is left for the next.
Behind(t) == End(t) < _now \/ (End(t) = _now /\ t.timeout # 0)

NoneLost == ~thrown => \A t \in Set : Behind(t) => t \in Ahead

Past(u) == /\ u.id < _id /\ u.id \notin cleared /\ End(u) <= _now
           /\ \A t \in Coming : End(u) <= End(t) /\ u.id # t.id

Orderly ==
  /\ Depth <= 1 /\ (thrown => Depth = 0)
  /\ \A t \in Coming : t.id < _id /\ t.id \notin cleared
  /\ \A id \in cleared : id < _id
  /\ \A u \in Elements(fired) : Past(u)
  /\ InOrder(fired)
  /\ Depth > 0 => InOrder(Top.rest)

ClockInv == ClockTypeOK /\ NoneLost /\ (~nested => Orderly)

LEMMA ClockStart == ClockInit => ClockInv
<1> SUFFICES ASSUME ClockInit PROVE ClockInv
  OBVIOUS
<1>1. DOMAIN timeouts = {} /\ Set = {} /\ Depth = 0 /\ Elements(fired) = {} /\ Ahead = {}
  BY DEF ClockInit, Set, Depth, Elements, Ahead
<1>2. ClockTypeOK
  <2>1. flushes \in Seq(Flush) /\ fired \in Seq(Timer)
    BY DEF ClockInit
  <2>2. _now \in 0..MaxTime /\ _id \in 0..MaxTimers
    BY ClockAssumption DEF ClockInit
  <2> QED
    BY <1>1, <2>1, <2>2 DEF ClockInit, ClockTypeOK
<1>3. InOrder(fired)
  BY DEF ClockInit, InOrder
<1> QED
  BY <1>1, <1>2, <1>3 DEF ClockInv, NoneLost, Orderly, Coming, ClockInit

\* The parts of the type invariant the steps need.
LEMMA ClockTypes ==
  ASSUME ClockTypeOK
  PROVE  /\ _now \in Nat /\ _id \in Nat /\ _id \in 0..MaxTimers /\ _now \in 0..MaxTime
         /\ flushes \in Seq(Flush) /\ Depth \in Nat
         /\ fired \in Seq(Timer) /\ cleared \subseteq 0..MaxTimers
         /\ Coming \subseteq Timer /\ Elements(fired) \subseteq Timer
<1>1. /\ _now \in Nat /\ _id \in Nat /\ _id \in 0..MaxTimers /\ _now \in 0..MaxTime
      /\ flushes \in Seq(Flush) /\ fired \in Seq(Timer) /\ cleared \subseteq 0..MaxTimers
  BY ClockAssumption DEF ClockTypeOK
<1>2. Depth \in Nat
  BY <1>1 DEF Depth
<1>3. \A s \in Seq(Timer) : Elements(s) \subseteq Timer
  BY DEF Elements
<1>4. Ahead \subseteq Timer
  BY <1>1, <1>3, TopIs DEF Ahead
<1> QED
  BY <1>1, <1>2, <1>3, <1>4, SetIs DEF Coming

\* A timer set now ends no earlier than the time it is.
LEMMA TimerSet ==
  ASSUME ClockInv, NEW timeout \in Timeouts, SetTimeout(timeout)
  PROVE  ClockInv'
<1> DEFINE new == [id |-> _id, start |-> _now, timeout |-> timeout]
<1>1. /\ _id < MaxTimers /\ _id' = _id + 1
      /\ timeouts' = [id \in DOMAIN timeouts \cup {_id} |->
                        IF id = _id THEN new ELSE timeouts[id]]
      /\ UNCHANGED <<_now, flushes, fired, cleared, nested, thrown>>
  BY DEF SetTimeout
<1>2. new \in Timer /\ new.id = _id /\ new.start = _now /\ new.timeout \in Nat
      /\ new.timeout = timeout
  BY ClockTypes, ClockAssumption DEF ClockInv, Timer
<1> HIDE DEF new
<1>3. End(new) \in Nat /\ End(new) >= _now /\ ~Behind(new)
  BY <1>2, ClockTypes DEF ClockInv, End, Behind
<1>4. _id \notin DOMAIN timeouts /\ _id' \in 0..MaxTimers
      /\ DOMAIN timeouts' \subseteq 0..(_id' - 1)
  <2>1. DOMAIN timeouts \subseteq 0..(_id - 1) /\ _id \in 0..MaxTimers /\ _id \in Nat
    BY ClockTypes DEF ClockInv, ClockTypeOK
  <2>2. DOMAIN timeouts' = DOMAIN timeouts \cup {_id}
    BY <1>1
  <2>3. _id' \in 0..MaxTimers
    BY <1>1, <2>1, ClockAssumption
  <2> QED
    BY <1>1, <2>1, <2>2, <2>3
<1>5. Set' = Set \cup {new}
  <2>1. Set' = {timeouts'[id] : id \in DOMAIN timeouts'}
    BY DEF Set
  <2>2. timeouts'[_id] = new /\ _id \in DOMAIN timeouts'
    BY <1>1
  <2>3. \A id \in DOMAIN timeouts : id \in DOMAIN timeouts' /\ timeouts'[id] = timeouts[id]
    BY <1>1, <1>4
  <2>4. \A id \in DOMAIN timeouts' : id = _id \/ id \in DOMAIN timeouts
    BY <1>1
  <2>5. Set \cup {new} \subseteq Set'
    BY <2>1, <2>2, <2>3 DEF Set
  <2>6. \A id \in DOMAIN timeouts' : timeouts'[id] \in Set \cup {new}
    BY <2>2, <2>3, <2>4 DEF Set
  <2> QED
    BY <2>1, <2>5, <2>6
<1>6. ClockTypeOK'
  BY <1>1, <1>2, <1>4 DEF ClockInv, ClockTypeOK
<1>7. Ahead' = Ahead /\ Coming' = Coming \cup {new}
  BY <1>1, <1>5 DEF Coming, Ahead, Depth, Top
<1>8. NoneLost'
  BY <1>1, <1>3, <1>5, <1>7 DEF ClockInv, NoneLost, Behind
<1>9. ASSUME ~nested PROVE Orderly'
  <2>1. Orderly
    BY <1>9 DEF ClockInv
  <2>2. /\ \A t \in Coming : t.id < _id' /\ t.id \notin cleared'
        /\ \A id \in cleared' : id < _id'
    <3>1. \A t \in Coming : t.id \in Nat
      BY ClockTypes, TimerIs DEF ClockInv
    <3>2. \A id \in cleared : id \in Nat
      BY ClockTypes DEF ClockInv
    <3> QED
      BY <1>1, <2>1, <3>1, <3>2, ClockTypes DEF ClockInv, Orderly
  <2>3. new.id < _id' /\ new.id \notin cleared'
    BY <1>1, <1>2, <2>1, ClockTypes DEF ClockInv, Orderly
  <2>4. ASSUME NEW u \in Elements(fired) PROVE Past(u)'
    <3>1. u.id \in Nat /\ End(u) \in Nat
      BY ClockTypes, TimerIs DEF ClockInv
    <3>2. Past(u)
      BY <2>1 DEF Orderly
    <3>3. u.id < _id' /\ u.id # new.id /\ End(u) <= End(new)
      BY <1>1, <1>2, <1>3, <3>1, <3>2, ClockTypes DEF ClockInv, Past
    <3> QED
      BY <1>1, <1>7, <3>2, <3>3 DEF Past
  <2> QED
    BY <1>1, <1>7, <2>1, <2>2, <2>3, <2>4 DEF Orderly, Depth, Top
<1> QED
  BY <1>1, <1>6, <1>8, <1>9 DEF ClockInv

\* Timers cleared by the test are gone for good; those a callback clears may still
\* be ahead.
LEMMA TimersCleared ==
  ASSUME ClockInv, NEW X \in SUBSET DOMAIN timeouts,
         DOMAIN timeouts' = DOMAIN timeouts \ X,
         \A id \in DOMAIN timeouts' : timeouts'[id] = timeouts[id],
         cleared' = IF Depth = 0 THEN cleared \cup X ELSE cleared,
         UNCHANGED <<_now, _id, flushes, fired, nested, thrown>>
  PROVE  ClockInv'
<1>1. Set' = {t \in Set : t.id \notin X}
  BY SetWithout DEF ClockInv
<1>2. X \subseteq 0..MaxTimers /\ \A id \in X : id < _id /\ timeouts[id] \in Set
                                              /\ timeouts[id].id = id
  BY SetIs, ClockAssumption DEF ClockInv, ClockTypeOK
<1>3. ClockTypeOK'
  BY <1>2 DEF ClockInv, ClockTypeOK
<1>4. Ahead' = Ahead /\ Coming' \subseteq Coming /\ Depth' = Depth /\ Top' = Top
  BY <1>1 DEF Coming, Ahead, Depth, Top
<1>5. NoneLost'
  BY <1>1, <1>4 DEF ClockInv, NoneLost, Behind
<1>6. ASSUME ~nested PROVE Orderly'
  <2>1. Orderly
    BY <1>6 DEF ClockInv
  <2>2. \A t \in Coming' : t.id \notin cleared'
    <3>1. CASE Depth = 0
      BY <1>1, <1>4, <2>1, <3>1 DEF Orderly, Coming, Ahead
    <3>2. CASE Depth # 0
      BY <1>4, <2>1, <3>2 DEF Orderly
    <3> QED
      BY <3>1, <3>2
  <2>3. \A id \in cleared' : id < _id
    BY <1>2, <2>1 DEF Orderly
  <2>4. ASSUME NEW u \in Elements(fired) PROVE Past(u)'
    <3>1. Past(u)
      BY <2>1 DEF Orderly
    <3>2. \A id \in X : u.id # id
      BY <1>2, <3>1 DEF Past, Coming
    <3> QED
      BY <1>4, <3>1, <3>2 DEF Past
  <2> QED
    BY <1>4, <2>1, <2>2, <2>3, <2>4 DEF Orderly
<1> QED
  BY <1>3, <1>5, <1>6 DEF ClockInv

LEMMA OneCleared ==
  ASSUME ClockInv, NEW id \in DOMAIN timeouts, ClearTimeout(id)
  PROVE  ClockInv'
<1>1. timeouts' = [i \in DOMAIN timeouts \ {id} |-> timeouts[i]]
  BY DEF ClearTimeout
<1>2. DOMAIN timeouts' = DOMAIN timeouts \ {id}
      /\ \A i \in DOMAIN timeouts' : timeouts'[i] = timeouts[i]
  BY <1>1
<1>3. /\ cleared' = IF Depth = 0 THEN cleared \cup {id} ELSE cleared
      /\ UNCHANGED <<_now, _id, flushes, fired, nested, thrown>>
  BY DEF ClearTimeout
<1>4. {id} \in SUBSET DOMAIN timeouts
  OBVIOUS
<1> QED
  BY <1>2, <1>3, <1>4, TimersCleared

LEMMA AllCleared ==
  ASSUME ClockInv, ClearAllTimers
  PROVE  ClockInv'
<1>1. /\ timeouts' = <<>>
      /\ cleared' = IF Depth = 0 THEN cleared \cup DOMAIN timeouts ELSE cleared
      /\ UNCHANGED <<_now, _id, flushes, fired, nested, thrown>>
  BY DEF ClearAllTimers
<1>2. /\ DOMAIN timeouts' = DOMAIN timeouts \ DOMAIN timeouts
      /\ \A id \in DOMAIN timeouts' : timeouts'[id] = timeouts[id]
  BY <1>1
<1> QED
  BY <1>1, <1>2, TimersCleared

\* set and increment: all timers there are come into the new flush's copy.
LEMMA ClockMoved ==
  ASSUME ClockInv, NEW time \in 0..MaxTime, MoveTo(time)
  PROVE  ClockInv'
<1> DEFINE f == [rest |-> Sorted(Set), calling |-> FALSE]
<1>1. /\ _now <= time /\ _now' = time /\ flushes' = Append(flushes, f)
      /\ nested' = (nested \/ Depth > 0) /\ thrown' = (thrown /\ Depth > 0)
      /\ UNCHANGED <<_id, timeouts, fired, cleared>>
  BY DEF MoveTo
<1>2. Sorted(Set) \in Seq(Timer) /\ Elements(Sorted(Set)) = Set /\ InOrder(Sorted(Set))
  BY SetIs, SortedInOrder DEF ClockInv
<1>3. f \in Flush /\ f.rest = Sorted(Set)
  BY <1>2 DEF Flush
<1> HIDE DEF f
<1>4. flushes' \in Seq(Flush) /\ Depth' = Depth + 1 /\ Top' = f /\ Depth \in Nat
  BY <1>1, <1>3, FlushPushed, ClockTypes DEF ClockInv
<1>5. Set' = Set
  BY <1>1 DEF Set
<1>6. Ahead' = Set /\ Coming' = Set
  BY <1>2, <1>3, <1>4, <1>5 DEF Ahead, Coming
<1>7. ClockTypeOK'
  BY <1>1, <1>4 DEF ClockInv, ClockTypeOK
<1>8. NoneLost'
  BY <1>5, <1>6 DEF NoneLost
<1>9. ASSUME ~nested' PROVE Orderly'
  <2>1. Orderly /\ Depth = 0
    <3>1. ~nested /\ ~(Depth > 0)
      BY <1>1, <1>9, Zenon
    <3>2. Depth = 0
      BY <1>4, <3>1
    <3> QED
      BY <3>1, <3>2 DEF ClockInv
  <2>2. ASSUME NEW u \in Elements(fired) PROVE Past(u)'
    <3>1. End(u) \in Nat /\ Past(u)
      BY <2>1, ClockTypes, TimerIs DEF ClockInv, Orderly
    <3>2. End(u) <= _now'
      BY <1>1, <3>1, ClockTypes DEF ClockInv, Past
    <3> QED
      BY <1>1, <1>6, <3>1, <3>2 DEF Past, Coming
  <2>3. ~thrown' /\ Depth' <= 1
    <3>1. ~(Depth > 0) /\ Depth' <= 1
      BY <1>4, <2>1
    <3>2. ~thrown'
      BY <1>1, <3>1, Zenon
    <3> QED
      BY <3>1, <3>2
  <2>4. Depth' > 0 => InOrder(Top'.rest)
    BY <1>2, <1>3, <1>4
  <2>5. /\ \A t \in Coming' : t.id < _id /\ t.id \notin cleared
        /\ \A id \in cleared : id < _id
    BY <1>6, <2>1 DEF Orderly, Coming
  <2>6. /\ InOrder(fired)
        /\ \A u \in Elements(fired') : Past(u)'
    BY <1>1, <2>1, <2>2 DEF Orderly
  <2>7. /\ \A t \in Coming' : t.id < _id' /\ t.id \notin cleared'
        /\ \A id \in cleared' : id < _id'
        /\ InOrder(fired')
    BY <1>1, <2>5, <2>6
  <2> QED
    BY <2>3, <2>4, <2>6, <2>7 DEF Orderly
<1> QED
  BY <1>7, <1>8, <1>9 DEF ClockInv

\* A flush under way has none running that it called.
LEMMA FlushGoesOn ==
  ASSUME ClockInv, ~Running
  PROVE  Depth > 0 /\ Top \in Flush /\ Top.rest \in Seq(Timer) /\ Ahead = Elements(Top.rest)
  BY TopIs, ClockTypes DEF ClockInv, Running, Ahead

\* The timer a flush comes to is due: it fires, and is gone.  What else there is ends
\* no earlier, be it ahead, passed over or set by a callback.
LEMMA TimerFires ==
  ASSUME ClockInv, ~Running, Top.rest # <<>>, NEW t, t = Head(Top.rest), Due(t),
         timeouts' = [i \in DOMAIN timeouts \ {t.id} |-> timeouts[i]],
         fired' = Append(fired, t),
         Replace([rest |-> Tail(Top.rest), calling |-> TRUE]),
         UNCHANGED <<_now, _id, cleared, nested, thrown>>
  PROVE  ClockInv'
<1> DEFINE f == [rest |-> Tail(Top.rest), calling |-> TRUE]
<1>1. /\ t \in Timer /\ Tail(Top.rest) \in Seq(Timer)
      /\ Elements(Top.rest) = {t} \cup Elements(Tail(Top.rest))
      /\ InOrder(Top.rest) => /\ InOrder(Tail(Top.rest))
                              /\ \A u \in Elements(Tail(Top.rest)) : End(t) <= End(u)
                                                                     /\ t.id # u.id
  BY FlushGoesOn, ElementsTail
<1>2. f \in Flush /\ f.rest = Tail(Top.rest)
  BY <1>1 DEF Flush
<1> HIDE DEF f
<1>3. flushes' \in Seq(Flush) /\ Depth' = Depth /\ Top' = f /\ Depth > 0 /\ Depth \in Nat
  BY <1>2, FlushGoesOn, FlushReplaced, ClockTypes DEF ClockInv, f
<1>4. Set' = {u \in Set : u.id \notin {t.id}}
  <2>1. /\ DOMAIN timeouts' = DOMAIN timeouts \ {t.id}
        /\ \A i \in DOMAIN timeouts' : timeouts'[i] = timeouts[i]
    OBVIOUS
  <2> QED
    BY <2>1, SetWithout DEF ClockInv
<1>5. Ahead = {t} \cup Ahead' /\ Ahead' = Elements(Tail(Top.rest))
  BY <1>1, <1>2, <1>3, FlushGoesOn DEF Ahead
<1>6. End(t) \in Nat /\ End(t) <= _now /\ _now \in Nat
  <2>1. /\ End(t) = t.start + t.timeout /\ t.start \in Nat /\ t.timeout \in Nat /\ _now \in Nat
        /\ End(t) \in Nat
    BY <1>1, TimerIs, ClockTypes DEF ClockInv
  <2>2. _now - t.start >= t.timeout
    BY DEF Due
  <2> QED
    BY <2>1, <2>2
<1>7. fired' \in Seq(Timer) /\ Elements(fired') = Elements(fired) \cup {t}
  BY <1>1, ElementsAppend, ClockTypes DEF ClockInv
<1>8. ClockTypeOK'
  BY <1>3, <1>7 DEF ClockInv, ClockTypeOK
<1>9. NoneLost'
  BY <1>4, <1>5 DEF ClockInv, NoneLost, Behind
<1>10. ASSUME ~nested PROVE Orderly'
  <2>1. Orderly /\ InOrder(Top.rest)
    BY <1>3, <1>10 DEF ClockInv, Orderly
  <2>2. ASSUME NEW u \in Coming' PROVE End(t) <= End(u) /\ t.id # u.id
    <3>1. CASE u \in Ahead'
      BY <1>1, <1>5, <2>1, <3>1
    <3>2. CASE u \in Set' /\ u \notin Ahead'
      <4>1. u \in Set /\ u.id # t.id
        BY <1>4, <3>2
      <4>2. ~Behind(u)
        <5>1. ~thrown
          BY <1>3, <2>1 DEF Orderly
        <5> QED
          BY <1>5, <3>2, <4>1, <5>1 DEF ClockInv, NoneLost
      <4>3. End(u) \in Nat
        BY <4>1, SetIs, TimerIs DEF ClockInv
      <4> QED
        BY <1>6, <4>1, <4>2, <4>3 DEF Behind
    <3> QED
      BY <3>1, <3>2 DEF Coming
  <2>3. Coming' \subseteq Coming /\ t \in Coming
    BY <1>4, <1>5 DEF Coming
  <2>4. Past(t)'
    BY <1>6, <2>1, <2>2, <2>3 DEF Past, Orderly
  <2>5. ASSUME NEW u \in Elements(fired) PROVE Past(u)'
    BY <2>1, <2>3 DEF Past, Orderly
  <2>6. InOrder(fired')
    <3>1. \A u \in Elements(fired) : End(u) <= End(t) /\ u.id # t.id
      BY <2>1, <2>3 DEF Past, Orderly
    <3> QED
      BY <1>1, <2>1, <3>1, InOrderAppend, ClockTypes DEF ClockInv, Orderly
  <2> QED
    BY <1>1, <1>2, <1>3, <1>7, <2>1, <2>3, <2>4, <2>5, <2>6 DEF Orderly
<1> QED
  BY <1>8, <1>9, <1>10 DEF ClockInv

\* A step that changes nothing but the innermost flush, and passes over none that is
\* overdue.
LEMMA FlushStep ==
  ASSUME ClockInv, Depth > 0, NEW f \in Flush, Replace(f),
         UNCHANGED <<_now, _id, timeouts, fired, cleared, nested, thrown>>,
         Elements(f.rest) \subseteq Elements(Top.rest),
         \A t \in Elements(Top.rest) \ Elements(f.rest) : ~Behind(t),
         InOrder(Top.rest) => InOrder(f.rest)
  PROVE  ClockInv'
<1>1. flushes' \in Seq(Flush) /\ Depth' = Depth /\ Top' = f
  BY FlushReplaced, ClockTypes DEF ClockInv
<1>2. Set' = Set
  BY DEF Set
<1>3. Ahead = Elements(Top.rest) /\ Ahead' = Elements(f.rest) /\ Coming' \subseteq Coming
  BY <1>1, <1>2 DEF Ahead, Coming
<1>4. ClockTypeOK'
  BY <1>1 DEF ClockInv, ClockTypeOK
<1>5. NoneLost'
  BY <1>2, <1>3 DEF ClockInv, NoneLost, Behind
<1>6. ASSUME Orderly PROVE Orderly'
  BY <1>1, <1>3, <1>6 DEF Orderly, Past
<1> QED
  BY <1>4, <1>5, <1>6 DEF ClockInv

LEMMA TimerPassedOver ==
  ASSUME ClockInv, ~Running, Top.rest # <<>>, ~Due(Head(Top.rest)),
         Replace([rest |-> Tail(Top.rest), calling |-> FALSE]),
         UNCHANGED <<_now, _id, timeouts, fired, cleared, nested, thrown>>
  PROVE  ClockInv'
<1> DEFINE f == [rest |-> Tail(Top.rest), calling |-> FALSE]
           t == Head(Top.rest)
<1>1. /\ t \in Timer /\ Tail(Top.rest) \in Seq(Timer)
      /\ Elements(Top.rest) = {t} \cup Elements(Tail(Top.rest))
      /\ InOrder(Top.rest) => InOrder(Tail(Top.rest))
  BY FlushGoesOn, ElementsTail
<1>2. f \in Flush /\ f.rest = Tail(Top.rest)
  BY <1>1 DEF Flush
<1>3. ~Behind(t)
  <2> HIDE DEF t
  <2>1. /\ End(t) = t.start + t.timeout /\ t.start \in Nat /\ t.timeout \in Nat /\ _now \in Nat
    BY <1>1, TimerIs, ClockTypes DEF ClockInv
  <2>2. ~(_now - t.start >= t.timeout)
    BY DEF Due, t
  <2> QED
    BY <2>1, <2>2 DEF Behind
<1> HIDE DEF f
<1>4. Replace(f)
  BY DEF f
<1> HIDE DEF t
<1> QED
  BY <1>1, <1>2, <1>3, <1>4, FlushGoesOn, FlushStep

LEMMA CallbackReturns ==
  ASSUME ClockInv, CallbackEnds
  PROVE  ClockInv'
<1> DEFINE f == [Top EXCEPT !.calling = FALSE]
<1>1. /\ Depth > 0 /\ Replace(f)
      /\ UNCHANGED <<_now, _id, timeouts, fired, cleared, nested, thrown>>
  BY DEF CallbackEnds
<1>2. Top \in Flush
  BY <1>1, TopIs, ClockTypes DEF ClockInv
<1>3. f \in Flush /\ f.rest = Top.rest
  BY <1>2 DEF Flush
<1> HIDE DEF f
<1> QED
  BY <1>1, <1>3, FlushStep

\* A flush that has gone through its copy leaves none that is overdue, to whoever moved
\* the clock.
LEMMA FlushReturns ==
  ASSUME ClockInv, FlushEnds
  PROVE  ClockInv'
<1>1. /\ ~Running /\ Top.rest = <<>> /\ flushes' = SubSeq(flushes, 1, Depth - 1)
      /\ UNCHANGED <<_now, _id, timeouts, fired, cleared, nested, thrown>>
  BY DEF FlushEnds
<1>2. Depth > 0 /\ Depth \in Nat /\ Ahead = {}
  BY <1>1, FlushGoesOn, ClockTypes DEF ClockInv, Elements
<1>3. flushes' \in Seq(Flush) /\ Depth' = Depth - 1
  BY <1>1, <1>2, FlushPopped, ClockTypes DEF ClockInv
<1>4. Set' = Set
  BY <1>1 DEF Set
<1>5. ClockTypeOK'
  BY <1>1, <1>3 DEF ClockInv, ClockTypeOK
<1>6. NoneLost'
  BY <1>1, <1>2, <1>4 DEF ClockInv, NoneLost, Behind
<1>7. ASSUME Orderly PROVE Orderly'
  <2>1. Depth' = 0
    BY <1>2, <1>3, <1>7 DEF Orderly
  <2>2. Coming' \subseteq Coming
    BY <1>4, <2>1 DEF Coming, Ahead
  <2> QED
    BY <1>1, <1>7, <2>1, <2>2 DEF Orderly, Past
<1> QED
  BY <1>1, <1>5, <1>6, <1>7 DEF ClockInv

\* One that is given up leaves some, and the next takes them up.
LEMMA FlushGivenUp ==
  ASSUME ClockInv, CallbackThrows
  PROVE  ClockInv'
<1>1. /\ Depth > 0 /\ flushes' = SubSeq(flushes, 1, Depth - 1) /\ thrown' = TRUE
      /\ UNCHANGED <<_now, _id, timeouts, fired, cleared, nested>>
  BY DEF CallbackThrows
<1>2. Depth \in Nat
  BY ClockTypes DEF ClockInv
<1>3. flushes' \in Seq(Flush) /\ Depth' = Depth - 1
  BY <1>1, <1>2, FlushPopped, ClockTypes DEF ClockInv
<1>4. Set' = Set
  BY <1>1 DEF Set
<1>5. ClockTypeOK'
  BY <1>1, <1>3 DEF ClockInv, ClockTypeOK
<1>6. NoneLost'
  BY <1>1 DEF NoneLost
<1>7. ASSUME Orderly PROVE Orderly'
  <2>1. Depth' = 0
    BY <1>1, <1>2, <1>3, <1>7 DEF Orderly
  <2>2. Coming' \subseteq Coming
    BY <1>4, <2>1 DEF Coming, Ahead
  <2> QED
    BY <1>1, <1>7, <2>1, <2>2 DEF Orderly, Past
<1> QED
  BY <1>1, <1>5, <1>6, <1>7 DEF ClockInv

LEMMA ClockAlways == ClockSpec => []ClockInv
<1>1. ClockInv /\ [ClockNext]_clockVars => ClockInv'
  <2> SUFFICES ASSUME ClockInv, [ClockNext]_clockVars PROVE ClockInv'
    OBVIOUS
  <2>1. CASE UNCHANGED clockVars
    BY <2>1 DEF clockVars, ClockInv, ClockTypeOK, NoneLost, Behind, Orderly, Past, Coming,
                Ahead, Set, Depth, Top
  <2>2. CASE \E timeout \in Timeouts : SetTimeout(timeout)
    BY <2>2, TimerSet
  <2>3. CASE \E id \in DOMAIN timeouts : ClearTimeout(id)
    BY <2>3, OneCleared
  <2>4. CASE \E time \in 0..MaxTime : MoveTo(time)
    BY <2>4, ClockMoved
  <2>5. CASE Visit
    BY <2>5, TimerFires, TimerPassedOver DEF Visit
  <2> QED
    BY <2>1, <2>2, <2>3, <2>4, <2>5, AllCleared, CallbackReturns, FlushGivenUp, FlushReturns
       DEF ClockNext
<1> QED
  BY <1>1, ClockStart, PTL DEF ClockSpec

\* Every variable of the simulated clock has its type (`SimulatedClock`), whatever
\* callbacks do.
THEOREM ClockTypeCorrect == ClockSpec => []ClockTypeOK
<1>1. ClockInv => ClockTypeOK
  BY DEF ClockInv
<1> QED
  BY <1>1, ClockAlways, PTL

\* set, increment and flushTimeouts: when they have returned to the test no timer is
\* overdue, for any delays, any callbacks and any depth of flushes in flushes, if no
\* callback has thrown since the test moved the clock.
THEOREM NothingLeftOverdue == ClockSpec => []NothingOverdue
<1>1. ClockInv => NothingOverdue
  <2> SUFFICES ASSUME ClockInv, Depth = 0, ~thrown, NEW id \in DOMAIN timeouts
               PROVE  _now < End(timeouts[id]) \/ timeouts[id].timeout = 0
    BY DEF NothingOverdue
  <2>1. timeouts[id] \in Set /\ timeouts[id] \in Timer
    BY SetIs DEF ClockInv
  <2>2. ~Behind(timeouts[id])
    BY <2>1 DEF ClockInv, NoneLost, Ahead
  <2>3. End(timeouts[id]) \in Nat /\ _now \in Nat
    BY <2>1, TimerIs, ClockTypes DEF ClockInv
  <2> QED
    BY <2>2, <2>3 DEF Behind
<1> QED
  BY <1>1, ClockAlways, PTL

\* flushTimeouts and its comparator: unless a callback moves the clock, timers fire in
\* the order of their ends, once, not before their end and not after the test has
\* cleared them.
THEOREM TimersFireInOrder == ClockSpec => []FiresInOrderOnce
<1>1. ClockInv => FiresInOrderOnce
  <2> SUFFICES ASSUME ClockInv, ~nested
               PROVE  /\ InOrder(fired)
                      /\ \A i \in 1..Len(fired) : End(fired[i]) <= _now
                                                  /\ fired[i].id \notin cleared
    <3>1. DOMAIN fired = 1..Len(fired)
      BY DEF ClockInv, ClockTypeOK
    <3> QED
      BY <3>1 DEF FiresInOrderOnce, InOrder
  <2>1. Orderly
    BY DEF ClockInv
  <2>2. \A i \in 1..Len(fired) : fired[i] \in Elements(fired)
    BY DEF Elements
  <2> QED
    BY <2>1, <2>2 DEF Orderly, Past
<1> QED
  BY <1>1, ClockAlways, PTL

=============================================================================
