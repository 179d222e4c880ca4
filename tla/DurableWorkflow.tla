---------------------------- MODULE DurableWorkflow ----------------------------
(***************************************************************************)
(* One durable workflow made by makeWorkflow: an XState machine that lives *)
(* in a Temporal workflow, receives signals, and moves to another version  *)
(* of its code by continuing as new on that version's task queue.          *)
(*                                                                         *)
(* A workflow is a chain of runs.  The variable run is everything the code *)
(* keeps for the current one.  The Temporal service is external: it keeps  *)
(* the signals it accepted (inbox), hands them to the code in workflow     *)
(* tasks, and refuses a task that closes the run while signals it has not  *)
(* seen are waiting (the task is then replayed with them).  Inside a task  *)
(* the signals are handled one after the other without giving way to any   *)
(* promise; the machine's own events (a finished actor, an elapsed         *)
(* `after`) follow, and last the continuations of handleMigrate's sleep.   *)
(***************************************************************************)
EXTENDS Naturals, Sequences

CONSTANTS
  Queues,        \* task queues; a queue is served by one version of the code
  States,        \* state values of the machine, all versions together
  Events,        \* application signals
  Undecodable,   \* application signals whose payload the decoder refuses
  Nodes,         \* state nodes
  Config,        \* Config[s]: the nodes active in state s
  NoMigrate,     \* nodes tagged diachronic.v1.no-migrate
  Invoking,      \* nodes that invoke an actor
  CanInterrupt,  \* nodes tagged diachronic.v1.can-interrupt
  Machine,       \* Machine[q][s][e]: where version q goes from s on signal e
  Internal,      \* Internal[q][s]: where its own event leads (s itself: none)
  Final,         \* states in which the machine is done
  Receive,       \* Receive[q][s]: migration function of version q on state s
  Receivable,    \* Receivable[q]: the states it takes, of which q can make one of its own
  InitialState,
  FirstQueue,
  MaxSignals     \* bound: signals a client sends

NoQueue == "no queue"

ASSUME QueuesAssumption  == FirstQueue \in Queues /\ NoQueue \notin Queues
ASSUME StatesAssumption  == /\ InitialState \in States \ Final
                            /\ Final \subseteq States
ASSUME MachineAssumption ==
  /\ Machine  \in [Queues -> [States -> [Events -> States]]]
  /\ Internal \in [Queues -> [States -> States]]
  /\ Receive  \in [Queues -> [States -> States]]
  /\ Receivable \in [Queues -> SUBSET States]
ASSUME ConfigAssumption  == Config \in [States -> SUBSET Nodes]
ASSUME BoundsAssumption  == MaxSignals \in Nat

VARIABLES
  status,  \* of the workflow: "running" or "completed"
  inbox,   \* signals the service accepted and no task has taken yet
  sent,    \* how many signals were accepted; the n-th has id n
  run,     \* the current run: what the closure of makeWorkflow holds
  runs,    \* number of runs so far
  task,    \* the workflow task under way
  saved,   \* run and task as they were when the task began
  lost     \* history: ids the old run handled and the new run never heard of

vars == <<status, inbox, sent, run, runs, task, saved, lost>>

-----------------------------------------------------------------------------
(* Data.                                                                   *)

EventSignal   == [id : Nat, kind : {"event"}, event : Events]
MigrateSignal == [id : Nat, kind : {"migrate"}, queue : Queues]
ResetSignal   == [id : Nat, kind : {"reset"}, queue : Queues, state : States]
Signal        == EventSignal \cup MigrateSignal \cup ResetSignal

\* The payload of a continue-as-new and the queue it goes to.  via says which
\* of the three calls produced it; the context is the ids the machine handled.
Continuation == [kind : {"continue"}, via : {"at once", "deferred", "reset"},
                 queue : Queues, state : States, context : Seq(Nat)]
Pending   == [kind |-> "pending"]
Completed == [kind |-> "completed"]
Outcome   == {Pending, Completed} \cup Continuation

Run == [queue : Queues, started : BOOLEAN,
        state : States,           \* currentState
        context : Seq(Nat),       \* currentContext: ids of the signals applied
        sleeping : Seq(Queues),   \* handleMigrate calls in `await sleep(0)`
        awaiting : BOOLEAN,       \* awaitingContinuationCondition
        target : Queues \cup {NoQueue}, \* queue of okToMigrateSubscription
        blocker : Outcome,        \* how the Trigger was settled, if it was
        reset : {Pending} \cup Continuation, \* what a reset signal threw
        consumed : SUBSET Nat]    \* history: ids used up without the context

\* signals and woken sleeps still to be handled, and whether the machine's own
\* event is due
Task == [phase : {"idle", "start", "signals", "rest"}, signals : Seq(Signal),
         due : BOOLEAN, woken : Nat]
Idle == [phase |-> "idle", signals |-> <<>>, due |-> FALSE, woken |-> 0]

Ids(signals) == {signals[i].id : i \in 1..Len(signals)}
Elems(s)     == {s[i] : i \in 1..Len(s)}

\* canMigrate: no active node says no, and every active node that invokes an
\* actor says the actor may be interrupted.
CanMigrate(s) ==
  /\ Config[s] \cap NoMigrate = {}
  /\ Config[s] \cap Invoking \subseteq CanInterrupt

\* A Trigger keeps its first settlement.
Settle(blocker, outcome) == IF blocker = Pending THEN outcome ELSE blocker

ContinueAsNew(via, queue, state, context) ==
  [kind |-> "continue", via |-> via, queue |-> queue, state |-> state,
   context |-> context]

FreshRun(queue, state, context, consumed) ==
  [queue |-> queue, started |-> FALSE, state |-> state, context |-> context,
   sleeping |-> <<>>, awaiting |-> FALSE, target |-> NoQueue,
   blocker |-> Pending, reset |-> Pending, consumed |-> consumed]

-----------------------------------------------------------------------------
(* What the code does with one job.                                        *)

\* Wrong on purpose: the context is not saved; canMigrate is not asked; it is
\* asked of the state before.
NotifyNoContext(r, s, c) ==
  [r EXCEPT !.state = s,
            !.blocker = IF s \in Final THEN Settle(@, Completed) ELSE @]
NotifyUnasked(r, s, c) ==
  [r EXCEPT !.state = s, !.context = c,
            !.blocker = IF r.target # NoQueue
                        THEN Settle(@, ContinueAsNew("deferred", r.target, s, c))
                        ELSE @]
NotifyStale(r, s, c) ==
  LET fires == r.target # NoQueue /\ CanMigrate(r.state)
      done  == s \in Final /\ ~r.awaiting
  IN  [r EXCEPT
        !.state = s, !.context = c,
        !.target  = IF fires THEN NoQueue ELSE @,
        !.blocker = IF fires
                    THEN Settle(@, ContinueAsNew("deferred", r.target, s, c))
                    ELSE IF done THEN Settle(@, Completed) ELSE @]

\* The subscribers of the interpreter, on the notification that the machine is
\* in s with context c: the saver of currentState and currentContext, then the
\* one handleMigrate left, then on completion the one that settles the blocker.
Notify(r, s, c) ==
  LET fires == r.target # NoQueue /\ CanMigrate(s)
      done  == s \in Final /\ ~r.awaiting
  IN  [r EXCEPT
        !.state   = s,
        !.context = c,
        !.target  = IF fires THEN NoQueue ELSE @,
        !.blocker = IF fires
                    THEN Settle(@, ContinueAsNew("deferred", r.target, s, c))
                    ELSE IF done THEN Settle(@, Completed) ELSE @]

\* Wrong on purpose: two handlers hand the signal to the machine.
HandleEventTwice(r, m) ==
  Notify(r, Machine[r.queue][r.state][m.event], r.context \o <<m.id, m.id>>)

\* interpreter.send of application signal m.  A stopped interpreter ignores
\* it, and a signal that does not decode is logged and goes no further.
HandleEvent(r, m) ==
  IF m.event \in Undecodable \/ r.state \in Final
  THEN [r EXCEPT !.consumed = @ \cup {m.id}]
  ELSE Notify(r, Machine[r.queue][r.state][m.event], Append(r.context, m.id))

\* Wrong on purpose: handleMigrate does not sleep.
HandleMigrateAtOnce(r, m) ==
  [r EXCEPT !.blocker =
     IF CanMigrate(r.state)
     THEN Settle(@, ContinueAsNew("at once", m.queue, r.state, r.context)) ELSE @,
   !.consumed = @ \cup {m.id}]

\* handleMigrate up to its await.
HandleMigrate(r, m) ==
  [r EXCEPT !.sleeping = Append(@, m.queue), !.consumed = @ \cup {m.id}]

\* Wrong on purpose: the old subscription is dropped after the new one is kept.
ResumeMigrateLate(r) ==
  LET queue == Head(r.sleeping)
      r1    == [r EXCEPT !.sleeping = Tail(@), !.target = NoQueue]
  IN  IF CanMigrate(r.state)
      THEN [r1 EXCEPT !.blocker =
             Settle(@, ContinueAsNew("at once", queue, r.state, r.context))]
      ELSE [r1 EXCEPT !.awaiting = TRUE,
                      !.target = IF r.target = NoQueue THEN queue ELSE NoQueue]

\* handleMigrate after its await.  It drops the subscription of an earlier
\* call, then either continues as new or subscribes and waits.
ResumeMigrate(r) ==
  LET queue == Head(r.sleeping)
      r1    == [r EXCEPT !.sleeping = Tail(@), !.target = NoQueue]
  IN  IF CanMigrate(r.state)
      THEN [r1 EXCEPT !.blocker =
             Settle(@, ContinueAsNew("at once", queue, r.state, r.context))]
      ELSE [r1 EXCEPT !.awaiting = TRUE, !.target = queue]

\* Wrong on purpose: what the machine applied is kept.
HandleResetKeeping(r, m) ==
  [r EXCEPT !.reset = Settle(@, ContinueAsNew("reset", m.queue, m.state, r.context)),
            !.consumed = @ \cup {m.id}]

\* handleReset: no condition on the state, nothing deferred.
HandleReset(r, m) ==
  [r EXCEPT !.reset = Settle(@, ContinueAsNew("reset", m.queue, m.state, <<>>)),
            !.consumed = @ \cup {m.id}]

HandleSignal(r, m) ==
  CASE m.kind = "event"   -> HandleEvent(r, m)
    [] m.kind = "migrate" -> HandleMigrate(r, m)
    [] m.kind = "reset"   -> HandleReset(r, m)

-----------------------------------------------------------------------------
(* The client and the service.                                             *)

Init ==
  /\ status = "running"
  /\ inbox = <<>>
  /\ sent = 0
  /\ run = FreshRun(FirstQueue, InitialState, <<>>, {})
  /\ runs = 1
  /\ task = Idle
  /\ saved = [run |-> run, task |-> Idle]
  /\ lost = {}

Accept(m) ==
  /\ status = "running"
  /\ sent < MaxSignals
  /\ sent' = sent + 1
  /\ inbox' = Append(inbox, m)
  /\ UNCHANGED <<status, run, runs, task, saved, lost>>

SendEvent(e)    == Accept([id |-> sent + 1, kind |-> "event", event |-> e])
SendMigrate(q)  == Accept([id |-> sent + 1, kind |-> "migrate", queue |-> q])
SendReset(q, s) == Accept([id |-> sent + 1, kind |-> "reset", queue |-> q,
                           state |-> s])

\* A task takes every waiting signal, k of the sleeps (they elapse in the order
\* they began), and may take the event of an actor or `after` of this state.
BeginTask(k, due) ==
  /\ status = "running"
  /\ task.phase = "idle"
  /\ k <= Len(run.sleeping)
  /\ due => /\ run.started /\ run.state \notin Final
            /\ Internal[run.queue][run.state] # run.state
  /\ ~run.started \/ inbox # <<>> \/ k > 0 \/ due
  /\ task' = [phase |-> IF run.started THEN "signals" ELSE "start",
              signals |-> inbox, due |-> due, woken |-> k]
  /\ saved' = [run |-> run, task |-> task']
  /\ inbox' = <<>>
  /\ UNCHANGED <<status, sent, run, runs, lost>>

\* The payload is invalid, the migration function rejects it, or what it returns is
\* no state of the machine: the run throws before it has a machine to start.
Unreceived == runs > 1 /\ ~run.started /\ run.state \notin Receivable[run.queue]

\* Wrong on purpose: the machine is started before anybody subscribes.
StartRunUnheard ==
  /\ task.phase = "start"
  /\ ~Unreceived
  /\ run' = [run EXCEPT !.started = TRUE, !.state =
               IF runs = 1 THEN @ ELSE Receive[run.queue][@]]
  /\ task' = [task EXCEPT !.phase = "signals"]
  /\ UNCHANGED <<status, inbox, sent, runs, saved, lost>>

\* The body of the workflow function: a run that received a continuation takes
\* the state its migration function gives; start() notifies the subscribers.
StartRun ==
  /\ task.phase = "start"
  /\ ~Unreceived
  /\ LET s == IF runs = 1 THEN run.state ELSE Receive[run.queue][run.state]
     IN  run' = Notify([run EXCEPT !.started = TRUE], s, run.context)
  /\ task' = [task EXCEPT !.phase = "signals"]
  /\ UNCHANGED <<status, inbox, sent, runs, saved, lost>>

\* The machine's own event is void once a signal took it out of the state.
NextSignal ==
  /\ task.phase = "signals"
  /\ task.signals # <<>>
  /\ run' = HandleSignal(run, Head(task.signals))
  /\ task' = [task EXCEPT !.signals = Tail(@),
                          !.due = @ /\ run'.state = run.state]
  /\ UNCHANGED <<status, inbox, sent, runs, saved, lost>>

\* What may close the run: the settled blocker or the error of a reset; when
\* both are there at the end of the signals, either promise may come first.
Closing == {run.blocker, run.reset} \ {Pending}

EndSignals ==
  /\ task.phase = "signals"
  /\ task.signals = <<>>
  /\ Closing = {}
  /\ task' = [task EXCEPT !.phase = "rest"]
  /\ UNCHANGED <<status, inbox, sent, run, runs, saved, lost>>

InternalEvent ==
  /\ task.phase = "rest"
  /\ task.due
  /\ run' = Notify(run, Internal[run.queue][run.state], run.context)
  /\ task' = [task EXCEPT !.due = FALSE]
  /\ UNCHANGED <<status, inbox, sent, runs, saved, lost>>

Wake ==
  /\ task.phase = "rest"
  /\ task.woken > 0
  /\ run' = ResumeMigrate(run)
  /\ task' = [task EXCEPT !.woken = @ - 1]
  /\ UNCHANGED <<status, inbox, sent, runs, saved, lost>>

\* Once the run is to close, what is left of the task can change nothing.
TaskDone ==
  \/ task.phase = "rest" /\ ~task.due /\ task.woken = 0
  \/ task.phase = "signals" /\ task.signals = <<>> /\ Closing # {}

YieldTask ==
  /\ TaskDone
  /\ Closing = {}
  /\ task' = Idle
  /\ UNCHANGED <<status, inbox, sent, run, runs, saved, lost>>

\* A task that does not count is replayed from the state before it, with the signals
\* that have come since.
Replay ==
  /\ run' = saved.run
  /\ task' = [saved.task EXCEPT !.signals = @ \o inbox]
  /\ saved' = [saved EXCEPT !.task = task']
  /\ inbox' = <<>>
  /\ UNCHANGED <<status, sent, runs, lost>>

\* The service refuses to close a run with signals waiting.
RefuseTask == TaskDone /\ Closing # {} /\ inbox # <<>> /\ Replay

\* What the code throws is no failure of the workflow: the service tries the task
\* again and again.
FailTask == task.phase = "start" /\ Unreceived /\ Replay

Complete ==
  /\ TaskDone
  /\ inbox = <<>>
  /\ Completed \in Closing
  /\ status' = "completed"
  /\ task' = Idle
  /\ UNCHANGED <<inbox, sent, run, runs, saved, lost>>

\* The next run knows the payload and nothing else of this one.
NextRun(c) ==
  LET gone == Elems(run.context) \ Elems(c.context)
  IN  /\ TaskDone
      /\ inbox = <<>>
      /\ c \in Closing \ {Completed}
      /\ run' = FreshRun(c.queue, c.state, c.context,
                         IF c.via = "reset" THEN run.consumed \cup gone
                                            ELSE run.consumed)
      /\ lost' = IF c.via = "reset" THEN lost ELSE lost \cup gone
      /\ runs' = runs + 1
      /\ task' = Idle
      /\ UNCHANGED <<status, inbox, sent, saved>>

Client ==
  \/ \E e \in Events : SendEvent(e)
  \/ \E q \in Queues : SendMigrate(q)
  \/ \E q \in Queues, s \in States : SendReset(q, s)

Begin == \E k \in 0..Len(run.sleeping), due \in BOOLEAN : BeginTask(k, due)

Code == StartRun \/ NextSignal \/ EndSignals \/ InternalEvent \/ Wake

Close == YieldTask \/ RefuseTask \/ FailTask \/ Complete \/ \E c \in Closing : NextRun(c)

Next == Client \/ Begin \/ Code \/ Close

Spec == Init /\ [][Next]_vars

\* The service keeps running tasks and replays the ones it refused; a sleep
\* elapses, an invoked actor finishes, and both are handed to the code in the
\* end.  Clients owe nothing.
BeginWithAll ==
  \E due \in BOOLEAN :
    /\ due <=> /\ run.started /\ run.state \notin Final
               /\ Internal[run.queue][run.state] # run.state
    /\ BeginTask(Len(run.sleeping), due)

Fairness == WF_vars(Code) /\ WF_vars(Close) /\ SF_vars(BeginWithAll)

FairSpec == Spec /\ Fairness

-----------------------------------------------------------------------------
(* Properties.                                                             *)

\* Every variable has its type.
TypeOK ==
  /\ status \in {"running", "completed"}
  /\ inbox \in Seq(Signal)
  /\ sent \in 0..MaxSignals
  /\ run \in Run
  /\ runs \in Nat
  /\ task \in Task
  /\ saved \in [run : Run, task : Task]
  /\ lost \in SUBSET Nat

\* What the machine applied, what the current task still has and what waits at
\* the service are in the order the signals were accepted, none of them twice,
\* however often tasks were replayed and the workflow moved.
Increasing(s) == \A i, j \in 1..Len(s) : i < j => s[i] < s[j]
IdSeq(signals) == [i \in 1..Len(signals) |-> signals[i].id]
InOrderOnce == Increasing(run.context \o IdSeq(task.signals) \o IdSeq(inbox))

\* An accepted signal is in the machine's context, about to be handled, used up
\* on purpose (a control signal, a payload that does not decode, a machine that
\* is done, a reset), or was handled by a run that had already decided what the
\* next one would know.  There is no other way for it to vanish.
AllAccounted ==
  status = "running" =>
    1..sent \subseteq Elems(run.context) \cup run.consumed \cup lost
                      \cup Ids(task.signals) \cup Ids(inbox)

\* "defer executing the body of this function until other async operations are
\* complete; this includes receiving signals": moving to another version loses
\* no signal the old run handled.
NoSignalLost == lost = {}

\* That much does hold of a migration that finds a good state at once: all the
\* signals handed over together with it go along.  Only a subscription, which
\* takes the snapshot in the middle of the signals, can leave some behind.
AtOnceLosesNothing ==
  [][lost' # lost => run.blocker.via = "deferred"]_vars

\* awaitingContinuationCondition keeps a finished machine from completing the
\* workflow and is never taken back.  It must not outlive the subscription
\* that will continue as new in its place.
WaitingIsSubscribed ==
  run.awaiting => run.target # NoQueue \/ run.blocker # Pending

\* A migration hands over only a state in which canMigrate holds, whatever
\* happened between the request and the hand-over.  Only reset may differ.
MigratesOnlyWhenAllowed ==
  [][runs' # runs => run.reset # Pending \/ CanMigrate(run'.state)]_vars

\* A workflow completes only with its machine in a final state, and with no
\* accepted signal unread.
CompletesClean ==
  status = "completed" => run.state \in Final /\ inbox = <<>>

\* "Set up a listener that resolves the blocker when the machine reaches a
\* terminal state": when the machine is done the workflow completes, in this run
\* or, if it was moved, in a later one.  (A replay or a reset may take the
\* workflow out of the final state again.)
DoneMachineCloses ==
  (run.started /\ run.state \in Final)
    ~> (status = "completed" \/ run.state \notin Final)

\* It does unless a migration waits for a state to leave and the final one may
\* not migrate, or it was moved to a version that cannot receive it: no other run
\* rests in a final state for ever.
FinishedMachineCloses ==
  (run.started /\ run.state \in Final /\ (run.awaiting => CanMigrate(run.state)))
    ~> (status = "completed" \/ run.state \notin Final \/ Unreceived)

\* A migration that is waiting for a state to leave takes place, or the run is
\* replaced some other way: but for that one end of the machine, its own progress
\* ends every wait.
WaitingMigrationHappens ==
  (run.target # NoQueue)
    ~> \/ run.target = NoQueue
       \/ run.state \in Final /\ ~CanMigrate(run.state)

\* What is done for good: how many signals were handled, and the run, before the
\* task under way took what it took.
Taken == IF task.phase = "idle" THEN <<>> ELSE saved.task.signals
Dealt == sent - Len(inbox) - Len(Taken)
Committed == IF task.phase = "idle" THEN run ELSE saved.run

Promise == INSTANCE Entity WITH
  Migratory <- {s \in States : CanMigrate(s)},
  handled   <- Dealt,
  applied   <- Committed.context,
  state     <- Committed.state,
  version   <- Committed.queue

\* The workflow is an implementation of module Entity: its tasks happen as a whole, a
\* refused one leaves no trace, signals are applied in order and not lost between
\* runs, and a migration leaves behind no signal of a task before the one in which it
\* happens.
IsEntity == Promise!Spec

================================================================================
