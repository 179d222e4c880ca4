------------------------- MODULE DurableWorkflowProofs -------------------------
(***************************************************************************)
(* Theorems about DurableWorkflow, for every machine, set of versions and  *)
(* number of signals.                                                      *)
(***************************************************************************)
EXTENDS DurableWorkflow, TLAPS

-----------------------------------------------------------------------------
(* Sequences of signals and of their ids.                                  *)

\* A signal's kind says which record it is.
LEMMA SignalKinds ==
  ASSUME NEW m \in Signal
  PROVE  /\ m.id \in Nat
         /\ m.kind \in {"event", "migrate", "reset"}
         /\ m.kind = "event"   => m.event \in Events
         /\ m.kind = "migrate" => m.queue \in Queues
         /\ m.kind = "reset"   => m.queue \in Queues /\ m.state \in States
  BY DEF Signal, EventSignal, MigrateSignal, ResetSignal

\* The elements of a sequence with one more.
LEMMA ElemsAppend ==
  ASSUME NEW s \in Seq(Nat), NEW x \in Nat
  PROVE  Elems(Append(s, x)) = Elems(s) \cup {x}
<1> DEFINE a == Append(s, x)
<1>1. /\ a \in Seq(Nat) /\ Len(a) = Len(s) + 1 /\ a[Len(s) + 1] = x
      /\ \A i \in 1..Len(s) : a[i] = s[i]
  OBVIOUS
<1>2. 1..Len(a) = 1..Len(s) \cup {Len(s) + 1}
  BY <1>1
<1> HIDE DEF a
<1>3. Elems(a) = Elems(s) \cup {x}
  <2>1. \A i \in 1..Len(s) : a[i] = s[i] /\ i \in 1..Len(a)
    BY <1>1, <1>2
  <2>2. Len(s) + 1 \in 1..Len(a) /\ a[Len(s) + 1] = x
    BY <1>1, <1>2
  <2>3. Elems(s) \cup {x} \subseteq Elems(a)
    BY <2>1, <2>2 DEF Elems
  <2>4. \A i \in 1..Len(a) : a[i] \in Elems(s) \cup {x}
    BY <1>2, <2>1, <2>2 DEF Elems
  <2> QED BY <2>3, <2>4 DEF Elems
<1> QED
  BY <1>3 DEF a

\* The ids of a batch of signals with one more.
LEMMA IdsAppend ==
  ASSUME NEW s \in Seq(Signal), NEW m \in Signal
  PROVE  Ids(Append(s, m)) = Ids(s) \cup {m.id}
<1> DEFINE a == Append(s, m)
<1>1. /\ Len(a) = Len(s) + 1 /\ a[Len(s) + 1] = m
      /\ \A i \in 1..Len(s) : a[i] = s[i]
  OBVIOUS
<1>2. 1..Len(a) = 1..Len(s) \cup {Len(s) + 1}
  BY <1>1
<1> HIDE DEF a
<1>3. Ids(a) = Ids(s) \cup {m.id}
  BY <1>1, <1>2 DEF Ids
<1> QED
  BY <1>3 DEF a

\* The ids of a batch are those of its first signal and of the rest.
LEMMA IdsHeadTail ==
  ASSUME NEW s \in Seq(Signal), s # <<>>
  PROVE  Ids(s) \subseteq {Head(s).id} \cup Ids(Tail(s))
<1> SUFFICES ASSUME NEW i \in 1..Len(s)
             PROVE  s[i].id \in {Head(s).id} \cup Ids(Tail(s))
  BY DEF Ids
<1>1. CASE i = 1
  BY <1>1
<1>2. CASE i # 1
  <2>1. i - 1 \in 1..Len(Tail(s)) /\ Tail(s)[i - 1] = s[i]
    BY <1>2
  <2> QED
    BY <2>1 DEF Ids
<1> QED
  BY <1>1, <1>2

\* The ids of two batches put together.
LEMMA IdsConcat ==
  ASSUME NEW s \in Seq(Signal), NEW t \in Seq(Signal)
  PROVE  Ids(s) \cup Ids(t) \subseteq Ids(s \o t)
<1> DEFINE c == s \o t
<1>1. /\ Len(c) = Len(s) + Len(t)
      /\ \A i \in 1..Len(s) : c[i] = s[i]
      /\ \A i \in 1..Len(t) : c[Len(s) + i] = t[i]
  OBVIOUS
<1>2. Len(s) \in Nat /\ Len(t) \in Nat
  OBVIOUS
<1> HIDE DEF c
<1>3. ASSUME NEW i \in 1..Len(s) PROVE s[i].id \in Ids(c)
  <2>1. i \in 1..Len(c) /\ c[i] = s[i]
    BY <1>1, <1>2
  <2> QED
    BY <2>1 DEF Ids
<1>4. ASSUME NEW i \in 1..Len(t) PROVE t[i].id \in Ids(c)
  <2>1. Len(s) + i \in 1..Len(c) /\ c[Len(s) + i] = t[i]
    BY <1>1, <1>2
  <2> QED
    BY <2>1 DEF Ids
<1>5. Ids(s) \cup Ids(t) \subseteq Ids(c)
  BY <1>3, <1>4 DEF Ids
<1> QED
  BY <1>5 DEF c

\* An empty batch has no ids.
LEMMA IdsEmpty == Ids(<<>>) = {}
  BY DEF Ids

\* Of no signals, none are left.
LEMMA NothingLeft == 0 - 0 - 0 = 0
OBVIOUS

\* Ids of one set come before those of another.
Precede(A, B) == \A x \in A, y \in B : x < y

\* The ids of signals are a sequence.
LEMMA IdSeqIs ==
  ASSUME NEW s \in Seq(Signal)
  PROVE  /\ IdSeq(s) \in Seq(Nat) /\ Len(IdSeq(s)) = Len(s)
         /\ \A i \in 1..Len(s) : IdSeq(s)[i] = s[i].id
         /\ Elems(IdSeq(s)) = Ids(s)
<1>1. \A i \in 1..Len(s) : s[i] \in Signal
  OBVIOUS
<1>2. \A i \in 1..Len(s) : s[i].id \in Nat
  BY <1>1, SignalKinds
<1>3. /\ IdSeq(s) \in Seq(Nat) /\ Len(IdSeq(s)) = Len(s)
      /\ \A i \in 1..Len(s) : IdSeq(s)[i] = s[i].id
  BY <1>2 DEF IdSeq
<1> QED
  BY <1>3 DEF Elems, Ids

\* Ids are numbers.
LEMMA ElemsAreNumbers ==
  /\ \A s \in Seq(Nat) : Elems(s) \subseteq Nat
  /\ \A s \in Seq(Signal) : Ids(s) \subseteq Nat
<1>1. ASSUME NEW s \in Seq(Nat) PROVE Elems(s) \subseteq Nat
  <2>1. \A i \in 1..Len(s) : s[i] \in Nat
    OBVIOUS
  <2> QED
    BY <2>1 DEF Elems
<1>2. ASSUME NEW s \in Seq(Signal) PROVE Ids(s) \subseteq Nat
  BY <1>1, IdSeqIs
<1> QED
  BY <1>1, <1>2

\* Two sequences in order, one before the other, are in order together.
LEMMA ConcatInOrder ==
  ASSUME NEW s \in Seq(Nat), NEW t \in Seq(Nat), Increasing(s), Increasing(t),
         Precede(Elems(s), Elems(t))
  PROVE  /\ s \o t \in Seq(Nat) /\ Increasing(s \o t)
         /\ Elems(s \o t) = Elems(s) \cup Elems(t)
<1> DEFINE c == s \o t
<1>1. /\ c \in Seq(Nat) /\ Len(c) = Len(s) + Len(t)
      /\ \A i \in 1..Len(s) : c[i] = s[i]
      /\ \A i \in 1..Len(t) : c[Len(s) + i] = t[i]
  OBVIOUS
<1>2. Len(s) \in Nat /\ Len(t) \in Nat
  OBVIOUS
<1> HIDE DEF c
<1>3. ASSUME NEW i \in 1..Len(c)
      PROVE  \/ i \in 1..Len(s) /\ c[i] = s[i]
             \/ i - Len(s) \in 1..Len(t) /\ c[i] = t[i - Len(s)] /\ Len(s) < i
  <2>1. CASE i <= Len(s)
    BY <1>1, <1>2, <2>1
  <2>2. CASE ~(i <= Len(s))
    <3> DEFINE k == i - Len(s)
    <3>1. k \in 1..Len(t) /\ i = Len(s) + k
      BY <1>1, <1>2, <2>2
    <3>2. Len(s) < i
      BY <1>2, <2>2
    <3>3. c[Len(s) + k] = t[k]
      BY <1>1, <3>1
    <3> QED
      BY <3>1, <3>2, <3>3
  <2> QED
    BY <2>1, <2>2
<1>4. ASSUME NEW i \in 1..Len(c), NEW j \in 1..Len(c), i < j
      PROVE  c[i] < c[j]
  <2>1. CASE j \in 1..Len(s) /\ c[j] = s[j]
    <3>1. i \in 1..Len(s)
      BY <1>2, <1>4, <2>1
    <3>2. c[i] = s[i]
      BY <1>1, <3>1
    <3> QED
      BY <1>4, <2>1, <3>1, <3>2 DEF Increasing
  <2>2. CASE j - Len(s) \in 1..Len(t) /\ c[j] = t[j - Len(s)] /\ Len(s) < j
    <3>1. CASE i \in 1..Len(s) /\ c[i] = s[i]
      BY <2>2, <3>1 DEF Precede, Elems
    <3>2. CASE i - Len(s) \in 1..Len(t) /\ c[i] = t[i - Len(s)]
      <4>1. i - Len(s) < j - Len(s)
        BY <1>2, <1>4
      <4> QED
        BY <2>2, <3>2, <4>1 DEF Increasing
    <3> QED
      BY <1>3, <3>1, <3>2
  <2> QED
    BY <1>3, <2>1, <2>2
<1>5. Increasing(c)
  BY <1>4 DEF Increasing
<1>6. Elems(c) \subseteq Elems(s) \cup Elems(t)
  BY <1>3 DEF Elems
<1>7. ASSUME NEW i \in 1..Len(s) PROVE s[i] \in Elems(c)
  <2>1. i \in 1..Len(c) /\ c[i] = s[i]
    BY <1>1, <1>2
  <2> QED
    BY <2>1 DEF Elems
<1>8. ASSUME NEW i \in 1..Len(t) PROVE t[i] \in Elems(c)
  <2>1. Len(s) + i \in 1..Len(c) /\ c[Len(s) + i] = t[i]
    BY <1>1, <1>2
  <2> QED
    BY <2>1 DEF Elems
<1>9. Elems(s) \cup Elems(t) \subseteq Elems(c)
  BY <1>7, <1>8 DEF Elems
<1> QED
  BY <1>1, <1>5, <1>6, <1>9 DEF c

\* What two sequences put together are made of.
LEMMA ConcatParts ==
  ASSUME NEW s \in Seq(Nat), NEW t \in Seq(Nat)
  PROVE  /\ Len(s \o t) = Len(s) + Len(t)
         /\ \A i \in 1..Len(s) : (s \o t)[i] = s[i]
         /\ \A i \in 1..Len(t) : (s \o t)[Len(s) + i] = t[i]
OBVIOUS

\* The ids of two batches put together are those of each.
LEMMA IdSeqConcat ==
  ASSUME NEW s \in Seq(Signal), NEW t \in Seq(Signal),
         Increasing(IdSeq(s)), Increasing(IdSeq(t)), Precede(Ids(s), Ids(t))
  PROVE  Ids(s \o t) = Ids(s) \cup Ids(t) /\ Increasing(IdSeq(s \o t))
<1> DEFINE c == s \o t
           a == IdSeq(s)
           b == IdSeq(t)
           d == a \o b
<1>1. /\ a \in Seq(Nat) /\ Len(a) = Len(s) /\ \A i \in 1..Len(s) : a[i] = s[i].id
      /\ b \in Seq(Nat) /\ Len(b) = Len(t) /\ \A i \in 1..Len(t) : b[i] = t[i].id
      /\ Elems(a) = Ids(s) /\ Elems(b) = Ids(t) /\ Len(s) \in Nat /\ Len(t) \in Nat
  BY IdSeqIs
<1>2. /\ c \in Seq(Signal) /\ Len(c) = Len(s) + Len(t)
      /\ \A i \in 1..Len(s) : c[i] = s[i]
      /\ \A i \in 1..Len(t) : c[Len(s) + i] = t[i]
  OBVIOUS
<1>3. Increasing(d) /\ Elems(d) = Elems(a) \cup Elems(b)
  BY <1>1, ConcatInOrder
<1> HIDE DEF a, b
<1>4. /\ Len(d) = Len(a) + Len(b)
      /\ \A i \in 1..Len(a) : d[i] = a[i]
      /\ \A i \in 1..Len(b) : d[Len(a) + i] = b[i]
  BY <1>1, ConcatParts, Zenon
<1> HIDE DEF c, d
<1>5. /\ Len(IdSeq(c)) = Len(c) /\ Elems(IdSeq(c)) = Ids(c)
      /\ \A i \in 1..Len(c) : IdSeq(c)[i] = c[i].id
  BY <1>2, IdSeqIs
<1>6. ASSUME NEW i \in 1..Len(c) PROVE IdSeq(c)[i] = d[i]
  <2>1. CASE i \in 1..Len(s)
    BY <1>1, <1>2, <1>4, <1>5, <2>1
  <2>2. CASE i \notin 1..Len(s)
    <3> DEFINE k == i - Len(s)
    <3>1. k \in 1..Len(t) /\ i = Len(s) + k
      BY <1>1, <1>2, <2>2
    <3> HIDE DEF k
    <3>2. c[i] = t[k] /\ d[i] = b[k] /\ b[k] = t[k].id
      BY <1>1, <1>2, <1>4, <3>1
    <3> QED
      BY <1>5, <3>2
  <2> QED
    BY <2>1, <2>2
<1>7. Len(IdSeq(c)) = Len(d)
  BY <1>1, <1>2, <1>4, <1>5
<1>8. Increasing(IdSeq(c)) /\ Elems(IdSeq(c)) = Elems(d)
  BY <1>3, <1>5, <1>6, <1>7 DEF Increasing, Elems
<1> QED
  BY <1>1, <1>3, <1>5, <1>8 DEF c

\* One more at the end, after all the others.
LEMMA AppendInOrder ==
  ASSUME NEW s \in Seq(Nat), NEW x \in Nat, Increasing(s), Precede(Elems(s), {x})
  PROVE  Increasing(Append(s, x))
<1> DEFINE a == Append(s, x)
<1>1. /\ a \in Seq(Nat) /\ Len(a) = Len(s) + 1 /\ a[Len(s) + 1] = x
      /\ \A i \in 1..Len(s) : a[i] = s[i]
  OBVIOUS
<1>2. Len(s) \in Nat
  OBVIOUS
<1> HIDE DEF a
<1>3. ASSUME NEW i \in 1..Len(a), NEW j \in 1..Len(a), i < j
      PROVE  a[i] < a[j]
  <2>1. i \in 1..Len(s) /\ a[i] = s[i]
    BY <1>1, <1>2, <1>3
  <2>2. CASE j \in 1..Len(s)
    BY <1>1, <1>3, <2>1, <2>2 DEF Increasing
  <2>3. CASE j = Len(s) + 1
    BY <1>1, <2>1, <2>3 DEF Precede, Elems
  <2> QED
    BY <1>1, <1>2, <2>2, <2>3
<1>4. Increasing(a)
  BY <1>3 DEF Increasing
<1> QED
  BY <1>4 DEF a

\* The first of signals in order comes before the rest.
LEMMA HeadFirst ==
  ASSUME NEW s \in Seq(Signal), s # <<>>, Increasing(IdSeq(s))
  PROVE  /\ Head(s).id \in Ids(s) /\ Ids(Tail(s)) \subseteq Ids(s)
         /\ Increasing(IdSeq(Tail(s))) /\ Precede({Head(s).id}, Ids(Tail(s)))
<1> DEFINE t == Tail(s)
<1>1. /\ t \in Seq(Signal) /\ Len(s) \in Nat \ {0} /\ Len(t) = Len(s) - 1
      /\ Head(s) = s[1] /\ \A i \in 1..Len(t) : t[i] = s[i + 1]
  OBVIOUS
<1> HIDE DEF t
<1>2. \A i, j \in 1..Len(s) : i < j => s[i].id < s[j].id
  BY IdSeqIs DEF Increasing
<1>3. \A i \in 1..Len(t) : i + 1 \in 1..Len(s) /\ 1 < i + 1
  BY <1>1
<1>4. 1 \in 1..Len(s)
  BY <1>1
<1>5. Head(s).id \in Ids(s)
  BY <1>1, <1>4 DEF Ids
<1>6. Ids(t) \subseteq Ids(s)
  BY <1>1, <1>3 DEF Ids
<1>7. Precede({Head(s).id}, Ids(t))
  BY <1>1, <1>2, <1>3, <1>4 DEF Precede, Ids
<1>8. \A i, j \in 1..Len(t) : i < j => t[i].id < t[j].id
  BY <1>1, <1>2, <1>3
<1>9. Increasing(IdSeq(t))
  <2>1. Len(IdSeq(t)) = Len(t) /\ \A i \in 1..Len(t) : IdSeq(t)[i] = t[i].id
    BY <1>1, IdSeqIs
  <2> QED
    BY <1>8, <2>1 DEF Increasing
<1> QED
  BY <1>5, <1>6, <1>7, <1>9 DEF t

-----------------------------------------------------------------------------
(* The inductive invariant.                                                *)

USE QueuesAssumption, StatesAssumption, MachineAssumption, BoundsAssumption

Continues(outcome) == outcome \notin {Pending, Completed}

\* What holds of a run at any time.  A run that has not started has settled
\* nothing; a settled blocker continues in a state that may migrate, or closes
\* with the machine done.
RunInv(r) ==
  /\ r \in Run
  /\ ~r.started => r.blocker = Pending
  /\ Continues(r.blocker) => CanMigrate(r.blocker.state)
  /\ r.blocker = Completed => r.state \in Final
  /\ r.awaiting => r.target # NoQueue \/ r.blocker # Pending

StartedInv(r) == RunInv(r) /\ r.started

\* How a task and the run it works on fit together.
TaskInv(r, t) ==
  /\ t \in Task
  /\ t.phase = "start" => ~r.started
  /\ t.phase \in {"signals", "rest"} => r.started
  /\ t.phase = "rest" => t.signals = <<>>
  /\ t.phase # "idle" => t.woken <= Len(r.sleeping)
  /\ t.phase # "idle" /\ t.due => r.started /\ r.state \notin Final

IInv ==
  /\ TypeOK
  /\ RunInv(run) /\ TaskInv(run, task)
  /\ RunInv(saved.run) /\ TaskInv(saved.run, saved.task)
  /\ saved.task.phase # "rest"
  /\ status = "completed" => /\ task.phase = "idle" /\ inbox = <<>>
                             /\ run.state \in Final

-----------------------------------------------------------------------------
(* The data.                                                               *)

\* The three outcomes of a run are told apart.
LEMMA OutcomesDiffer ==
  /\ Pending # Completed
  /\ Pending \notin Continuation
  /\ Completed \notin Continuation
  BY DEF Pending, Completed, Continuation

\* A run that has not started has nothing to answer for.
LEMMA FreshRunInv ==
  ASSUME NEW q \in Queues, NEW s \in States, NEW c \in Seq(Nat),
         NEW used \in SUBSET Nat
  PROVE  RunInv(FreshRun(q, s, c, used))
<1>1. FreshRun(q, s, c, used) \in Run
  BY DEF FreshRun, Run, Outcome
<1>2. /\ FreshRun(q, s, c, used).blocker = Pending
      /\ FreshRun(q, s, c, used).awaiting = FALSE
  BY DEF FreshRun
<1> QED
  BY <1>1, <1>2, OutcomesDiffer DEF RunInv, Continues

-----------------------------------------------------------------------------
(* The handlers.                                                           *)

\* A notification keeps the invariant of a started run whose blocker has not
\* been settled as completed.
LEMMA NotifyInv ==
  ASSUME NEW r, StartedInv(r), r.blocker # Completed,
         NEW s \in States, NEW c \in Seq(Nat)
  PROVE  /\ StartedInv(Notify(r, s, c))
         /\ Notify(r, s, c).state = s
         /\ Notify(r, s, c).context = c
         /\ Notify(r, s, c).sleeping = r.sleeping
         /\ Notify(r, s, c).consumed = r.consumed
         /\ Notify(r, s, c).reset = r.reset
<1> DEFINE n == Notify(r, s, c)
           fires == r.target # NoQueue /\ CanMigrate(s)
           o == ContinueAsNew("deferred", r.target, s, c)
<1>1. r \in Run /\ RunInv(r) /\ r.started
  BY DEF StartedInv, RunInv
<1>2. /\ r.queue \in Queues /\ r.started \in BOOLEAN /\ r.state \in States
      /\ r.context \in Seq(Nat) /\ r.sleeping \in Seq(Queues)
      /\ r.awaiting \in BOOLEAN /\ r.target \in Queues \cup {NoQueue}
      /\ r.blocker \in Outcome /\ r.reset \in {Pending} \cup Continuation
      /\ r.consumed \in SUBSET Nat
  BY <1>1 DEF Run
<1>3. /\ n.queue = r.queue /\ n.started = r.started /\ n.state = s
      /\ n.context = c /\ n.sleeping = r.sleeping /\ n.awaiting = r.awaiting
      /\ n.reset = r.reset /\ n.consumed = r.consumed
      /\ n.target = IF fires THEN NoQueue ELSE r.target
      /\ n.blocker = IF fires THEN Settle(r.blocker, o)
                     ELSE IF s \in Final /\ ~r.awaiting
                          THEN Settle(r.blocker, Completed) ELSE r.blocker
  BY <1>1 DEF Notify, Run
<1>4. ASSUME fires PROVE o \in Continuation /\ o.state = s
  <2>1. r.target \in Queues
    BY <1>2, <1>4
  <2>2. o \in Continuation /\ o.state = s
    BY <2>1 DEF ContinueAsNew, Continuation
  <2> QED
    BY <2>2
<1>5. n.blocker \in Outcome
  <2>1. Completed \in Outcome /\ (fires => o \in Outcome)
    BY <1>4 DEF Outcome
  <2> QED
    BY <1>2, <1>3, <2>1 DEF Settle
<1>6. n \in Run
  <2>1. n = [r EXCEPT !.state = n.state, !.context = n.context,
                      !.target = n.target, !.blocker = n.blocker]
    BY <1>1, <1>3 DEF Notify, Run
  <2> HIDE DEF n
  <2> QED
    BY <1>1, <1>2, <1>3, <1>5, <2>1 DEF Run
<1>7. Continues(n.blocker) => CanMigrate(n.blocker.state)
  BY <1>1, <1>3, <1>4, OutcomesDiffer DEF Continues, Settle, RunInv
<1>8. n.blocker = Completed => n.state \in Final
  BY <1>3, <1>4, OutcomesDiffer DEF Settle
<1>9. n.awaiting => n.target # NoQueue \/ n.blocker # Pending
  BY <1>1, <1>3, <1>4, OutcomesDiffer DEF Settle, RunInv
<1> QED
  BY <1>1, <1>3, <1>6, <1>7, <1>8, <1>9 DEF RunInv, StartedInv

\* So does every signal.  No signal moves a machine that is done.
LEMMA HandleSignalInv ==
  ASSUME NEW r, StartedInv(r), NEW m \in Signal
  PROVE  /\ StartedInv(HandleSignal(r, m))
         /\ Len(r.sleeping) <= Len(HandleSignal(r, m).sleeping)
<1> DEFINE n == HandleSignal(r, m)
<1>1. /\ r \in Run /\ r.queue \in Queues /\ r.started \in BOOLEAN
      /\ r.state \in States /\ r.context \in Seq(Nat)
      /\ r.sleeping \in Seq(Queues) /\ r.awaiting \in BOOLEAN
      /\ r.target \in Queues \cup {NoQueue}
      /\ r.blocker \in Outcome /\ r.reset \in {Pending} \cup Continuation
      /\ r.consumed \in SUBSET Nat /\ RunInv(r) /\ r.started
  BY DEF StartedInv, RunInv, Run
<1>2. CASE m.kind = "event"
  <2>1. n = HandleEvent(r, m) /\ m.event \in Events /\ m.id \in Nat
    BY <1>2, SignalKinds DEF HandleSignal
  <2>2. CASE m.event \in Undecodable \/ r.state \in Final
    <3> DEFINE used == r.consumed \cup {m.id}
    <3>1. n = [r EXCEPT !.consumed = used] /\ used \in SUBSET Nat
      BY <1>1, <2>1, <2>2 DEF HandleEvent
    <3> HIDE DEF used, n
    <3>2. n \in Run
      BY <1>1, <2>1, <3>1 DEF Run
    <3>3. /\ n.started = r.started /\ n.blocker = r.blocker /\ n.state = r.state
          /\ n.awaiting = r.awaiting /\ n.target = r.target
          /\ n.sleeping = r.sleeping
      BY <1>1, <3>1 DEF Run
    <3>4. StartedInv(n)
      BY <1>1, <3>2, <3>3 DEF RunInv, StartedInv
    <3> QED
      BY <1>1, <3>3, <3>4 DEF n
  <2>3. CASE ~(m.event \in Undecodable \/ r.state \in Final)
    <3> DEFINE s == Machine[r.queue][r.state][m.event]
               c == Append(r.context, m.id)
    <3>1. n = Notify(r, s, c)
      BY <2>1, <2>3 DEF HandleEvent
    <3>2. s \in States /\ c \in Seq(Nat)
      BY <1>1, <2>1
    <3>3. r.blocker # Completed
      BY <1>1, <2>3 DEF RunInv
    <3> HIDE DEF n, s, c
    <3>4. StartedInv(n) /\ n.sleeping = r.sleeping
      BY <3>1, <3>2, <3>3, NotifyInv
    <3> QED
      BY <1>1, <3>4 DEF n
  <2> QED
    BY <2>2, <2>3
<1>3. CASE m.kind = "migrate"
  <2> DEFINE used == r.consumed \cup {m.id}
             sleeping == Append(r.sleeping, m.queue)
  <2>1. /\ n = [r EXCEPT !.sleeping = sleeping, !.consumed = used]
        /\ used \in SUBSET Nat /\ sleeping \in Seq(Queues)
        /\ Len(r.sleeping) <= Len(sleeping)
    BY <1>1, <1>3, SignalKinds DEF HandleSignal, HandleMigrate
  <2> HIDE DEF n, used, sleeping
  <2>2. /\ n \in Run
        /\ n.started = r.started /\ n.blocker = r.blocker /\ n.state = r.state
        /\ n.awaiting = r.awaiting /\ n.target = r.target
        /\ n.sleeping = sleeping
    BY <1>1, <2>1 DEF Run
  <2>3. StartedInv(n)
    BY <1>1, <2>2 DEF RunInv, StartedInv
  <2> QED
    BY <2>1, <2>2, <2>3 DEF n
<1>4. CASE m.kind = "reset"
  <2>1. /\ m.queue \in Queues /\ m.state \in States /\ m.id \in Nat
        /\ n = HandleReset(r, m)
    BY <1>4, SignalKinds DEF HandleSignal
  <2> DEFINE o == ContinueAsNew("reset", m.queue, m.state, <<>>)
  <2>2. o \in Continuation
    BY <2>1 DEF ContinueAsNew, Continuation
  <2>3. Settle(r.reset, o) \in {Pending} \cup Continuation
    BY <1>1, <2>2 DEF Settle
  <2> DEFINE used == r.consumed \cup {m.id}
             reset == Settle(r.reset, o)
  <2>4. n = [r EXCEPT !.reset = reset, !.consumed = used] /\ used \in SUBSET Nat
    BY <1>1, <2>1 DEF HandleReset
  <2> HIDE DEF o, n, used, reset
  <2>5. /\ n \in Run
        /\ n.started = r.started /\ n.blocker = r.blocker /\ n.state = r.state
        /\ n.awaiting = r.awaiting /\ n.target = r.target
        /\ n.sleeping = r.sleeping
    BY <1>1, <2>3, <2>4 DEF Run, reset
  <2>6. StartedInv(n)
    BY <1>1, <2>5 DEF RunInv, StartedInv
  <2> QED
    BY <1>1, <2>5, <2>6 DEF n
<1> QED
  BY <1>2, <1>3, <1>4, SignalKinds

\* So does handleMigrate after its sleep; either it has settled the blocker, or
\* it is subscribed.
LEMMA ResumeMigrateInv ==
  ASSUME NEW r, StartedInv(r), Len(r.sleeping) > 0
  PROVE  /\ StartedInv(ResumeMigrate(r))
         /\ ResumeMigrate(r).state = r.state
         /\ ResumeMigrate(r).sleeping = Tail(r.sleeping)
         /\ ResumeMigrate(r).context = r.context
         /\ ResumeMigrate(r).consumed = r.consumed
         /\ ResumeMigrate(r).reset = r.reset
<1> DEFINE n == ResumeMigrate(r)
           o == ContinueAsNew("at once", Head(r.sleeping), r.state, r.context)
<1>1. /\ r \in Run /\ r.queue \in Queues /\ r.started \in BOOLEAN
      /\ r.state \in States /\ r.context \in Seq(Nat)
      /\ r.sleeping \in Seq(Queues) /\ r.awaiting \in BOOLEAN
      /\ r.target \in Queues \cup {NoQueue}
      /\ r.blocker \in Outcome /\ r.reset \in {Pending} \cup Continuation
      /\ r.consumed \in SUBSET Nat /\ RunInv(r) /\ r.started
  BY DEF StartedInv, RunInv, Run
<1>2. Head(r.sleeping) \in Queues /\ Tail(r.sleeping) \in Seq(Queues)
  BY <1>1
<1>3. o \in Continuation /\ o.state = r.state
  BY <1>1, <1>2 DEF ContinueAsNew, Continuation
<1>4. CASE CanMigrate(r.state)
  <2>1. n = [r EXCEPT !.sleeping = Tail(r.sleeping), !.target = NoQueue,
                      !.blocker = Settle(r.blocker, o)]
    BY <1>1, <1>4 DEF ResumeMigrate, Run
  <2> HIDE DEF o
  <2>2. Settle(r.blocker, o) \in Outcome /\ Settle(r.blocker, o) # Pending
    BY <1>1, <1>3, OutcomesDiffer DEF Settle, Outcome
  <2>3. /\ n \in Run
        /\ n.started = r.started /\ n.state = r.state /\ n.awaiting = r.awaiting
        /\ n.target = NoQueue /\ n.sleeping = Tail(r.sleeping)
        /\ n.context = r.context /\ n.reset = r.reset
        /\ n.blocker = Settle(r.blocker, o) /\ n.consumed = r.consumed
    BY <1>1, <1>2, <2>1, <2>2 DEF Run
  <2>4. /\ n.blocker = r.blocker \/ (n.blocker = o /\ o # Completed)
        /\ n.blocker # Pending
    BY <1>3, <2>2, <2>3, OutcomesDiffer DEF Settle
  <2>5. StartedInv(n)
    <3> HIDE DEF n
    <3> QED
      BY <1>1, <1>3, <1>4, <2>3, <2>4 DEF RunInv, StartedInv
  <2> QED
    BY <2>3, <2>5
<1>5. CASE ~CanMigrate(r.state)
  <2>1. n = [r EXCEPT !.sleeping = Tail(r.sleeping), !.awaiting = TRUE,
                      !.target = Head(r.sleeping)]
    BY <1>1, <1>5 DEF ResumeMigrate, Run
  <2>2. /\ n \in Run
        /\ n.started = r.started /\ n.state = r.state
        /\ n.target = Head(r.sleeping) /\ n.sleeping = Tail(r.sleeping)
        /\ n.context = r.context /\ n.reset = r.reset
        /\ n.blocker = r.blocker /\ n.consumed = r.consumed
    BY <1>1, <1>2, <2>1 DEF Run
  <2>3. n.target # NoQueue
    BY <1>2, <2>2
  <2>4. StartedInv(n)
    <3> HIDE DEF n, o
    <3> QED
      BY <1>1, <2>2, <2>3 DEF RunInv, StartedInv
  <2> QED
    BY <2>2, <2>4
<1> QED
  BY <1>4, <1>5

-----------------------------------------------------------------------------
(* Initial states and steps.                                               *)

\* Between two tasks any run is fine.
LEMMA IdleInv ==
  ASSUME NEW r
  PROVE  TaskInv(r, Idle)
<1>1. /\ Idle.phase = "idle" /\ Idle.signals = <<>> /\ Idle.due = FALSE
      /\ Idle.woken = 0
  BY DEF Idle
<1>2. Idle \in Task
  BY DEF Idle, Task
<1> QED
  BY <1>1, <1>2 DEF TaskInv

\* The first run is fresh.
LEMMA InitIInv == Init => IInv
<1> SUFFICES ASSUME Init PROVE IInv
  OBVIOUS
<1>1. RunInv(run) /\ RunInv(saved.run) /\ TaskInv(run, task)
      /\ TaskInv(saved.run, saved.task)
  <2>1. RunInv(run)
    <3>1. /\ FirstQueue \in Queues /\ InitialState \in States
          /\ <<>> \in Seq(Nat) /\ {} \in SUBSET Nat
      OBVIOUS
    <3>2. RunInv(FreshRun(FirstQueue, InitialState, <<>>, {}))
      BY <3>1, FreshRunInv
    <3> QED
      BY <3>2 DEF Init
  <2>2. saved.run = run /\ saved.task = Idle /\ task = Idle
    BY DEF Init
  <2> QED
    BY <2>1, <2>2, IdleInv
<1>2. TypeOK
  BY <1>1 DEF Init, TypeOK, RunInv, TaskInv
<1> QED
  BY <1>1, <1>2 DEF Init, IInv, Idle

\* Accepting a signal touches the inbox alone.
LEMMA AcceptIInv ==
  ASSUME IInv, NEW m \in Signal, Accept(m)
  PROVE  IInv'
<1>1. /\ status = "running" /\ sent < MaxSignals /\ sent' = sent + 1
      /\ inbox' = Append(inbox, m)
      /\ UNCHANGED <<status, run, runs, task, saved, lost>>
  BY DEF Accept
<1>2. inbox' \in Seq(Signal) /\ sent' \in 0..MaxSignals
  BY <1>1 DEF IInv, TypeOK
<1>3. TypeOK'
  BY <1>1, <1>2 DEF IInv, TypeOK
<1> QED
  BY <1>1, <1>3 DEF IInv

\* Whatever a client sends is a signal.
LEMMA ClientIInv == IInv /\ Client => IInv'
<1> SUFFICES ASSUME IInv, Client PROVE IInv'
  OBVIOUS
<1>1. sent + 1 \in Nat
  BY DEF IInv, TypeOK
<1>2. ASSUME NEW e \in Events, SendEvent(e) PROVE IInv'
  BY <1>1, <1>2, AcceptIInv DEF SendEvent, Signal, EventSignal
<1>3. ASSUME NEW q \in Queues, SendMigrate(q) PROVE IInv'
  BY <1>1, <1>3, AcceptIInv DEF SendMigrate, Signal, MigrateSignal
<1>4. ASSUME NEW q \in Queues, NEW s \in States, SendReset(q, s) PROVE IInv'
  BY <1>1, <1>4, AcceptIInv DEF SendReset, Signal, ResetSignal
<1> QED
  BY <1>2, <1>3, <1>4 DEF Client

\* A new task fits the run, and is remembered with it.
LEMMA BeginTaskIInv ==
  ASSUME IInv, NEW k \in 0..Len(run.sleeping), NEW due \in BOOLEAN,
         BeginTask(k, due)
  PROVE  IInv'
<1>1. /\ status = "running" /\ inbox' = <<>>
      /\ task' = [phase |-> IF run.started THEN "signals" ELSE "start",
                  signals |-> inbox, due |-> due, woken |-> k]
      /\ saved' = [run |-> run, task |-> task']
      /\ UNCHANGED <<status, sent, run, runs, lost>>
      /\ due => run.started /\ run.state \notin Final
  BY DEF BeginTask
<1>2. /\ TypeOK /\ RunInv(run) /\ inbox \in Seq(Signal)
      /\ run \in Run /\ run.sleeping \in Seq(Queues) /\ k \in Nat
      /\ k <= Len(run.sleeping)
  BY DEF IInv, TypeOK, RunInv, Run
<1>3. /\ task'.phase = IF run.started THEN "signals" ELSE "start"
      /\ task'.due = due /\ task'.woken = k /\ task' \in Task
  BY <1>1, <1>2 DEF Task
<1>4. TaskInv(run', task')
  BY <1>1, <1>2, <1>3 DEF TaskInv
<1>5. saved'.run = run /\ saved'.task = task' /\ saved' \in [run : Run, task : Task]
  BY <1>1, <1>2, <1>3
<1>6. TypeOK'
  BY <1>1, <1>2, <1>3, <1>5 DEF TypeOK
<1> QED
  BY <1>1, <1>2, <1>3, <1>4, <1>5, <1>6 DEF IInv

\* Starting the machine may complete the run, and nothing more.
LEMMA StartRunIInv == IInv /\ StartRun => IInv'
<1> SUFFICES ASSUME IInv, StartRun PROVE IInv'
  OBVIOUS
<1> DEFINE s == IF runs = 1 THEN run.state ELSE Receive[run.queue][run.state]
           r == [run EXCEPT !.started = TRUE]
<1>1. /\ task.phase = "start" /\ run' = Notify(r, s, run.context)
      /\ task' = [task EXCEPT !.phase = "signals"]
      /\ UNCHANGED <<status, inbox, sent, runs, saved, lost>>
  BY DEF StartRun
<1>2. /\ TypeOK /\ RunInv(run) /\ TaskInv(run, task) /\ run \in Run
      /\ task \in Task /\ run.blocker = Pending
  BY <1>1 DEF IInv, TypeOK, RunInv, TaskInv
<1>3. run.queue \in Queues /\ run.state \in States /\ run.context \in Seq(Nat)
  BY <1>2 DEF Run
<1>4. s \in States
  BY <1>3
<1>5. /\ r \in Run /\ r.started = TRUE /\ r.blocker = run.blocker
      /\ r.state = run.state /\ r.awaiting = run.awaiting
      /\ r.target = run.target /\ r.sleeping = run.sleeping
  BY <1>2 DEF Run
<1> HIDE DEF r, s
<1>6. StartedInv(r) /\ r.blocker # Completed
  BY <1>2, <1>5, OutcomesDiffer DEF StartedInv, RunInv
<1>7. StartedInv(run') /\ run'.sleeping = run.sleeping
  BY <1>1, <1>3, <1>4, <1>5, <1>6, NotifyInv
<1>8. /\ task'.phase = "signals" /\ task'.woken = task.woken /\ ~task'.due
      /\ task' \in Task
  BY <1>1, <1>2 DEF TaskInv, Task
<1>9. TaskInv(run', task')
  BY <1>1, <1>2, <1>7, <1>8 DEF TaskInv, StartedInv
<1>10. TypeOK'
  BY <1>1, <1>2, <1>7, <1>8 DEF TypeOK, StartedInv, RunInv
<1> QED
  BY <1>1, <1>7, <1>9, <1>10 DEF IInv, StartedInv

\* Handling a signal keeps the invariant of the run and of its task.
LEMMA NextSignalIInv == IInv /\ NextSignal => IInv'
<1> SUFFICES ASSUME IInv, NextSignal PROVE IInv'
  OBVIOUS
<1> DEFINE m == Head(task.signals)
<1>1. /\ task.phase = "signals" /\ task.signals # <<>>
      /\ run' = HandleSignal(run, m)
      /\ task' = [task EXCEPT !.signals = Tail(task.signals),
                              !.due = task.due /\ run'.state = run.state]
      /\ UNCHANGED <<status, inbox, sent, runs, saved, lost>>
  BY DEF NextSignal
<1>2. /\ TypeOK /\ RunInv(run) /\ TaskInv(run, task) /\ run.started
      /\ run.sleeping \in Seq(Queues)
      /\ task \in Task /\ task.signals \in Seq(Signal) /\ task.woken \in Nat
  BY <1>1 DEF IInv, RunInv, TaskInv, Task, Run
<1>3. m \in Signal /\ Tail(task.signals) \in Seq(Signal)
  BY <1>1, <1>2
<1> HIDE DEF m
<1>4. StartedInv(run') /\ Len(run.sleeping) <= Len(run'.sleeping)
  BY <1>1, <1>2, <1>3, HandleSignalInv DEF StartedInv
<1>5. run' \in Run /\ run'.sleeping \in Seq(Queues)
  BY <1>4 DEF StartedInv, RunInv, Run
<1>6. /\ task'.phase = "signals" /\ task'.woken = task.woken
      /\ task'.due = (task.due /\ run'.state = run.state) /\ task' \in Task
  BY <1>1, <1>2, <1>3 DEF Task
<1>7. TaskInv(run', task')
  <2>1. task.woken <= Len(run.sleeping) /\ (task.due => run.state \notin Final)
    BY <1>1, <1>2 DEF TaskInv
  <2>2. task'.woken <= Len(run'.sleeping)
    BY <1>2, <1>4, <1>5, <1>6, <2>1
  <2>3. task'.due => run'.state \notin Final
    BY <1>6, <2>1
  <2> QED
    BY <1>4, <1>6, <2>2, <2>3 DEF TaskInv, StartedInv
<1>8. TypeOK'
  BY <1>1, <1>2, <1>5, <1>6 DEF TypeOK
<1> QED
  BY <1>1, <1>4, <1>7, <1>8 DEF IInv, StartedInv

\* The end of the signals changes the phase alone.
LEMMA EndSignalsIInv == IInv /\ EndSignals => IInv'
<1> SUFFICES ASSUME IInv, EndSignals PROVE IInv'
  OBVIOUS
<1>1. /\ task.phase = "signals" /\ task.signals = <<>>
      /\ task' = [task EXCEPT !.phase = "rest"]
      /\ UNCHANGED <<status, inbox, sent, run, runs, saved, lost>>
  BY DEF EndSignals
<1>2. TypeOK /\ RunInv(run) /\ TaskInv(run, task) /\ task \in Task
  BY DEF IInv, TaskInv
<1>3. /\ task'.phase = "rest" /\ task'.woken = task.woken
      /\ task'.due = task.due /\ task'.signals = <<>> /\ task' \in Task
  BY <1>1, <1>2 DEF Task
<1>4. TaskInv(run', task') /\ TypeOK'
  BY <1>1, <1>2, <1>3 DEF TaskInv, TypeOK
<1> QED
  BY <1>1, <1>3, <1>4 DEF IInv

\* The machine's own event is a notification like any other.
LEMMA InternalEventIInv == IInv /\ InternalEvent => IInv'
<1> SUFFICES ASSUME IInv, InternalEvent PROVE IInv'
  OBVIOUS
<1> DEFINE s == Internal[run.queue][run.state]
<1>1. /\ task.phase = "rest" /\ task.due
      /\ run' = Notify(run, s, run.context)
      /\ task' = [task EXCEPT !.due = FALSE]
      /\ UNCHANGED <<status, inbox, sent, runs, saved, lost>>
  BY DEF InternalEvent
<1>2. /\ TypeOK /\ RunInv(run) /\ TaskInv(run, task) /\ task \in Task
      /\ run.started /\ run.state \notin Final
      /\ run.queue \in Queues /\ run.state \in States
      /\ run.context \in Seq(Nat)
  BY <1>1 DEF IInv, TaskInv, RunInv, Run
<1>3. s \in States
  BY <1>2
<1> HIDE DEF s
<1>4. StartedInv(run) /\ run.blocker # Completed
  BY <1>2 DEF StartedInv, RunInv
<1>5. StartedInv(run') /\ run'.sleeping = run.sleeping
  BY <1>1, <1>2, <1>3, <1>4, NotifyInv
<1>6. /\ task'.phase = "rest" /\ task'.woken = task.woken
      /\ task'.due = FALSE /\ task'.signals = task.signals /\ task' \in Task
  BY <1>1, <1>2 DEF Task
<1>7. TaskInv(run', task') /\ TypeOK'
  BY <1>1, <1>2, <1>5, <1>6 DEF TaskInv, TypeOK, StartedInv, RunInv
<1> QED
  BY <1>1, <1>5, <1>7 DEF IInv, StartedInv

\* A woken handleMigrate hands over only what may migrate, or subscribes.
LEMMA WakeIInv == IInv /\ Wake => IInv'
<1> SUFFICES ASSUME IInv, Wake PROVE IInv'
  OBVIOUS
<1>1. /\ task.phase = "rest" /\ task.woken > 0
      /\ run' = ResumeMigrate(run)
      /\ task' = [task EXCEPT !.woken = task.woken - 1]
      /\ UNCHANGED <<status, inbox, sent, runs, saved, lost>>
  BY DEF Wake
<1>2. /\ TypeOK /\ RunInv(run) /\ TaskInv(run, task) /\ task \in Task
      /\ run.started /\ run.sleeping \in Seq(Queues) /\ task.woken \in Nat
      /\ task.woken <= Len(run.sleeping)
  BY <1>1 DEF IInv, TaskInv, RunInv, Run, Task
<1>3. StartedInv(run) /\ Len(run.sleeping) > 0
  BY <1>1, <1>2 DEF StartedInv
<1>4. /\ StartedInv(run') /\ run'.sleeping = Tail(run.sleeping)
      /\ run'.state = run.state
  BY <1>1, <1>3, ResumeMigrateInv
<1>5. Len(Tail(run.sleeping)) = Len(run.sleeping) - 1
  BY <1>2, <1>3
<1>6. /\ task'.phase = "rest" /\ task'.woken = task.woken - 1
      /\ task'.due = task.due /\ task'.signals = task.signals /\ task' \in Task
  <2> DEFINE left == task.woken - 1
  <2>1. left \in Nat
    BY <1>1, <1>2
  <2> HIDE DEF left
  <2>2. task' = [task EXCEPT !.woken = left]
    BY <1>1 DEF left
  <2>3. /\ task'.phase = task.phase /\ task'.woken = left
        /\ task'.due = task.due /\ task'.signals = task.signals /\ task' \in Task
    BY <1>2, <2>1, <2>2 DEF Task
  <2> QED
    BY <1>1, <2>3 DEF left
<1>7. task'.woken <= Len(run'.sleeping)
  BY <1>1, <1>2, <1>4, <1>5, <1>6
<1>8. TaskInv(run', task') /\ TypeOK'
  BY <1>1, <1>2, <1>4, <1>6, <1>7 DEF TaskInv, TypeOK, StartedInv, RunInv
<1> QED
  BY <1>1, <1>4, <1>8 DEF IInv, StartedInv

\* A task that closes nothing leaves the run as it is.
LEMMA YieldTaskIInv == IInv /\ YieldTask => IInv'
<1> SUFFICES ASSUME IInv, YieldTask PROVE IInv'
  OBVIOUS
<1>1. /\ TaskDone /\ task' = Idle
      /\ UNCHANGED <<status, inbox, sent, run, runs, saved, lost>>
  BY DEF YieldTask
<1>2. TaskInv(run', task') /\ Idle \in Task /\ Idle.phase = "idle"
  BY <1>1, IdleInv DEF TaskInv, Idle
<1> QED
  BY <1>1, <1>2 DEF IInv, TypeOK, TaskDone

\* A replay goes back to a state that satisfied the invariant.
LEMMA ReplayIInv == IInv /\ (RefuseTask \/ FailTask) => IInv'
<1> SUFFICES ASSUME IInv, RefuseTask \/ FailTask PROVE IInv'
  OBVIOUS
<1> DEFINE signals == saved.task.signals \o inbox
<1>1. /\ run' = saved.run /\ inbox' = <<>>
      /\ task' = [saved.task EXCEPT !.signals = signals]
      /\ saved' = [saved EXCEPT !.task = task']
      /\ UNCHANGED <<status, sent, runs, lost>>
      /\ task.phase # "idle"
  BY DEF RefuseTask, FailTask, Replay, TaskDone
<1>2. /\ TypeOK /\ RunInv(saved.run) /\ TaskInv(saved.run, saved.task)
      /\ saved.task \in Task /\ saved.task.signals \in Seq(Signal)
      /\ inbox \in Seq(Signal) /\ saved \in [run : Run, task : Task]
  BY DEF IInv, TypeOK, TaskInv, Task
<1>3. signals \in Seq(Signal)
  BY <1>2
<1> HIDE DEF signals
<1>4. /\ task'.phase = saved.task.phase /\ task'.woken = saved.task.woken
      /\ task'.due = saved.task.due /\ task' \in Task
  BY <1>1, <1>2, <1>3 DEF Task
<1>5. saved'.run = saved.run /\ saved'.task = task' /\ saved' \in [run : Run, task : Task]
  BY <1>1, <1>2, <1>4
<1>6. TaskInv(run', task')
  BY <1>1, <1>2, <1>4 DEF IInv, TaskInv
<1>7. TypeOK'
  BY <1>1, <1>2, <1>4, <1>5, <1>6 DEF TypeOK, RunInv
<1> QED
  BY <1>1, <1>2, <1>4, <1>5, <1>6, <1>7 DEF IInv

\* A completed workflow has its machine in a final state.
LEMMA CompleteIInv == IInv /\ Complete => IInv'
<1> SUFFICES ASSUME IInv, Complete PROVE IInv'
  OBVIOUS
<1>1. /\ TaskDone /\ inbox = <<>> /\ Completed \in Closing
      /\ status' = "completed" /\ task' = Idle
      /\ UNCHANGED <<inbox, sent, run, runs, saved, lost>>
  BY DEF Complete
<1>2. RunInv(run) /\ run.reset \in {Pending} \cup Continuation
  BY DEF IInv, RunInv, Run
<1>3. run.blocker = Completed
  BY <1>1, <1>2, OutcomesDiffer DEF Closing
<1>4. run.state \in Final
  BY <1>2, <1>3 DEF RunInv
<1>5. TaskInv(run', task') /\ Idle \in Task /\ Idle.phase = "idle"
  BY <1>1, IdleInv DEF TaskInv, Idle
<1> QED
  BY <1>1, <1>4, <1>5 DEF IInv, TypeOK

\* What may close a run, other than its completion, is a continuation.
LEMMA ClosingContinues ==
  ASSUME IInv, NEW c \in Closing \ {Completed}
  PROVE  /\ c \in Continuation
         /\ \/ c = run.reset /\ run.reset # Pending
            \/ c = run.blocker /\ Continues(c)
  BY OutcomesDiffer DEF IInv, RunInv, Run, Closing, Continues, Outcome

\* The next run is fresh, in the state the payload names.
LEMMA NextRunIInv ==
  ASSUME IInv, NEW c \in Closing, NextRun(c)
  PROVE  IInv'
<1> DEFINE gone == Elems(run.context) \ Elems(c.context)
           used == IF c.via = "reset" THEN run.consumed \cup gone
                                      ELSE run.consumed
<1>1. /\ TaskDone /\ c \in Closing \ {Completed}
      /\ run' = FreshRun(c.queue, c.state, c.context, used)
      /\ lost' = IF c.via = "reset" THEN lost ELSE lost \cup gone
      /\ runs' = runs + 1 /\ task' = Idle
      /\ UNCHANGED <<status, inbox, sent, saved>>
  BY DEF NextRun
<1>2. c \in Continuation
  BY <1>1, ClosingContinues
<1>3. c.queue \in Queues /\ c.state \in States /\ c.context \in Seq(Nat)
  BY <1>2 DEF Continuation
<1>4. /\ run.context \in Seq(Nat) /\ run.consumed \in SUBSET Nat
      /\ lost \in SUBSET Nat /\ runs \in Nat
  BY DEF IInv, TypeOK, RunInv, Run
<1>5. gone \in SUBSET Nat
  BY <1>4 DEF Elems
<1> HIDE DEF gone
<1>6. used \in SUBSET Nat /\ lost' \in SUBSET Nat /\ runs' \in Nat
  <2>1. run.consumed \cup gone \in SUBSET Nat /\ lost \cup gone \in SUBSET Nat
    BY <1>4, <1>5
  <2>2. used \in SUBSET Nat
    BY <1>4, <2>1
  <2>3. lost' \in SUBSET Nat
    BY <1>1, <1>4, <2>1
  <2> QED
    BY <1>1, <1>4, <2>2, <2>3
<1> HIDE DEF used
<1>7. RunInv(run')
  BY <1>1, <1>3, <1>6, FreshRunInv
<1>8. TaskInv(run', task') /\ Idle \in Task /\ Idle.phase = "idle"
  BY <1>1, IdleInv DEF TaskInv, Idle
<1>9. TypeOK'
  BY <1>1, <1>6, <1>7, <1>8 DEF IInv, TypeOK, RunInv
<1> QED
  BY <1>1, <1>7, <1>8, <1>9 DEF IInv, TaskDone

\* IInv is inductive.
LEMMA NextIInv == IInv /\ [Next]_vars => IInv'
<1> SUFFICES ASSUME IInv, [Next]_vars PROVE IInv'
  OBVIOUS
<1>1. CASE UNCHANGED vars
  BY <1>1 DEF IInv, vars, TypeOK
<1>2. CASE Begin
  BY <1>2, BeginTaskIInv DEF Begin
<1>3. CASE Code
  BY <1>3, StartRunIInv, NextSignalIInv, EndSignalsIInv, InternalEventIInv,
     WakeIInv DEF Code
<1>4. CASE Close
  BY <1>4, YieldTaskIInv, ReplayIInv, CompleteIInv, NextRunIInv
     DEF Close
<1> QED
  BY <1>1, <1>2, <1>3, <1>4, ClientIInv DEF Next

\* IInv holds in every state of the model.
LEMMA IInvHolds == Spec => []IInv
  BY InitIInv, NextIInv, PTL DEF Spec

-----------------------------------------------------------------------------
(* Theorems.                                                               *)

\* Every variable keeps its type.
THEOREM TypeCorrect == Spec => []TypeOK
<1>1. IInv => TypeOK
  BY DEF IInv
<1> QED
  BY <1>1, IInvHolds, PTL

\* A run that keeps a finished machine from completing the workflow has a
\* subscription that will continue as new in its place, or has settled already.
THEOREM WaitingRunsAreSubscribed == Spec => []WaitingIsSubscribed
<1>1. IInv => WaitingIsSubscribed
  BY DEF IInv, RunInv, WaitingIsSubscribed
<1> QED
  BY <1>1, IInvHolds, PTL

\* A workflow completes only with its machine done and no signal unread.
THEOREM CompletionIsClean == Spec => []CompletesClean
<1>1. IInv => CompletesClean
  BY DEF IInv, CompletesClean
<1> QED
  BY <1>1, IInvHolds, PTL

\* No hand-over except a reset passes on a state that canMigrate refuses, even
\* if the request is old, was replaced, or the task was replayed.
THEOREM MigrationsAreAllowed == Spec => MigratesOnlyWhenAllowed
<1> DEFINE Allowed == runs' # runs => run.reset # Pending \/ CanMigrate(run'.state)
<1>1. IInv /\ [Next]_vars => [Allowed]_vars
  <2> SUFFICES ASSUME IInv, Next, runs' # runs
               PROVE  run.reset # Pending \/ CanMigrate(run'.state)
    BY DEF vars
  <2>1. PICK c \in Closing : NextRun(c)
    BY DEF Next, Client, SendEvent, SendMigrate, SendReset, Accept, Begin,
           BeginTask, Code, StartRun, NextSignal, EndSignals, InternalEvent,
           Wake, Close, YieldTask, RefuseTask, FailTask, Replay, Complete
  <2>2. c \in Closing \ {Completed} /\ run'.state = c.state
    BY <2>1 DEF NextRun, FreshRun
  <2>3. CASE c = run.reset /\ run.reset # Pending
    BY <2>3
  <2>4. CASE c = run.blocker /\ Continues(c)
    BY <2>2, <2>4 DEF IInv, RunInv
  <2> QED
    BY <2>2, <2>3, <2>4, ClosingContinues
<1> QED
  BY <1>1, IInvHolds, PTL DEF Spec, MigratesOnlyWhenAllowed

-----------------------------------------------------------------------------
(* No signal vanishes.                                                     *)

\* The ids a run has dealt with.
Handled(r) == Elems(r.context) \cup r.consumed

\* A handler deals with its signal and forgets none.
LEMMA HandleSignalAccounts ==
  ASSUME NEW r, StartedInv(r), NEW m \in Signal
  PROVE  Handled(r) \cup {m.id} \subseteq Handled(HandleSignal(r, m))
<1> DEFINE n == HandleSignal(r, m)
<1>1. /\ r \in Run /\ r.queue \in Queues /\ r.state \in States
      /\ r.context \in Seq(Nat) /\ RunInv(r) /\ m.id \in Nat
  BY SignalKinds DEF StartedInv, RunInv, Run
<1>2. CASE m.kind = "event" /\ ~(m.event \in Undecodable \/ r.state \in Final)
  <2> DEFINE s == Machine[r.queue][r.state][m.event]
             c == Append(r.context, m.id)
  <2>1. m.event \in Events
    BY <1>2, SignalKinds
  <2>2. s \in States /\ c \in Seq(Nat) /\ Elems(c) = Elems(r.context) \cup {m.id}
    BY <1>1, <2>1, ElemsAppend
  <2>3. n = Notify(r, s, c)
    BY <1>2 DEF HandleSignal, HandleEvent
  <2>4. r.blocker # Completed
    BY <1>1, <1>2 DEF RunInv
  <2> HIDE DEF n, s, c
  <2>5. n.context = c /\ n.consumed = r.consumed
    BY <2>2, <2>3, <2>4, NotifyInv
  <2>6. Handled(r) \cup {m.id} \subseteq Handled(n)
    BY <2>2, <2>5 DEF Handled
  <2> QED
    BY <2>6 DEF n
<1>3. CASE ~(m.kind = "event" /\ ~(m.event \in Undecodable \/ r.state \in Final))
  <2>1. n.context = r.context /\ n.consumed = r.consumed \cup {m.id}
    <3>1. CASE m.kind = "event"
      BY <1>1, <1>3, <3>1 DEF HandleSignal, HandleEvent, Run
    <3>2. CASE m.kind = "migrate"
      BY <1>1, <3>2 DEF HandleSignal, HandleMigrate, Run
    <3>3. CASE m.kind = "reset"
      BY <1>1, <3>3 DEF HandleSignal, HandleReset, Run
    <3> QED
      BY <3>1, <3>2, <3>3, SignalKinds
  <2> QED
    BY <2>1 DEF Handled
<1> QED
  BY <1>2, <1>3

\* Ids still on their way to the run, and the invariant: seen from the run and
\* from the state a refused task would go back to.
Accounted(r, t) ==
  1..sent \subseteq Handled(r) \cup Ids(t.signals) \cup lost \cup Ids(inbox)

AInv ==
  /\ status = "running" => Accounted(run, task)
  /\ task.phase # "idle" => /\ Accounted(saved.run, saved.task)
                            /\ saved.task.phase # "idle"
  /\ task.phase = "idle" => task.signals = <<>>

\* No signal has been sent at first.
LEMMA InitAInv == Init => AInv
<1> SUFFICES ASSUME Init PROVE AInv
  OBVIOUS
<1>1. sent = 0 /\ task = Idle
  BY DEF Init
<1>2. 1..sent = {}
  BY <1>1
<1> QED
  BY <1>1, <1>2 DEF AInv, Accounted, Idle

\* An accepted signal waits in the inbox.
LEMMA AcceptAInv ==
  ASSUME IInv, AInv, NEW m \in Signal, m.id = sent + 1, Accept(m)
  PROVE  AInv'
<1>1. /\ status = "running" /\ sent' = sent + 1 /\ inbox' = Append(inbox, m)
      /\ UNCHANGED <<status, run, runs, task, saved, lost>>
  BY DEF Accept
<1>2. inbox \in Seq(Signal) /\ sent \in Nat
  BY DEF IInv, TypeOK
<1>3. Ids(inbox') = Ids(inbox) \cup {sent + 1}
  BY <1>1, <1>2, IdsAppend
<1>4. 1..sent' = 1..sent \cup {sent + 1}
  BY <1>1, <1>2
<1> QED
  BY <1>1, <1>3, <1>4 DEF AInv, Accounted, Handled

\* Taking the inbox into a task moves the signals and loses none.
LEMMA BeginTaskAInv ==
  ASSUME IInv, AInv, NEW k, NEW due, BeginTask(k, due)
  PROVE  AInv'
<1>1. /\ status = "running" /\ task.phase = "idle" /\ inbox' = <<>>
      /\ task'.signals = inbox /\ task'.phase # "idle"
      /\ saved'.run = run /\ saved'.task = task'
      /\ UNCHANGED <<status, sent, run, runs, lost>>
  BY DEF BeginTask
<1>2. Accounted(run, task) /\ Ids(task.signals) = {}
  BY <1>1, IdsEmpty DEF AInv
<1>3. 1..sent \subseteq Handled(run) \cup Ids(inbox) \cup lost
  BY <1>2 DEF Accounted
<1> QED
  BY <1>1, <1>3 DEF AInv, Accounted, Handled

\* Starting the machine keeps the context.
LEMMA StartRunAInv == IInv /\ AInv /\ StartRun => AInv'
<1> SUFFICES ASSUME IInv, AInv, StartRun PROVE AInv'
  OBVIOUS
<1> DEFINE s == IF runs = 1 THEN run.state ELSE Receive[run.queue][run.state]
           r == [run EXCEPT !.started = TRUE]
<1>1. /\ task.phase = "start" /\ run' = Notify(r, s, run.context)
      /\ task' = [task EXCEPT !.phase = "signals"]
      /\ UNCHANGED <<status, inbox, sent, runs, saved, lost>>
  BY DEF StartRun
<1>2. /\ RunInv(run) /\ run \in Run /\ task \in Task /\ run.blocker = Pending
  BY <1>1 DEF IInv, RunInv, TaskInv
<1>3. run.queue \in Queues /\ run.state \in States /\ run.context \in Seq(Nat)
  BY <1>2 DEF Run
<1>4. s \in States
  BY <1>3
<1>5. /\ r \in Run /\ r.started = TRUE /\ r.blocker = run.blocker
      /\ r.state = run.state /\ r.awaiting = run.awaiting
      /\ r.target = run.target /\ r.consumed = run.consumed
  BY <1>2 DEF Run
<1> HIDE DEF r, s
<1>6. StartedInv(r) /\ r.blocker # Completed
  BY <1>2, <1>5, OutcomesDiffer DEF StartedInv, RunInv
<1>7. run'.context = run.context /\ run'.consumed = run.consumed
  BY <1>1, <1>3, <1>4, <1>5, <1>6, NotifyInv
<1>8. task'.signals = task.signals /\ task'.phase = "signals"
  BY <1>1, <1>2 DEF Task
<1> QED
  BY <1>1, <1>7, <1>8 DEF AInv, Accounted, Handled

\* A signal taken off the task is dealt with by the run.
LEMMA NextSignalAInv == IInv /\ AInv /\ NextSignal => AInv'
<1> SUFFICES ASSUME IInv, AInv, NextSignal PROVE AInv'
  OBVIOUS
<1> DEFINE m == Head(task.signals)
<1>1. /\ task.phase = "signals" /\ task.signals # <<>>
      /\ run' = HandleSignal(run, m)
      /\ task' = [task EXCEPT !.signals = Tail(task.signals),
                              !.due = task.due /\ run'.state = run.state]
      /\ UNCHANGED <<status, inbox, sent, runs, saved, lost>>
  BY DEF NextSignal
<1>2. /\ RunInv(run) /\ run.started /\ task \in Task
      /\ task.signals \in Seq(Signal)
  BY <1>1 DEF IInv, RunInv, TaskInv, Task
<1>3. m \in Signal
  BY <1>1, <1>2
<1>4. Ids(task.signals) \subseteq {m.id} \cup Ids(Tail(task.signals))
  BY <1>1, <1>2, IdsHeadTail
<1> HIDE DEF m
<1>5. Handled(run) \cup {m.id} \subseteq Handled(run')
  BY <1>1, <1>2, <1>3, HandleSignalAccounts DEF StartedInv
<1>6. task'.signals = Tail(task.signals) /\ task'.phase = "signals"
  BY <1>1, <1>2 DEF Task
<1> QED
  BY <1>1, <1>4, <1>5, <1>6 DEF AInv, Accounted

\* What the machine does by itself, and what a migration waits for, touches no
\* signal.
LEMMA RestAInv == IInv /\ AInv /\ (InternalEvent \/ Wake \/ EndSignals) => AInv'
<1> SUFFICES ASSUME IInv, AInv, InternalEvent \/ Wake \/ EndSignals PROVE AInv'
  OBVIOUS
<1>1. RunInv(run) /\ TaskInv(run, task) /\ task \in Task
  BY DEF IInv, TaskInv
<1>2. CASE EndSignals
  <2>1. /\ UNCHANGED <<status, inbox, sent, run, runs, saved, lost>>
        /\ task.phase = "signals" /\ task' = [task EXCEPT !.phase = "rest"]
    BY <1>2 DEF EndSignals
  <2>2. task'.signals = task.signals /\ task'.phase = "rest"
    BY <1>1, <2>1 DEF Task
  <2> QED
    BY <2>1, <2>2 DEF AInv, Accounted, Handled
<1>3. CASE InternalEvent
  <2> DEFINE s == Internal[run.queue][run.state]
  <2>1. /\ task.phase = "rest" /\ task.due /\ run' = Notify(run, s, run.context)
        /\ task' = [task EXCEPT !.due = FALSE]
        /\ UNCHANGED <<status, inbox, sent, runs, saved, lost>>
    BY <1>3 DEF InternalEvent
  <2>2. /\ run.started /\ run.state \notin Final /\ run.queue \in Queues
        /\ run.state \in States /\ run.context \in Seq(Nat)
    BY <1>1, <2>1 DEF TaskInv, RunInv, Run
  <2>3. s \in States
    BY <2>2
  <2> HIDE DEF s
  <2>4. StartedInv(run) /\ run.blocker # Completed
    BY <1>1, <2>2 DEF StartedInv, RunInv
  <2>5. run'.context = run.context /\ run'.consumed = run.consumed
    BY <2>1, <2>2, <2>3, <2>4, NotifyInv
  <2>6. task'.signals = task.signals /\ task'.phase = "rest"
    BY <1>1, <2>1 DEF Task
  <2> QED
    BY <2>1, <2>5, <2>6 DEF AInv, Accounted, Handled
<1>4. CASE Wake
  <2>1. /\ task.phase = "rest" /\ task.woken > 0 /\ run' = ResumeMigrate(run)
        /\ task' = [task EXCEPT !.woken = task.woken - 1]
        /\ UNCHANGED <<status, inbox, sent, runs, saved, lost>>
    BY <1>4 DEF Wake
  <2>2. /\ run.started /\ run.sleeping \in Seq(Queues) /\ task.woken \in Nat
        /\ task.woken <= Len(run.sleeping)
    BY <1>1, <2>1 DEF TaskInv, RunInv, Run, Task
  <2>3. StartedInv(run) /\ Len(run.sleeping) > 0
    BY <1>1, <2>1, <2>2 DEF StartedInv
  <2>4. run'.context = run.context /\ run'.consumed = run.consumed
    BY <2>1, <2>3, ResumeMigrateInv
  <2>5. task'.signals = task.signals /\ task'.phase = "rest"
    BY <1>1, <2>1 DEF Task
  <2> QED
    BY <2>1, <2>4, <2>5 DEF AInv, Accounted, Handled
<1> QED
  BY <1>2, <1>3, <1>4

\* However a task ends, what it did not settle goes to the next run, to the
\* replay, or to lost.
LEMMA CloseAInv == IInv /\ AInv /\ Close => AInv'
<1> SUFFICES ASSUME IInv, AInv, Close PROVE AInv'
  OBVIOUS
<1>1. TaskInv(run, task) /\ Idle.phase = "idle" /\ Idle.signals = <<>>
  BY DEF IInv, Idle
<1>2. TaskDone => task.signals = <<>> /\ task.phase # "idle"
  BY <1>1 DEF TaskDone, TaskInv
<1>3. CASE YieldTask
  BY <1>1, <1>2, <1>3 DEF YieldTask, AInv, Accounted, Handled
<1>4. CASE Complete
  BY <1>1, <1>2, <1>4 DEF Complete, AInv
<1>5. CASE RefuseTask \/ FailTask
  <2> DEFINE signals == saved.task.signals \o inbox
  <2>1. /\ run' = saved.run /\ inbox' = <<>>
        /\ task' = [saved.task EXCEPT !.signals = signals]
        /\ saved' = [saved EXCEPT !.task = task']
        /\ UNCHANGED <<status, sent, runs, lost>>
        /\ task.phase # "idle"
    BY <1>5 DEF RefuseTask, FailTask, Replay, TaskDone
  <2>2. /\ saved \in [run : Run, task : Task] /\ saved.task \in Task
        /\ saved.task.signals \in Seq(Signal) /\ inbox \in Seq(Signal)
    BY DEF IInv, TypeOK, TaskInv, Task
  <2>3. Ids(saved.task.signals) \cup Ids(inbox) \subseteq Ids(signals)
    BY <2>2, IdsConcat
  <2> HIDE DEF signals
  <2>4. task'.signals = signals /\ saved'.run = saved.run /\ saved'.task = task'
        /\ task'.phase = saved.task.phase
    BY <2>1, <2>2 DEF Task
  <2>5. Accounted(saved.run, saved.task)
    BY <1>2, <2>1 DEF AInv
  <2>6. 1..sent \subseteq Handled(saved.run) \cup Ids(signals) \cup lost
    BY <2>3, <2>5 DEF Accounted
  <2>7. Accounted(run, task)' /\ Accounted(saved.run, saved.task)'
    BY <2>1, <2>4, <2>6 DEF Accounted, Handled
  <2>8. task'.phase # "idle"
    BY <1>2, <2>1, <2>4 DEF AInv
  <2> QED
    BY <2>4, <2>7, <2>8 DEF AInv
<1>6. ASSUME NEW c \in Closing, NextRun(c) PROVE AInv'
  <2> DEFINE gone == Elems(run.context) \ Elems(c.context)
             used == IF c.via = "reset" THEN run.consumed \cup gone
                                        ELSE run.consumed
  <2>1. /\ TaskDone /\ run' = FreshRun(c.queue, c.state, c.context, used)
        /\ lost' = IF c.via = "reset" THEN lost ELSE lost \cup gone
        /\ task' = Idle /\ UNCHANGED <<status, inbox, sent, saved>>
    BY <1>6 DEF NextRun
  <2>2. run'.context = c.context /\ run'.consumed = used
    BY <2>1 DEF FreshRun
  <2>3. Handled(run) \cup lost \subseteq Handled(run') \cup lost'
    BY <2>1, <2>2 DEF Handled
  <2>4. status = "running" => Accounted(run, task)'
    BY <1>1, <1>2, <2>1, <2>3, IdsEmpty DEF AInv, Accounted
  <2> QED
    BY <1>1, <2>1, <2>4 DEF AInv
<1> QED
  BY <1>3, <1>4, <1>5, <1>6 DEF Close

\* An accepted signal is in the machine's context, about to be handled, used up
\* on purpose, or was handled by a run that had already decided what the next
\* one would know; replays, resets and migrations lose no other.
THEOREM SignalsAreAccounted == Spec => []AllAccounted
<1>1. AInv => AllAccounted
  BY DEF AInv, Accounted, AllAccounted, Handled
<1>2. IInv /\ AInv /\ [Next]_vars => AInv'
  <2> SUFFICES ASSUME IInv, AInv, [Next]_vars PROVE AInv'
    OBVIOUS
  <2>1. CASE UNCHANGED vars
    BY <2>1 DEF AInv, Accounted, Handled, vars
  <2>2. CASE Client
    <3>1. sent + 1 \in Nat
      BY DEF IInv, TypeOK
    <3>2. ASSUME NEW e \in Events, SendEvent(e) PROVE AInv'
      BY <3>1, <3>2, AcceptAInv DEF SendEvent, Signal, EventSignal
    <3>3. ASSUME NEW q \in Queues, SendMigrate(q) PROVE AInv'
      BY <3>1, <3>3, AcceptAInv DEF SendMigrate, Signal, MigrateSignal
    <3>4. ASSUME NEW q \in Queues, NEW s \in States, SendReset(q, s) PROVE AInv'
      BY <3>1, <3>4, AcceptAInv DEF SendReset, Signal, ResetSignal
    <3> QED
      BY <2>2, <3>2, <3>3, <3>4 DEF Client
  <2>3. CASE Begin
    BY <2>3, BeginTaskAInv DEF Begin
  <2>4. CASE Code
    BY <2>4, StartRunAInv, NextSignalAInv, RestAInv DEF Code
  <2> QED
    BY <2>1, <2>2, <2>3, <2>4, CloseAInv DEF Next
<1> QED
  BY <1>1, <1>2, InitAInv, IInvHolds, PTL DEF Spec

-----------------------------------------------------------------------------
(* A migration that happens at once loses nothing.                         *)

AtOnce(outcome) == Continues(outcome) /\ outcome.via = "at once"

\* Only a woken handleMigrate settles a run to continue at once, so it does it
\* after the signals of the task, and with the context that stays to the end.
SnapshotInv(r) ==
  /\ r.reset # Pending => r.reset.via = "reset"
  /\ AtOnce(r.blocker) => r.blocker.context = r.context

SInv ==
  /\ SnapshotInv(run) /\ SnapshotInv(saved.run)
  /\ task.phase # "rest" => ~AtOnce(run.blocker)
  /\ ~AtOnce(saved.run.blocker)

\* A notification settles the blocker as completed or as deferred.
LEMMA NotifySnapshot ==
  ASSUME NEW r \in Run, SnapshotInv(r), NEW s, NEW c,
         c = r.context \/ ~AtOnce(r.blocker)
  PROVE  /\ SnapshotInv(Notify(r, s, c))
         /\ ~AtOnce(r.blocker) => ~AtOnce(Notify(r, s, c).blocker)
<1> DEFINE n == Notify(r, s, c)
           o == ContinueAsNew("deferred", r.target, s, c)
<1>1. /\ n.context = c /\ n.reset = r.reset
      /\ n.blocker \in {r.blocker, Completed, o}
  BY DEF Notify, Run, Settle
<1>2. o.via = "deferred"
  BY DEF ContinueAsNew
<1> HIDE DEF n, o
<1>3. SnapshotInv(n) /\ (~AtOnce(r.blocker) => ~AtOnce(n.blocker))
  BY <1>1, <1>2 DEF SnapshotInv, AtOnce, Continues
<1> QED
  BY <1>3 DEF n

\* No signal continues as new at once.
LEMMA HandleSignalSnapshot ==
  ASSUME NEW r \in Run, SnapshotInv(r), ~AtOnce(r.blocker), NEW m \in Signal
  PROVE  /\ SnapshotInv(HandleSignal(r, m))
         /\ ~AtOnce(HandleSignal(r, m).blocker)
<1> DEFINE n == HandleSignal(r, m)
<1>1. CASE m.kind = "event" /\ ~(m.event \in Undecodable \/ r.state \in Final)
  <2> DEFINE s == Machine[r.queue][r.state][m.event]
             c == Append(r.context, m.id)
  <2>1. n = Notify(r, s, c)
    BY <1>1 DEF HandleSignal, HandleEvent
  <2> HIDE DEF n, s, c
  <2>2. SnapshotInv(n) /\ ~AtOnce(n.blocker)
    BY <2>1, NotifySnapshot
  <2> QED
    BY <2>2 DEF n
<1>2. CASE m.kind = "event" /\ (m.event \in Undecodable \/ r.state \in Final)
  <2>1. n.target = r.target /\ n.reset = r.reset /\ n.blocker = r.blocker
    BY <1>2 DEF HandleSignal, HandleEvent, Run
  <2> QED
    BY <2>1 DEF SnapshotInv
<1>3. CASE m.kind = "migrate"
  <2>1. n.target = r.target /\ n.reset = r.reset /\ n.blocker = r.blocker
    BY <1>3 DEF HandleSignal, HandleMigrate, Run
  <2> QED
    BY <2>1 DEF SnapshotInv
<1>4. CASE m.kind = "reset"
  <2> DEFINE o == ContinueAsNew("reset", m.queue, m.state, <<>>)
  <2>1. /\ n.target = r.target /\ n.blocker = r.blocker
        /\ n.reset = Settle(r.reset, o)
    BY <1>4 DEF HandleSignal, HandleReset, Run
  <2>2. o.via = "reset"
    BY DEF ContinueAsNew
  <2> HIDE DEF n, o
  <2>3. SnapshotInv(n) /\ ~AtOnce(n.blocker)
    BY <2>1, <2>2 DEF SnapshotInv, Settle
  <2> QED
    BY <2>3 DEF n
<1> QED
  BY <1>1, <1>2, <1>3, <1>4, SignalKinds

\* A woken handleMigrate that goes on at once hands over the context as it is.
LEMMA ResumeMigrateSnapshot ==
  ASSUME NEW r \in Run, SnapshotInv(r)
  PROVE  SnapshotInv(ResumeMigrate(r))
<1> DEFINE n == ResumeMigrate(r)
           o == ContinueAsNew("at once", Head(r.sleeping), r.state, r.context)
<1>1. /\ n.reset = r.reset /\ n.context = r.context
      /\ n.blocker = r.blocker \/ n.blocker = Settle(r.blocker, o)
  BY DEF ResumeMigrate, Run
<1>2. o.context = r.context
  BY DEF ContinueAsNew
<1> HIDE DEF n, o
<1>3. SnapshotInv(n)
  BY <1>1, <1>2 DEF SnapshotInv, Settle
<1> QED
  BY <1>3 DEF n

\* Until the signals of a task are handled nothing continues at once.
LEMMA CodeSInv == IInv /\ SInv /\ Code => SInv'
<1> SUFFICES ASSUME IInv, SInv, Code PROVE SInv'
  OBVIOUS
<1>1. /\ UNCHANGED <<saved, lost>> /\ run \in Run /\ task \in Task
      /\ task.signals \in Seq(Signal) /\ run.state \in States
  BY DEF Code, StartRun, NextSignal, EndSignals, InternalEvent, Wake, IInv,
         RunInv, TaskInv, Run, Task
<1>2. CASE StartRun
  <2> DEFINE s == IF runs = 1 THEN run.state ELSE Receive[run.queue][run.state]
             r == [run EXCEPT !.started = TRUE]
  <2>1. task.phase = "start" /\ run' = Notify(r, s, run.context)
    BY <1>2 DEF StartRun
  <2>2. /\ r \in Run /\ r.context = run.context /\ r.target = run.target
        /\ r.reset = run.reset /\ r.blocker = run.blocker
    BY <1>1 DEF Run
  <2> HIDE DEF r, s
  <2>3. SnapshotInv(r) /\ ~AtOnce(r.blocker)
    BY <2>1, <2>2 DEF SInv, SnapshotInv
  <2>4. SnapshotInv(run') /\ ~AtOnce(run'.blocker)
    BY <2>1, <2>2, <2>3, NotifySnapshot
  <2> QED
    BY <1>1, <2>4 DEF SInv
<1>3. CASE NextSignal
  <2> DEFINE m == Head(task.signals)
  <2>1. task.phase = "signals" /\ task.signals # <<>> /\ run' = HandleSignal(run, m)
    BY <1>3 DEF NextSignal
  <2>2. m \in Signal
    BY <1>1, <2>1
  <2> HIDE DEF m
  <2>3. SnapshotInv(run') /\ ~AtOnce(run'.blocker)
    BY <1>1, <2>1, <2>2, HandleSignalSnapshot DEF SInv
  <2> QED
    BY <1>1, <2>3 DEF SInv
<1>4. CASE EndSignals
  <2>1. run' = run /\ ~AtOnce(run.blocker)
    BY <1>4 DEF EndSignals, SInv
  <2> QED
    BY <1>1, <2>1 DEF SInv
<1>5. CASE InternalEvent
  <2> DEFINE s == Internal[run.queue][run.state]
  <2>1. /\ task.phase = "rest" /\ run' = Notify(run, s, run.context)
        /\ task' = [task EXCEPT !.due = FALSE]
    BY <1>5 DEF InternalEvent
  <2> HIDE DEF s
  <2>2. task'.phase = "rest"
    BY <1>1, <2>1 DEF Task
  <2>3. SnapshotInv(run')
    BY <1>1, <2>1, NotifySnapshot DEF SInv
  <2> QED
    BY <1>1, <2>2, <2>3 DEF SInv
<1>6. CASE Wake
  <2>1. /\ task.phase = "rest" /\ run' = ResumeMigrate(run)
        /\ task' = [task EXCEPT !.woken = task.woken - 1]
    BY <1>6 DEF Wake
  <2>2. task'.phase = "rest"
    BY <1>1, <2>1 DEF Task
  <2>3. SnapshotInv(run')
    BY <1>1, <2>1, ResumeMigrateSnapshot DEF SInv
  <2> QED
    BY <1>1, <2>2, <2>3 DEF SInv
<1> QED
  BY <1>2, <1>3, <1>4, <1>5, <1>6 DEF Code

\* A new run has settled nothing, and a refused task brings back one that had
\* not settled to continue at once.
LEMMA CloseSInv == IInv /\ SInv /\ Close => SInv'
<1> SUFFICES ASSUME IInv, SInv, Close PROVE SInv'
  OBVIOUS
<1>1. CASE YieldTask
  <2>1. UNCHANGED <<run, saved, lost>> /\ Closing = {}
    BY <1>1 DEF YieldTask
  <2>2. run.blocker = Pending
    BY <2>1 DEF Closing
  <2> QED
    BY <2>1, <2>2 DEF SInv, AtOnce, Continues
<1>2. CASE RefuseTask \/ FailTask
  <2>1. /\ run' = saved.run /\ lost' = lost
        /\ saved' = [saved EXCEPT !.task = task']
    BY <1>2 DEF RefuseTask, FailTask, Replay
  <2>2. saved'.run = saved.run
    BY <2>1 DEF IInv, TypeOK
  <2> QED
    BY <2>1, <2>2 DEF SInv
<1>3. CASE Complete
  <2>1. UNCHANGED <<run, saved, lost>> /\ Completed \in Closing
    BY <1>3 DEF Complete
  <2>2. run.blocker = Completed
    BY <2>1, OutcomesDiffer DEF Closing, IInv, RunInv, Run
  <2> QED
    BY <2>1, <2>2 DEF SInv, AtOnce, Continues
<1>4. ASSUME NEW c \in Closing, NextRun(c) PROVE SInv'
  <2> DEFINE gone == Elems(run.context) \ Elems(c.context)
             used == IF c.via = "reset" THEN run.consumed \cup gone
                                        ELSE run.consumed
  <2>1. saved' = saved /\ run' = FreshRun(c.queue, c.state, c.context, used)
    BY <1>4 DEF NextRun
  <2>2. SnapshotInv(run') /\ run'.blocker = Pending
    BY <2>1 DEF FreshRun, SnapshotInv, AtOnce, Continues
  <2> QED
    BY <2>1, <2>2 DEF SInv, AtOnce, Continues
<1> QED
  BY <1>1, <1>2, <1>3, <1>4 DEF Close

\* The only signals a migration loses are those a subscription left behind: one
\* that happens at once takes along every signal the old run handled, however
\* signals, migrations and resets mix and tasks are refused.
THEOREM AtOnceNothingIsLost == Spec => AtOnceLosesNothing
<1>1. Init => SInv
  <2> SUFFICES ASSUME Init PROVE SInv
    OBVIOUS
  <2>1. run.blocker = Pending /\ run.reset = Pending /\ saved.run = run
    BY DEF Init, FreshRun
  <2> QED
    BY <2>1 DEF SInv, SnapshotInv, AtOnce, Continues
<1>2. IInv /\ SInv /\ [Next]_vars => SInv'
  <2> SUFFICES ASSUME IInv, SInv, [Next]_vars PROVE SInv'
    OBVIOUS
  <2>1. CASE UNCHANGED vars
    BY <2>1 DEF SInv, vars
  <2>2. CASE Client
    BY <2>2 DEF Client, SendEvent, SendMigrate, SendReset, Accept, SInv
  <2>3. CASE Begin
    <3>1. PICK k \in 0..Len(run.sleeping), due \in BOOLEAN : BeginTask(k, due)
      BY <2>3 DEF Begin
    <3>2. /\ task.phase = "idle" /\ run' = run /\ saved'.run = run
      BY <3>1 DEF BeginTask
    <3>3. ~AtOnce(run.blocker)
      BY <3>2 DEF SInv
    <3> QED
      BY <3>2, <3>3 DEF SInv
  <2>4. CASE Code
    BY <2>4, CodeSInv
  <2> QED
    BY <2>1, <2>2, <2>3, <2>4, CloseSInv DEF Next
<1>3. IInv /\ SInv /\ [Next]_vars =>
        [lost' # lost => run.blocker.via = "deferred"]_vars
  <2> SUFFICES ASSUME IInv, SInv, Next, lost' # lost
               PROVE  run.blocker.via = "deferred"
    OBVIOUS
  <2>1. PICK c \in Closing : NextRun(c)
    BY DEF Next, Client, SendEvent, SendMigrate, SendReset, Accept, Begin,
           BeginTask, Code, StartRun, NextSignal, EndSignals, InternalEvent, Wake,
           Close, YieldTask, RefuseTask, FailTask, Replay, Complete
  <2>2. /\ c.via # "reset" /\ c # Completed /\ c # Pending
        /\ Elems(run.context) \ Elems(c.context) # {}
    BY <2>1 DEF NextRun, Closing
  <2>3. c = run.blocker
    BY <2>1, <2>2 DEF Closing, SInv, SnapshotInv
  <2>4. c.via \in {"at once", "deferred", "reset"}
    BY <2>2, <2>3 DEF IInv, RunInv, Run, Outcome, Continuation
  <2>5. c.via # "at once"
    BY <2>2, <2>3 DEF SInv, SnapshotInv, AtOnce, Continues
  <2> QED
    BY <2>2, <2>3, <2>4, <2>5
<1> QED
  BY <1>1, <1>2, <1>3, IInvHolds, PTL DEF Spec, AtOnceLosesNothing

-----------------------------------------------------------------------------
(* Signals stay in order, and none is handled twice.                       *)

\* Ids of signals that were sent.
Sent(A) == \A x \in A : x <= sent

\* What a run has put aside to continue with is in order, too.
Payloads(r) ==
  \A o \in {r.blocker, r.reset} :
    Continues(o) => Increasing(o.context) /\ Sent(Elems(o.context))

\* What a run has applied, what a task of it still has, what waits: each in order,
\* and one before the other.
InLine(r, t) ==
  /\ Increasing(r.context) /\ Sent(Elems(r.context))
  /\ Increasing(IdSeq(t.signals)) /\ Sent(Ids(t.signals))
  /\ Precede(Elems(r.context), Ids(t.signals))
  /\ Precede(Elems(r.context), Ids(inbox))
  /\ Precede(Ids(t.signals), Ids(inbox))

\* The invariant: of the run and its task, and of what a refused task goes back to.
OInv ==
  /\ InLine(run, task) /\ Payloads(run)
  /\ InLine(saved.run, saved.task) /\ Payloads(saved.run)
  /\ Increasing(IdSeq(inbox)) /\ Sent(Ids(inbox))

\* A notification with a context in order puts aside nothing else.
LEMMA NotifyPayloads ==
  ASSUME NEW r \in Run, Payloads(r), NEW s, NEW c, Increasing(c), Sent(Elems(c))
  PROVE  Payloads(Notify(r, s, c))
<1> DEFINE n == Notify(r, s, c)
           o == ContinueAsNew("deferred", r.target, s, c)
<1>1. n.reset = r.reset /\ n.blocker \in {r.blocker, Completed, o}
  BY DEF Notify, Run, Settle
<1>2. o.context = c
  BY DEF ContinueAsNew
<1> HIDE DEF n, o
<1>3. Payloads(n)
  BY <1>1, <1>2 DEF Payloads, Continues
<1> QED
  BY <1>3 DEF n

\* A signal that comes after all the context leaves it in order.
LEMMA HandleSignalInOrder ==
  ASSUME NEW r, StartedInv(r), NEW m \in Signal, Payloads(r),
         Increasing(r.context), Sent(Elems(r.context)),
         Precede(Elems(r.context), {m.id}), m.id <= sent
  PROVE  LET n == HandleSignal(r, m)
         IN  /\ Payloads(n) /\ Increasing(n.context)
             /\ Elems(n.context) \subseteq Elems(r.context) \cup {m.id}
<1> DEFINE n == HandleSignal(r, m)
<1>1. r \in Run /\ r.context \in Seq(Nat) /\ m.id \in Nat
  BY SignalKinds DEF StartedInv, RunInv, Run
<1>2. CASE m.kind = "event" /\ ~(m.event \in Undecodable \/ r.state \in Final)
  <2> DEFINE s == Machine[r.queue][r.state][m.event]
             c == Append(r.context, m.id)
  <2>1. /\ Elems(c) = Elems(r.context) \cup {m.id}
        /\ Increasing(c)
    BY <1>1, ElemsAppend, AppendInOrder
  <2>2. n = Notify(r, s, c)
    BY <1>2 DEF HandleSignal, HandleEvent
  <2> HIDE DEF n, s, c
  <2>3. Sent(Elems(c))
    BY <2>1 DEF Sent
  <2>4. Payloads(n) /\ n.context = c
    BY <1>1, <2>1, <2>2, <2>3, NotifyPayloads DEF Notify, Run
  <2> QED
    BY <2>1, <2>4 DEF n
<1>3. CASE m.kind = "event" /\ (m.event \in Undecodable \/ r.state \in Final)
  <2>1. n.context = r.context /\ n.reset = r.reset /\ n.blocker = r.blocker
    BY <1>1, <1>3 DEF HandleSignal, HandleEvent, Run
  <2> QED
    BY <2>1 DEF Payloads
<1>4. CASE m.kind = "migrate"
  <2>1. n.context = r.context /\ n.reset = r.reset /\ n.blocker = r.blocker
    BY <1>1, <1>4 DEF HandleSignal, HandleMigrate, Run
  <2> QED
    BY <2>1 DEF Payloads
<1>5. CASE m.kind = "reset"
  <2> DEFINE o == ContinueAsNew("reset", m.queue, m.state, <<>>)
  <2>1. /\ n.context = r.context /\ n.blocker = r.blocker
        /\ n.reset = Settle(r.reset, o)
    BY <1>1, <1>5 DEF HandleSignal, HandleReset, Run
  <2>2. o.context = <<>>
    BY DEF ContinueAsNew
  <2>3. Increasing(<<>>) /\ Sent(Elems(<<>>))
    BY DEF Increasing, Sent, Elems
  <2> HIDE DEF n, o
  <2>4. Payloads(n) /\ n.context = r.context
    BY <2>1, <2>2, <2>3 DEF Payloads, Settle
  <2> QED
    BY <2>4 DEF n
<1> QED
  BY <1>2, <1>3, <1>4, <1>5, SignalKinds

\* What matters of a woken handleMigrate.
LEMMA ResumeMigrateInOrder ==
  ASSUME NEW r \in Run, Payloads(r), Increasing(r.context), Sent(Elems(r.context))
  PROVE  Payloads(ResumeMigrate(r)) /\ ResumeMigrate(r).context = r.context
<1> DEFINE n == ResumeMigrate(r)
           o == ContinueAsNew("at once", Head(r.sleeping), r.state, r.context)
<1>1. /\ n.reset = r.reset /\ n.context = r.context
      /\ n.blocker = r.blocker \/ n.blocker = Settle(r.blocker, o)
  BY DEF ResumeMigrate, Run
<1>2. o.context = r.context
  BY DEF ContinueAsNew
<1> HIDE DEF n, o
<1>3. Payloads(n) /\ n.context = r.context
  BY <1>1, <1>2 DEF Payloads, Settle
<1> QED
  BY <1>3 DEF n

\* An accepted signal is the last in line.
LEMMA AcceptOInv ==
  ASSUME IInv, OInv, NEW m \in Signal, m.id = sent + 1, Accept(m)
  PROVE  OInv'
<1>1. /\ sent' = sent + 1 /\ inbox' = Append(inbox, m)
      /\ UNCHANGED <<run, task, saved>>
  BY DEF Accept
<1>2. /\ inbox \in Seq(Signal) /\ sent \in Nat /\ m.id \in Nat
      /\ run.context \in Seq(Nat) /\ saved.run.context \in Seq(Nat)
      /\ task.signals \in Seq(Signal) /\ saved.task.signals \in Seq(Signal)
  BY SignalKinds DEF IInv, TypeOK, RunInv, Run, TaskInv, Task
<1>3. Ids(inbox') = Ids(inbox) \cup {sent + 1}
  BY <1>1, <1>2, IdsAppend
<1>4. Ids(inbox) \subseteq Nat
  BY <1>2, ElemsAreNumbers
<1>5. Increasing(IdSeq(inbox'))
  <2> DEFINE a == Append(inbox, m)
             b == Append(IdSeq(inbox), m.id)
  <2>1. /\ IdSeq(inbox) \in Seq(Nat) /\ Elems(IdSeq(inbox)) = Ids(inbox)
        /\ Len(IdSeq(inbox)) = Len(inbox)
        /\ \A i \in 1..Len(inbox) : IdSeq(inbox)[i] = inbox[i].id
    BY <1>2, IdSeqIs
  <2>2. Precede(Ids(inbox), {m.id})
    BY <1>2, <1>4 DEF OInv, Sent, Precede
  <2>3. Increasing(b)
    BY <1>2, <2>1, <2>2, AppendInOrder DEF OInv
  <2>4. /\ Len(a) = Len(inbox) + 1 /\ a[Len(inbox) + 1] = m
        /\ \A i \in 1..Len(inbox) : a[i] = inbox[i]
    BY <1>2
  <2>5. /\ Len(b) = Len(inbox) + 1 /\ b[Len(inbox) + 1] = m.id
        /\ \A i \in 1..Len(inbox) : b[i] = IdSeq(inbox)[i]
    BY <1>2, <2>1
  <2>6. a \in Seq(Signal) /\ Len(inbox) \in Nat
    BY <1>2
  <2> HIDE DEF a, b
  <2>7. /\ Len(IdSeq(a)) = Len(a) /\ \A i \in 1..Len(a) : IdSeq(a)[i] = a[i].id
    BY <2>6, IdSeqIs
  <2>8. \A i \in 1..Len(a) : IdSeq(a)[i] = b[i]
    <3> SUFFICES ASSUME NEW i \in 1..Len(a) PROVE IdSeq(a)[i] = b[i]
      OBVIOUS
    <3>1. CASE i \in 1..Len(inbox)
      <4>1. IdSeq(a)[i] = a[i].id /\ a[i] = inbox[i]
        BY <2>4, <2>7, <3>1
      <4>2. b[i] = IdSeq(inbox)[i] /\ IdSeq(inbox)[i] = inbox[i].id
        BY <2>1, <2>5, <3>1
      <4> QED
        BY <4>1, <4>2
    <3>2. CASE i = Len(inbox) + 1
      BY <2>4, <2>5, <2>7, <3>2
    <3> QED
      BY <2>4, <2>6, <3>1, <3>2
  <2>9. Increasing(IdSeq(a))
    BY <2>3, <2>4, <2>5, <2>7, <2>8 DEF Increasing
  <2> QED
    BY <1>1, <2>9 DEF a
<1>6. ASSUME NEW A, A \subseteq Nat, Sent(A)
      PROVE  /\ Sent(A)' /\ (Precede(A, Ids(inbox)) => Precede(A, Ids(inbox)'))
  BY <1>1, <1>2, <1>3, <1>6 DEF Sent, Precede
<1>7. /\ Elems(run.context) \subseteq Nat /\ Elems(saved.run.context) \subseteq Nat
      /\ Ids(task.signals) \subseteq Nat /\ Ids(saved.task.signals) \subseteq Nat
  BY <1>2, ElemsAreNumbers
<1>8. InLine(run, task)' /\ InLine(saved.run, saved.task)'
  BY <1>1, <1>6, <1>7 DEF OInv, InLine
<1>9. ASSUME NEW r \in Run, Payloads(r) PROVE Payloads(r)'
  <2> SUFFICES ASSUME NEW o \in {r.blocker, r.reset}, Continues(o)
               PROVE  Increasing(o.context) /\ Sent(Elems(o.context))'
    BY DEF Payloads, Continues
  <2>1. o.context \in Seq(Nat)
    BY DEF Run, Outcome, Continues, Continuation
  <2>2. Increasing(o.context) /\ Sent(Elems(o.context)) /\ Elems(o.context) \subseteq Nat
    BY <1>9, <2>1, ElemsAreNumbers DEF Payloads
  <2> QED
    BY <1>1, <1>2, <2>2 DEF Sent
<1>10. Payloads(run)' /\ Payloads(saved.run)'
  BY <1>1, <1>9 DEF OInv, IInv, RunInv, Payloads
<1>11. Sent(Ids(inbox))'
  BY <1>1, <1>2, <1>3, <1>4 DEF OInv, Sent
<1> QED
  BY <1>5, <1>8, <1>10, <1>11 DEF OInv

\* What the code does while a task is under way keeps the line.
LEMMA CodeOInv == IInv /\ OInv /\ Code => OInv'
<1> SUFFICES ASSUME IInv, OInv, Code PROVE OInv'
  OBVIOUS
<1>1. /\ UNCHANGED <<saved, inbox, sent>> /\ run \in Run /\ task \in Task
      /\ task.signals \in Seq(Signal) /\ run.context \in Seq(Nat) /\ run.state \in States
  BY DEF Code, StartRun, NextSignal, EndSignals, InternalEvent, Wake, IInv,
         RunInv, TaskInv, Run, Task
<1>2. /\ InLine(run, task) /\ Payloads(run)
  BY DEF OInv
<1>3. ASSUME run'.context = run.context, task'.signals = task.signals, Payloads(run')
      PROVE  OInv'
  BY <1>1, <1>2, <1>3 DEF OInv, InLine, Payloads, Sent
<1>4. CASE StartRun
  <2> DEFINE s == IF runs = 1 THEN run.state ELSE Receive[run.queue][run.state]
             r == [run EXCEPT !.started = TRUE]
  <2>1. run' = Notify(r, s, run.context) /\ task' = [task EXCEPT !.phase = "signals"]
    BY <1>4 DEF StartRun
  <2>2. /\ r \in Run /\ r.reset = run.reset /\ r.blocker = run.blocker
    BY <1>1 DEF Run
  <2> HIDE DEF r, s
  <2>3. Payloads(r)
    BY <1>2, <2>2 DEF Payloads
  <2>4. Payloads(run')
    BY <1>2, <2>1, <2>2, <2>3, NotifyPayloads DEF InLine
  <2>5. run'.context = run.context /\ task'.signals = task.signals
    BY <1>1, <2>1, <2>2 DEF Notify, Run, Task
  <2> QED
    BY <1>3, <2>4, <2>5
<1>5. CASE NextSignal
  <2> DEFINE m == Head(task.signals)
  <2>1. /\ task.signals # <<>> /\ run' = HandleSignal(run, m)
        /\ task' = [task EXCEPT !.signals = Tail(task.signals),
                                !.due = task.due /\ run'.state = run.state]
        /\ task.phase = "signals"
    BY <1>5 DEF NextSignal
  <2>2. /\ m \in Signal /\ task'.signals = Tail(task.signals) /\ m.id \in Nat
    BY <1>1, <2>1, SignalKinds DEF Task
  <2>3. /\ m.id \in Ids(task.signals) /\ Ids(task'.signals) \subseteq Ids(task.signals)
        /\ Increasing(IdSeq(task'.signals)) /\ Precede({m.id}, Ids(task'.signals))
    BY <1>1, <1>2, <2>1, <2>2, HeadFirst DEF InLine
  <2>4. StartedInv(run)
    BY <2>1 DEF IInv, TaskInv, StartedInv
  <2>5. Precede(Elems(run.context), {m.id}) /\ m.id <= sent
    BY <1>2, <2>3 DEF InLine, Precede, Sent
  <2> HIDE DEF m
  <2>6. /\ Payloads(run') /\ Increasing(run'.context)
        /\ Elems(run'.context) \subseteq Elems(run.context) \cup {m.id}
    BY <1>2, <2>1, <2>2, <2>4, <2>5, HandleSignalInOrder DEF InLine
  <2>7. /\ Precede(Elems(run'.context), Ids(task'.signals))
        /\ Precede(Elems(run'.context), Ids(inbox))
        /\ Precede(Ids(task'.signals), Ids(inbox))
        /\ Sent(Elems(run'.context)) /\ Sent(Ids(task'.signals))
    BY <1>2, <2>3, <2>5, <2>6 DEF InLine, Precede, Sent
  <2> QED
    BY <1>1, <2>3, <2>6, <2>7 DEF OInv, InLine, Payloads, Sent
<1>6. CASE EndSignals
  <2>1. run' = run /\ task' = [task EXCEPT !.phase = "rest"]
    BY <1>6 DEF EndSignals
  <2>2. task'.signals = task.signals
    BY <1>1, <2>1 DEF Task
  <2> QED
    BY <1>2, <1>3, <2>1, <2>2 DEF Payloads
<1>7. CASE InternalEvent
  <2> DEFINE s == Internal[run.queue][run.state]
  <2>1. run' = Notify(run, s, run.context) /\ task' = [task EXCEPT !.due = FALSE]
    BY <1>7 DEF InternalEvent
  <2> HIDE DEF s
  <2>2. Payloads(run')
    BY <1>1, <1>2, <2>1, NotifyPayloads DEF InLine
  <2>3. run'.context = run.context /\ task'.signals = task.signals
    BY <1>1, <2>1 DEF Notify, Run, Task
  <2> QED
    BY <1>3, <2>2, <2>3
<1>8. CASE Wake
  <2>1. run' = ResumeMigrate(run) /\ task' = [task EXCEPT !.woken = task.woken - 1]
    BY <1>8 DEF Wake
  <2>2. Payloads(run') /\ run'.context = run.context
    BY <1>1, <1>2, <2>1, ResumeMigrateInOrder DEF InLine
  <2>3. task'.signals = task.signals
    BY <1>1, <2>1 DEF Task
  <2> QED
    BY <1>3, <2>2, <2>3
<1> QED
  BY <1>4, <1>5, <1>6, <1>7, <1>8 DEF Code

\* A task that ends leaves the run as it is, goes back to what it began with, takes
\* what has come since along, or hands over what the run had put aside.
LEMMA CloseOInv == IInv /\ OInv /\ Close => OInv'
<1> SUFFICES ASSUME IInv, OInv, Close PROVE OInv'
  OBVIOUS
<1>1. /\ Ids(<<>>) = {} /\ Increasing(IdSeq(<<>>)) /\ Idle.signals = <<>>
  BY DEF Ids, IdSeq, Increasing, Idle
<1>2. \A A : Precede(A, {}) /\ Precede({}, A) /\ Sent({})
  BY DEF Precede, Sent
<1>3. CASE YieldTask \/ Complete
  <2>1. UNCHANGED <<inbox, sent, run, saved>> /\ task'.signals = <<>>
    BY <1>1, <1>3 DEF YieldTask, Complete
  <2>2. /\ InLine(saved.run, saved.task)' /\ Payloads(run)' /\ Payloads(saved.run)'
        /\ Increasing(IdSeq(inbox))' /\ Sent(Ids(inbox))'
    BY <2>1 DEF OInv, InLine, Payloads, Sent
  <2>3. /\ Increasing(run'.context) /\ Sent(Elems(run.context))'
        /\ Precede(Elems(run.context), Ids(inbox))'
    BY <2>1 DEF OInv, InLine, Sent
  <2>4. /\ Increasing(IdSeq(task'.signals)) /\ Ids(task'.signals) = {}
    BY <1>1, <2>1
  <2>5. InLine(run, task)'
    BY <1>2, <2>3, <2>4 DEF InLine, Precede, Sent
  <2> QED
    BY <2>2, <2>5 DEF OInv
<1>4. CASE RefuseTask \/ FailTask
  <2> DEFINE signals == saved.task.signals \o inbox
             s == IdSeq(saved.task.signals)
             t == IdSeq(inbox)
  <2>1. /\ run' = saved.run /\ inbox' = <<>> /\ sent' = sent
        /\ task' = [saved.task EXCEPT !.signals = signals]
        /\ saved' = [saved EXCEPT !.task = task']
    BY <1>4 DEF RefuseTask, FailTask, Replay
  <2>2. /\ saved \in [run : Run, task : Task] /\ saved.task \in Task
        /\ saved.task.signals \in Seq(Signal) /\ inbox \in Seq(Signal)
    BY DEF IInv, TypeOK, TaskInv, Task
  <2>3. /\ task'.signals = signals /\ saved'.run = saved.run /\ saved'.task = task'
    BY <2>1, <2>2 DEF Task
  <2>4. Ids(signals) = Ids(saved.task.signals) \cup Ids(inbox) /\ Increasing(IdSeq(signals))
    BY <2>2, IdSeqConcat DEF OInv, InLine
  <2> HIDE DEF signals
  <2>5. InLine(saved.run, saved.task)
    BY DEF OInv
  <2>6. /\ Precede(Elems(saved.run.context), Ids(signals)) /\ Sent(Ids(signals))
    BY <2>4, <2>5 DEF OInv, InLine, Precede, Sent
  <2>7. Payloads(saved.run)' /\ Payloads(run)'
    BY <2>1, <2>3 DEF OInv, Payloads, Sent
  <2>8. InLine(run, task)' /\ InLine(saved.run, saved.task)'
    BY <1>1, <1>2, <2>1, <2>3, <2>4, <2>5, <2>6 DEF InLine, Sent
  <2> QED
    BY <1>1, <1>2, <2>1, <2>7, <2>8 DEF OInv, Sent
<1>5. ASSUME NEW c \in Closing, NextRun(c) PROVE OInv'
  <2> DEFINE gone == Elems(run.context) \ Elems(c.context)
             used == IF c.via = "reset" THEN run.consumed \cup gone
                                        ELSE run.consumed
  <2>1. /\ inbox = <<>> /\ run' = FreshRun(c.queue, c.state, c.context, used)
        /\ task' = Idle /\ UNCHANGED <<inbox, sent, saved>> /\ c # Completed
    BY <1>5 DEF NextRun
  <2>2. /\ run'.context = c.context /\ run'.blocker = Pending /\ run'.reset = Pending
    BY <2>1 DEF FreshRun
  <2>3. c \in {run.blocker, run.reset} /\ Continues(c)
    BY <2>1 DEF Closing, Continues
  <2>4. Increasing(c.context) /\ Sent(Elems(c.context))
    BY <2>3 DEF OInv, Payloads
  <2>5. Payloads(run)' /\ Payloads(saved.run)'
    BY <2>1, <2>2 DEF OInv, Payloads, Continues, Sent
  <2>6. /\ Ids(inbox') = {} /\ Ids(task'.signals) = {}
        /\ Increasing(IdSeq(inbox')) /\ Increasing(IdSeq(task'.signals))
    BY <1>1, <2>1
  <2>7. Increasing(run'.context) /\ Sent(Elems(run.context))'
    BY <2>1, <2>2, <2>4 DEF Sent
  <2>8. InLine(run, task)'
    BY <2>6, <2>7 DEF InLine, Precede, Sent
  <2>9. InLine(saved.run, saved.task)'
    BY <2>1 DEF OInv, InLine, Sent
  <2> QED
    BY <2>5, <2>6, <2>8, <2>9 DEF OInv, Sent
<1> QED
  BY <1>3, <1>4, <1>5 DEF Close

\* The line holds at all times.
LEMMA OInvHolds == Spec => []OInv
<1>1. Init => OInv
  <2> SUFFICES ASSUME Init PROVE OInv
    OBVIOUS
  <2>1. /\ run.context = <<>> /\ run.blocker = Pending /\ run.reset = Pending
        /\ saved.run = run /\ task.signals = <<>> /\ saved.task.signals = <<>>
        /\ inbox = <<>>
    BY DEF Init, FreshRun, Idle
  <2>2. /\ Ids(<<>>) = {} /\ Increasing(IdSeq(<<>>)) /\ Increasing(<<>>) /\ Elems(<<>>) = {}
    BY DEF Ids, IdSeq, Increasing, Elems
  <2>3. Precede({}, {}) /\ Sent({})
    BY DEF Precede, Sent
  <2> QED
    BY <2>1, <2>2, <2>3 DEF OInv, InLine, Payloads, Continues
<1>2. IInv /\ OInv /\ [Next]_vars => OInv'
  <2> SUFFICES ASSUME IInv, OInv, [Next]_vars PROVE OInv'
    OBVIOUS
  <2>1. CASE UNCHANGED vars
    BY <2>1 DEF OInv, InLine, Payloads, Sent, vars
  <2>2. CASE Client
    <3>1. sent + 1 \in Nat
      BY DEF IInv, TypeOK
    <3>2. ASSUME NEW e \in Events, SendEvent(e) PROVE OInv'
      BY <3>1, <3>2, AcceptOInv DEF SendEvent, Signal, EventSignal
    <3>3. ASSUME NEW q \in Queues, SendMigrate(q) PROVE OInv'
      BY <3>1, <3>3, AcceptOInv DEF SendMigrate, Signal, MigrateSignal
    <3>4. ASSUME NEW q \in Queues, NEW s \in States, SendReset(q, s) PROVE OInv'
      BY <3>1, <3>4, AcceptOInv DEF SendReset, Signal, ResetSignal
    <3> QED
      BY <2>2, <3>2, <3>3, <3>4 DEF Client
  <2>3. CASE Begin
    <3>1. PICK k \in 0..Len(run.sleeping), due \in BOOLEAN : BeginTask(k, due)
      BY <2>3 DEF Begin
    <3>2. /\ task'.signals = inbox /\ saved'.run = run /\ saved'.task = task'
          /\ inbox' = <<>> /\ run' = run /\ sent' = sent
      BY <3>1 DEF BeginTask
    <3>3. Ids(<<>>) = {} /\ Increasing(IdSeq(<<>>))
      BY DEF Ids, IdSeq, Increasing
    <3>4. /\ Increasing(run'.context) /\ Sent(Elems(run.context))'
          /\ Increasing(IdSeq(task'.signals)) /\ Sent(Ids(task.signals))'
          /\ Precede(Elems(run.context), Ids(task.signals))'
      BY <3>2 DEF OInv, InLine, Sent
    <3>5. Ids(inbox') = {} /\ Increasing(IdSeq(inbox'))
      BY <3>2, <3>3
    <3>6. InLine(run, task)'
      BY <3>4, <3>5 DEF InLine, Precede
    <3>7. InLine(saved.run, saved.task)'
      BY <3>2, <3>6 DEF InLine
    <3> QED
      BY <3>2, <3>5, <3>6, <3>7 DEF OInv, Payloads, Sent
  <2>4. CASE Code
    BY <2>4, CodeOInv
  <2> QED
    BY <2>1, <2>2, <2>3, <2>4, CloseOInv DEF Next
<1> QED
  BY <1>1, <1>2, IInvHolds, PTL DEF Spec

\* The machine applies the signals in the order they were accepted and none of them
\* twice; what is still to come is in that order too, over replays and moves.
THEOREM SignalsInOrderOnce == Spec => []InOrderOnce
<1>1. IInv /\ OInv => InOrderOnce
  <2> SUFFICES ASSUME IInv, OInv PROVE InOrderOnce
    OBVIOUS
  <2> DEFINE c == run.context
             s == IdSeq(task.signals)
             t == IdSeq(inbox)
  <2>1. /\ c \in Seq(Nat) /\ s \in Seq(Nat) /\ t \in Seq(Nat)
        /\ Elems(s) = Ids(task.signals) /\ Elems(t) = Ids(inbox)
    BY IdSeqIs DEF IInv, TypeOK, RunInv, Run, TaskInv, Task
  <2>2. /\ Increasing(c) /\ Increasing(s) /\ Increasing(t)
        /\ Precede(Elems(c), Elems(s)) /\ Precede(Elems(c), Elems(t))
        /\ Precede(Elems(s), Elems(t))
    BY <2>1 DEF OInv, InLine
  <2> HIDE DEF c, s, t
  <2>3. /\ c \o s \in Seq(Nat) /\ Increasing(c \o s)
        /\ Elems(c \o s) = Elems(c) \cup Elems(s)
    BY <2>1, <2>2, ConcatInOrder
  <2>4. Precede(Elems(c \o s), Elems(t))
    BY <2>2, <2>3 DEF Precede
  <2>5. Increasing((c \o s) \o t)
    BY <2>1, <2>2, <2>3, <2>4, ConcatInOrder
  <2> QED
    BY <2>5 DEF InOrderOnce, c, s, t
<1> QED
  BY <1>1, IInvHolds, OInvHolds, PTL

-----------------------------------------------------------------------------
(* The workflow implements module Entity.  Between two commits, what a run *)
(* has applied and what it has put aside only grow, by signals of the task *)
(* under way; a refused task goes back to where nothing was decided.       *)

Active == task.phase # "idle"

\* The ids of the signals the task under way has been given, of which a refused task
\* has been given all that have come since, too.
Given == Dealt + 1..sent - Len(inbox)

\* Some of the ids in B come after those of the old context.
Grows(old, new, B) ==
  /\ Len(old) <= Len(new)
  /\ \A i \in 1..Len(old) : new[i] = old[i]
  /\ \A i \in Len(old) + 1..Len(new) : new[i] \in B

\* What a run that began its task as base has made of the ids in B.
RunGrows(base, r, B) ==
  /\ r.queue = base.queue
  /\ Grows(base.context, r.context, B)
  /\ Continues(r.blocker) => Grows(base.context, r.blocker.context, B)
  /\ r.reset # Pending => r.reset.context = <<>> /\ r.reset.via = "reset"

\* Signals are numbered without a gap: those that wait, and before them those that the
\* task took.
NoGap ==
  /\ Len(inbox) <= sent
  /\ \A i \in 1..Len(inbox) : inbox[i].id = sent - Len(inbox) + i
  /\ Active => /\ Dealt \in Nat
               /\ \A i \in 1..Len(Taken) : Taken[i].id = Dealt + i
               /\ Ids(task.signals) \subseteq Given

\* A task begins with nothing decided.
Undecided(r) == r.blocker = Pending /\ r.reset = Pending

Decided ==
  /\ Active => /\ saved.task.phase # "idle"
               /\ Undecided(saved.run)
               /\ RunGrows(saved.run, run, Given)
  /\ ~Active /\ status = "running" => Undecided(run)

EInv == NoGap /\ Decided

\* A context that has not changed has grown by nothing.
LEMMA GrowsNot ==
  ASSUME NEW c \in Seq(Nat), NEW B
  PROVE  Grows(c, c, B)
BY DEF Grows

\* One more signal at the end.
LEMMA GrowsAppend ==
  ASSUME NEW old \in Seq(Nat), NEW new \in Seq(Nat), NEW B, NEW x \in B, x \in Nat,
         Grows(old, new, B)
  PROVE  Grows(old, Append(new, x), B)
<1> DEFINE a == Append(new, x)
<1>1. /\ Len(a) = Len(new) + 1 /\ a[Len(new) + 1] = x
      /\ \A i \in 1..Len(new) : a[i] = new[i]
      /\ Len(new) \in Nat /\ Len(old) \in Nat
  OBVIOUS
<1> HIDE DEF a
<1>2. ASSUME NEW i \in Len(old) + 1..Len(a) PROVE a[i] \in B
  <2>1. CASE i = Len(new) + 1
    BY <1>1, <2>1
  <2>2. CASE i # Len(new) + 1
    <3>1. i \in 1..Len(new) /\ i \in Len(old) + 1..Len(new)
      BY <1>1, <2>2
    <3> QED
      BY <1>1, <3>1 DEF Grows
  <2> QED
    BY <2>1, <2>2
<1>3. \A i \in 1..Len(old) : i \in 1..Len(new)
  BY <1>1 DEF Grows
<1>4. Grows(old, a, B)
  BY <1>1, <1>2, <1>3 DEF Grows
<1> QED
  BY <1>4 DEF a

\* The ids of signals that are numbered without a gap.
LEMMA NumberedIds ==
  ASSUME NEW s \in Seq(Signal), NEW d \in Nat, \A i \in 1..Len(s) : s[i].id = d + i
  PROVE  Ids(s) \subseteq d + 1..d + Len(s)
<1>1. \A i \in 1..Len(s) : d + i \in d + 1..d + Len(s)
  OBVIOUS
<1> QED
  BY <1>1 DEF Ids

\* A notification puts aside at most the context it came with.
LEMMA NotifyGrows ==
  ASSUME NEW base, NEW B, NEW r \in Run, RunGrows(base, r, B), NEW s, NEW c,
         Grows(base.context, c, B)
  PROVE  RunGrows(base, Notify(r, s, c), B)
<1> DEFINE n == Notify(r, s, c)
           o == ContinueAsNew("deferred", r.target, s, c)
<1>1. /\ n.reset = r.reset /\ n.queue = r.queue /\ n.context = c
      /\ n.blocker \in {r.blocker, Completed, o}
  BY DEF Notify, Run, Settle
<1>2. o.context = c
  BY DEF ContinueAsNew
<1> HIDE DEF n, o
<1>3. RunGrows(base, n, B)
  BY <1>1, <1>2 DEF RunGrows, Continues
<1> QED
  BY <1>3 DEF n

\* A signal is applied, or changes nothing of what was applied.
LEMMA HandleSignalGrows ==
  ASSUME NEW base \in Run, NEW B, NEW r \in Run, RunGrows(base, r, B),
         NEW m \in Signal, m.id \in B
  PROVE  RunGrows(base, HandleSignal(r, m), B)
<1> DEFINE n == HandleSignal(r, m)
<1>1. CASE m.kind = "event" /\ ~(m.event \in Undecodable \/ r.state \in Final)
  <2> DEFINE s == Machine[r.queue][r.state][m.event]
             c == Append(r.context, m.id)
  <2>1. n = Notify(r, s, c)
    BY <1>1 DEF HandleSignal, HandleEvent
  <2>2. Grows(base.context, c, B)
    <3>1. base.context \in Seq(Nat) /\ r.context \in Seq(Nat) /\ m.id \in Nat
      BY SignalKinds DEF Run
    <3> QED
      BY <3>1, GrowsAppend DEF RunGrows
  <2> HIDE DEF n, s, c
  <2>3. RunGrows(base, n, B)
    BY <2>1, <2>2, NotifyGrows
  <2> QED
    BY <2>3 DEF n
<1>2. CASE m.kind = "event" /\ (m.event \in Undecodable \/ r.state \in Final)
  <2>1. /\ n.context = r.context /\ n.reset = r.reset /\ n.blocker = r.blocker
        /\ n.queue = r.queue
    BY <1>2 DEF HandleSignal, HandleEvent, Run
  <2> QED
    BY <2>1 DEF RunGrows
<1>3. CASE m.kind = "migrate"
  <2>1. /\ n.context = r.context /\ n.reset = r.reset /\ n.blocker = r.blocker
        /\ n.queue = r.queue
    BY <1>3 DEF HandleSignal, HandleMigrate, Run
  <2> QED
    BY <2>1 DEF RunGrows
<1>4. CASE m.kind = "reset"
  <2> DEFINE o == ContinueAsNew("reset", m.queue, m.state, <<>>)
  <2>1. /\ n.context = r.context /\ n.blocker = r.blocker /\ n.queue = r.queue
        /\ n.reset = Settle(r.reset, o)
    BY <1>4 DEF HandleSignal, HandleReset, Run
  <2>2. o.context = <<>> /\ o.via = "reset"
    BY DEF ContinueAsNew
  <2> HIDE DEF n, o
  <2>3. RunGrows(base, n, B)
    BY <2>1, <2>2 DEF RunGrows, Settle
  <2> QED
    BY <2>3 DEF n
<1> QED
  BY <1>1, <1>2, <1>3, <1>4, SignalKinds

\* A woken handleMigrate puts aside the context as it is.
LEMMA ResumeMigrateGrows ==
  ASSUME NEW base, NEW B, NEW r \in Run, RunGrows(base, r, B)
  PROVE  RunGrows(base, ResumeMigrate(r), B)
<1> DEFINE n == ResumeMigrate(r)
           o == ContinueAsNew("at once", Head(r.sleeping), r.state, r.context)
<1>1. /\ n.reset = r.reset /\ n.context = r.context /\ n.queue = r.queue
      /\ n.blocker = r.blocker \/ n.blocker = Settle(r.blocker, o)
  BY DEF ResumeMigrate, Run
<1>2. o.context = r.context
  BY DEF ContinueAsNew
<1> HIDE DEF n, o
<1>3. RunGrows(base, n, B)
  BY <1>1, <1>2 DEF RunGrows, Settle
<1> QED
  BY <1>3 DEF n

\* The types of what these facts are about.
LEMMA TaskTypes ==
  ASSUME IInv
  PROVE  /\ inbox \in Seq(Signal) /\ Len(inbox) \in Nat /\ sent \in Nat
         /\ run \in Run /\ saved.run \in Run /\ task \in Task /\ saved.task \in Task
         /\ saved \in [run : Run, task : Task]
         /\ run.context \in Seq(Nat) /\ saved.run.context \in Seq(Nat)
         /\ task.signals \in Seq(Signal) /\ saved.task.signals \in Seq(Signal)
         /\ Taken \in Seq(Signal) /\ Len(Taken) \in Nat
<1>1. /\ run \in Run /\ saved.run \in Run /\ task \in Task /\ saved.task \in Task
      /\ saved \in [run : Run, task : Task]
      /\ inbox \in Seq(Signal) /\ sent \in Nat
  BY DEF IInv, TypeOK, RunInv, TaskInv
<1>2. /\ run.context \in Seq(Nat) /\ saved.run.context \in Seq(Nat)
      /\ task.signals \in Seq(Signal) /\ saved.task.signals \in Seq(Signal)
  BY <1>1 DEF Run, Task
<1>3. Taken \in Seq(Signal)
  BY <1>2 DEF Taken
<1> QED
  BY <1>1, <1>2, <1>3

\* The first run has been given nothing and has decided nothing.
LEMMA InitEInv == Init => EInv
<1> SUFFICES ASSUME Init PROVE EInv
  OBVIOUS
<1>1. ~Active /\ inbox = <<>> /\ sent = 0 /\ Undecided(run)
  BY DEF Init, Active, Idle, FreshRun, Undecided
<1> QED
  BY <1>1 DEF EInv, NoGap, Decided

\* An accepted signal gets the next number, and no task has to do with it yet.
LEMMA AcceptEInv ==
  ASSUME IInv, EInv, NEW m \in Signal, m.id = sent + 1, Accept(m)
  PROVE  EInv' /\ Dealt' = Dealt
<1>1. /\ sent' = sent + 1 /\ inbox' = Append(inbox, m)
      /\ UNCHANGED <<status, run, task, saved>>
  BY DEF Accept
<1>2. inbox \in Seq(Signal) /\ Len(inbox) \in Nat /\ sent \in Nat /\ Len(Taken) \in Nat
  BY TaskTypes
<1>3. /\ Len(inbox') = Len(inbox) + 1 /\ inbox'[Len(inbox) + 1] = m
      /\ \A i \in 1..Len(inbox) : inbox'[i] = inbox[i]
  BY <1>1, <1>2
<1>4. Taken' = Taken /\ (Active <=> Active')
  BY <1>1 DEF Taken, Active
<1>5. sent' - Len(inbox') = sent - Len(inbox)
  BY <1>1, <1>2, <1>3
<1>6. Dealt' = Dealt
  BY <1>4, <1>5 DEF Dealt
<1>7. Given' = Given
  BY <1>5, <1>6 DEF Given
<1>8. ASSUME NEW i \in 1..Len(inbox') PROVE inbox'[i].id = sent' - Len(inbox') + i
  <2>1. CASE i \in 1..Len(inbox)
    BY <1>3, <1>5, <2>1 DEF EInv, NoGap
  <2>2. CASE i = Len(inbox) + 1
    BY <1>1, <1>2, <1>3, <2>2
  <2> QED
    BY <1>2, <1>3, <2>1, <2>2
<1>9. Len(inbox') <= sent'
  BY <1>1, <1>2, <1>3 DEF EInv, NoGap
<1>10. NoGap'
  BY <1>1, <1>4, <1>6, <1>7, <1>8, <1>9 DEF EInv, NoGap
<1>11. Decided'
  BY <1>1, <1>4, <1>7 DEF EInv, Decided
<1> QED
  BY <1>6, <1>10, <1>11 DEF EInv

\* A new task is given all that waits, and nothing is dealt with yet.
LEMMA BeginEInv ==
  ASSUME IInv, EInv, Begin
  PROVE  EInv' /\ Dealt' = Dealt /\ Committed' = Committed
<1>1. PICK k \in 0..Len(run.sleeping), due \in BOOLEAN : BeginTask(k, due)
  BY DEF Begin
<1>2. /\ status = "running" /\ ~Active /\ Active' /\ task'.signals = inbox
      /\ saved'.run = run /\ saved'.task = task' /\ inbox' = <<>>
      /\ UNCHANGED <<status, sent, run>>
  BY <1>1 DEF BeginTask, Active
<1>3. /\ inbox \in Seq(Signal) /\ Len(inbox) \in Nat /\ sent \in Nat
      /\ run \in Run /\ run.context \in Seq(Nat)
  BY TaskTypes
<1>4. Taken = <<>> /\ Taken' = inbox /\ Committed = run /\ Committed' = run
  BY <1>2 DEF Taken, Committed, Active
<1>5. Dealt = sent - Len(inbox) /\ Dealt' = sent - Len(inbox) /\ Dealt \in Nat
  BY <1>2, <1>3, <1>4 DEF Dealt, EInv, NoGap
<1>6. Given' = Dealt + 1..sent
  BY <1>2, <1>3, <1>5 DEF Given
<1>7. /\ \A i \in 1..Len(inbox) : inbox[i].id = Dealt + i
      /\ Dealt + Len(inbox) = sent
  BY <1>3, <1>5 DEF EInv, NoGap
<1>8. Ids(inbox) \subseteq Dealt + 1..sent
  BY <1>3, <1>5, <1>7, NumberedIds
<1>9. NoGap'
  <2>1. /\ Len(inbox') <= sent' /\ Dealt' \in Nat
        /\ \A i \in 1..Len(inbox') : inbox'[i].id = sent' - Len(inbox') + i
    BY <1>2, <1>3, <1>5
  <2>2. \A i \in 1..Len(Taken') : Taken'[i].id = Dealt' + i
    BY <1>4, <1>5, <1>7
  <2>3. Ids(task'.signals) \subseteq Given'
    BY <1>2, <1>6, <1>8
  <2> QED
    BY <2>1, <2>2, <2>3 DEF NoGap
<1>10. Undecided(run)
  BY <1>2 DEF EInv, Decided
<1>11. RunGrows(run, run, Given')
  BY <1>3, <1>10, GrowsNot DEF RunGrows, Undecided, Continues
<1>12. Decided'
  BY <1>2, <1>10, <1>11 DEF Decided, Active
<1> QED
  BY <1>4, <1>5, <1>9, <1>12 DEF EInv

\* What the code does within a task is nothing to the outside.
LEMMA CodeEInv ==
  ASSUME IInv, EInv, Code
  PROVE  EInv' /\ Dealt' = Dealt /\ Committed' = Committed /\ UNCHANGED <<status, sent>>
<1>1. /\ run \in Run /\ saved.run \in Run /\ task \in Task
      /\ run.context \in Seq(Nat) /\ task.signals \in Seq(Signal)
  BY TaskTypes
<1>2. /\ Active /\ UNCHANGED <<status, inbox, sent, saved>>
      /\ \/ task'.phase = "signals" \/ task'.phase = "rest"
  BY <1>1 DEF Code, StartRun, NextSignal, EndSignals, InternalEvent, Wake, Active, Task
<1>3. Active' /\ Taken' = Taken /\ Committed' = Committed
  BY <1>2 DEF Active, Taken, Committed
<1>4. Dealt' = Dealt /\ Given' = Given
  BY <1>2, <1>3 DEF Dealt, Given
<1> SUFFICES EInv'
  BY <1>2, <1>3, <1>4
<1>5. RunGrows(saved.run, run, Given) /\ Ids(task.signals) \subseteq Given
  BY <1>2 DEF EInv, Decided, NoGap
<1>grown. Grows(saved.run.context, run.context, Given)
  BY <1>5 DEF RunGrows
<1>6. ASSUME Ids(task'.signals) \subseteq Given, RunGrows(saved.run, run', Given)
      PROVE  EInv'
  <2>1. NoGap'
    BY <1>2, <1>3, <1>4, <1>6 DEF EInv, NoGap
  <2>2. Decided'
    BY <1>2, <1>3, <1>4, <1>6 DEF EInv, Decided
  <2> QED
    BY <2>1, <2>2 DEF EInv
<1>7. CASE StartRun
  <2> DEFINE s == IF runs = 1 THEN run.state ELSE Receive[run.queue][run.state]
             r == [run EXCEPT !.started = TRUE]
  <2>1. run' = Notify(r, s, run.context) /\ task' = [task EXCEPT !.phase = "signals"]
    BY <1>7 DEF StartRun
  <2>2. /\ r \in Run /\ r.reset = run.reset /\ r.blocker = run.blocker
        /\ r.queue = run.queue /\ r.context = run.context
    BY <1>1 DEF Run
  <2> HIDE DEF r, s
  <2>3. RunGrows(saved.run, r, Given)
    BY <1>5, <2>2 DEF RunGrows
  <2>4. RunGrows(saved.run, run', Given)
    BY <1>grown, <2>1, <2>2, <2>3, NotifyGrows
  <2>5. task'.signals = task.signals
    BY <1>1, <2>1 DEF Task
  <2> QED
    BY <1>5, <1>6, <2>4, <2>5
<1>8. CASE NextSignal
  <2> DEFINE m == Head(task.signals)
  <2>1. /\ task.signals # <<>> /\ run' = HandleSignal(run, m)
        /\ task' = [task EXCEPT !.signals = Tail(task.signals),
                                !.due = task.due /\ run'.state = run.state]
    BY <1>8 DEF NextSignal
  <2>2. m \in Signal /\ task'.signals = Tail(task.signals)
    BY <1>1, <2>1 DEF Task
  <2>3. m.id \in Ids(task.signals) /\ Ids(Tail(task.signals)) \subseteq Ids(task.signals)
    <3> DEFINE s == task.signals
    <3>1. /\ Len(s) \in Nat \ {0} /\ Head(s) = s[1] /\ Len(Tail(s)) = Len(s) - 1
          /\ \A i \in 1..Len(Tail(s)) : Tail(s)[i] = s[i + 1]
      BY <1>1, <2>1
    <3>2. 1 \in 1..Len(s) /\ \A i \in 1..Len(Tail(s)) : i + 1 \in 1..Len(s)
      BY <3>1
    <3> QED
      BY <3>1, <3>2 DEF Ids
  <2> HIDE DEF m
  <2>4. RunGrows(saved.run, run', Given)
    BY <1>1, <1>5, <2>1, <2>2, <2>3, HandleSignalGrows
  <2> QED
    BY <1>5, <1>6, <2>2, <2>3, <2>4
<1>9. CASE EndSignals
  <2>1. run' = run /\ task'.signals = task.signals
    BY <1>1, <1>9 DEF EndSignals, Task
  <2> QED
    BY <1>5, <1>6, <2>1
<1>10. CASE InternalEvent
  <2> DEFINE s == Internal[run.queue][run.state]
  <2>1. run' = Notify(run, s, run.context) /\ task'.signals = task.signals
    BY <1>1, <1>10 DEF InternalEvent, Task
  <2> HIDE DEF s
  <2>2. RunGrows(saved.run, run', Given)
    BY <1>1, <1>5, <1>grown, <2>1, NotifyGrows
  <2> QED
    BY <1>5, <1>6, <2>1, <2>2
<1>11. CASE Wake
  <2>1. run' = ResumeMigrate(run) /\ task'.signals = task.signals
    BY <1>1, <1>11 DEF Wake, Task
  <2>2. RunGrows(saved.run, run', Given)
    BY <1>1, <1>5, <2>1, ResumeMigrateGrows
  <2> QED
    BY <1>5, <1>6, <2>1, <2>2
<1> QED
  BY <1>7, <1>8, <1>9, <1>10, <1>11 DEF Code

\* A task that does not count leaves no trace: it begins again from what it began from, with what
\* has come since.
LEMMA ReplayEInv ==
  ASSUME IInv, EInv, RefuseTask \/ FailTask
  PROVE  EInv' /\ Dealt' = Dealt /\ Committed' = Committed
<1> DEFINE s == saved.task.signals
           signals == s \o inbox
<1>1. /\ Active /\ run' = saved.run /\ inbox' = <<>> /\ UNCHANGED <<status, sent>>
      /\ task' = [saved.task EXCEPT !.signals = signals]
      /\ saved' = [saved EXCEPT !.task = task']
  BY DEF RefuseTask, FailTask, Replay, TaskDone, Active
<1>2. /\ inbox \in Seq(Signal) /\ Len(inbox) \in Nat /\ sent \in Nat
      /\ saved \in [run : Run, task : Task] /\ saved.task \in Task
      /\ saved.run \in Run /\ saved.run.context \in Seq(Nat)
      /\ s \in Seq(Signal) /\ Len(s) \in Nat
  BY TaskTypes
<1>3. saved.task.phase # "idle" /\ Undecided(saved.run)
  BY <1>1 DEF EInv, Decided
<1>4. /\ task'.signals = signals /\ task'.phase = saved.task.phase
      /\ saved'.task = task' /\ saved'.run = saved.run
  BY <1>1, <1>2 DEF Task
<1>5. /\ Active' /\ Taken = s /\ Taken' = signals
      /\ Committed = saved.run /\ Committed' = saved.run
  BY <1>1, <1>3, <1>4 DEF Active, Taken, Committed
<1>6. /\ signals \in Seq(Signal) /\ Len(signals) = Len(s) + Len(inbox)
      /\ \A i \in 1..Len(s) : signals[i] = s[i]
      /\ \A i \in 1..Len(inbox) : signals[Len(s) + i] = inbox[i]
  BY <1>2
<1> HIDE DEF signals, s
<1>7. /\ Dealt = sent - Len(inbox) - Len(s) /\ Dealt \in Nat
      /\ Dealt' = sent - Len(inbox) - Len(s)
  <2>1. Dealt' = sent - 0 - (Len(s) + Len(inbox))
    BY <1>1, <1>5, <1>6 DEF Dealt
  <2> QED
    BY <1>1, <1>2, <1>5, <2>1 DEF Dealt, EInv, NoGap
<1>8. ASSUME NEW i \in 1..Len(signals) PROVE signals[i].id = Dealt + i
  <2>1. CASE i \in 1..Len(s)
    BY <1>1, <1>5, <1>6, <2>1 DEF EInv, NoGap
  <2>2. CASE i \notin 1..Len(s)
    <3> DEFINE k == i - Len(s)
    <3>1. k \in 1..Len(inbox) /\ i = Len(s) + k
      BY <1>2, <1>6, <2>2
    <3> HIDE DEF k
    <3>2. signals[i].id = sent - Len(inbox) + k
      BY <1>6, <3>1 DEF EInv, NoGap
    <3> QED
      BY <1>2, <1>7, <3>1, <3>2
  <2> QED
    BY <2>1, <2>2
<1>9. Dealt + Len(signals) = sent /\ Given' = Dealt + 1..sent
  BY <1>1, <1>2, <1>6, <1>7 DEF Given
<1>10. Ids(signals) \subseteq Given'
  BY <1>6, <1>7, <1>8, <1>9, NumberedIds
<1>11. NoGap'
  BY <1>1, <1>2, <1>4, <1>5, <1>7, <1>8, <1>10 DEF NoGap
<1>12. RunGrows(saved.run, saved.run, Given')
  BY <1>2, <1>3, GrowsNot DEF RunGrows, Undecided, Continues
<1>13. Decided'
  BY <1>1, <1>3, <1>4, <1>5, <1>12 DEF Decided
<1> QED
  BY <1>5, <1>7, <1>11, <1>13 DEF EInv

\* A task that is done has dealt with all it was given.
LEMMA CommitEInv ==
  ASSUME IInv, EInv, YieldTask \/ Complete \/ \E c \in Closing : NextRun(c)
  PROVE  /\ EInv' /\ Active /\ UNCHANGED sent
         /\ Dealt' = sent - Len(inbox) /\ Committed' = run'
<1>1. Active /\ ~Active' /\ UNCHANGED <<inbox, sent>>
  <2>1. TaskDone /\ task' = Idle /\ UNCHANGED <<inbox, sent>>
    BY DEF YieldTask, Complete, NextRun
  <2> QED
    BY <2>1 DEF TaskDone, Active, Idle
<1>2. status' = "completed" \/ Undecided(run')
  <2>1. CASE YieldTask
    BY <2>1 DEF YieldTask, Closing, Undecided
  <2>2. CASE Complete
    BY <2>2 DEF Complete
  <2>3. ASSUME NEW c \in Closing, NextRun(c) PROVE Undecided(run')
    BY <2>3 DEF NextRun, FreshRun, Undecided
  <2> QED
    BY <2>1, <2>2, <2>3
<1>3. Taken' = <<>> /\ Committed' = run'
  BY <1>1 DEF Taken, Committed, Active
<1>4. Len(inbox) \in Nat /\ sent \in Nat
  BY TaskTypes
<1>5. Dealt' = sent - Len(inbox)
  BY <1>1, <1>3, <1>4 DEF Dealt
<1>6. NoGap' /\ Decided'
  BY <1>1, <1>2 DEF EInv, NoGap, Decided
<1> QED
  BY <1>1, <1>3, <1>5, <1>6 DEF EInv

\* So every step keeps the facts about batches.
LEMMA NextEInv ==
  ASSUME IInv, EInv, [Next]_vars
  PROVE  EInv'
<1>1. sent + 1 \in Nat
  BY TaskTypes
<1>2. ASSUME NEW e \in Events, SendEvent(e) PROVE EInv'
  BY <1>1, <1>2, AcceptEInv DEF SendEvent, Signal, EventSignal
<1>3. ASSUME NEW q \in Queues, SendMigrate(q) PROVE EInv'
  BY <1>1, <1>3, AcceptEInv DEF SendMigrate, Signal, MigrateSignal
<1>4. ASSUME NEW q \in Queues, NEW s \in States, SendReset(q, s) PROVE EInv'
  BY <1>1, <1>4, AcceptEInv DEF SendReset, Signal, ResetSignal
<1>5. CASE UNCHANGED vars
  BY <1>5 DEF EInv, NoGap, Decided, Active, Given, Dealt, Taken, vars
<1> QED
  BY <1>2, <1>3, <1>4, <1>5, BeginEInv, CodeEInv, ReplayEInv, CommitEInv
     DEF Next, Client, Close

\* Accepting a signal is sending it.
LEMMA AcceptIsSend ==
  ASSUME IInv, EInv, NEW m \in Signal, m.id = sent + 1, Accept(m)
  PROVE  Promise!Send
<1>1. Dealt' = Dealt
  BY AcceptEInv
<1>2. /\ status = "running" /\ sent < MaxSignals /\ sent' = sent + 1
      /\ UNCHANGED <<status, run, task, saved>>
  BY DEF Accept
<1>3. Committed' = Committed
  BY <1>2 DEF Committed
<1> QED
  BY <1>1, <1>2, <1>3 DEF Promise!Send

\* To grow by signals of the task, in order, is to apply them.
LEMMA GrownIsApplied ==
  ASSUME IInv, EInv, Active, NEW c \in Seq(Nat),
         Grows(saved.run.context, c, Given), Increasing(c), Committed'.context = c
  PROVE  Promise!Applies(sent - Len(inbox))
<1>1. Committed.context = saved.run.context /\ saved.run.context \in Seq(Nat)
  BY TaskTypes DEF Committed, Active
<1> DEFINE old == saved.run.context
<1>2. Len(old) \in Nat /\ Len(c) \in Nat
  BY <1>1
<1>3. /\ Len(old) <= Len(c) /\ \A i \in 1..Len(old) : c[i] = old[i]
      /\ \A i \in Len(old) + 1..Len(c) : c[i] \in Dealt + 1..sent - Len(inbox)
  BY DEF Grows, Given
<1>4. ASSUME NEW i \in Len(old) + 1..Len(c), NEW j \in Len(old) + 1..Len(c), i < j
      PROVE  c[i] < c[j]
  <2>1. i \in 1..Len(c) /\ j \in 1..Len(c)
    BY <1>2
  <2> QED
    BY <1>4, <2>1 DEF Increasing
<1> QED
  BY <1>1, <1>3, <1>4 DEF Promise!Applies

\* Every step of the workflow is one of the entity, or none.
LEMMA StepIsPromised ==
  ASSUME IInv, OInv, EInv, [Next]_vars
  PROVE  [Promise!Next]_(Promise!vars)
<1>stutter. ASSUME UNCHANGED <<status, sent>>, Dealt' = Dealt, Committed' = Committed
            PROVE  UNCHANGED Promise!vars
  BY <1>stutter DEF Promise!vars
<1>1. CASE Client
  <2>1. sent + 1 \in Nat
    BY TaskTypes
  <2>2. ASSUME NEW e \in Events, SendEvent(e) PROVE Promise!Send
    BY <2>1, <2>2, AcceptIsSend DEF SendEvent, Signal, EventSignal
  <2>3. ASSUME NEW q \in Queues, SendMigrate(q) PROVE Promise!Send
    BY <2>1, <2>3, AcceptIsSend DEF SendMigrate, Signal, MigrateSignal
  <2>4. ASSUME NEW q \in Queues, NEW s \in States, SendReset(q, s) PROVE Promise!Send
    BY <2>1, <2>4, AcceptIsSend DEF SendReset, Signal, ResetSignal
  <2> QED
    BY <1>1, <2>2, <2>3, <2>4 DEF Client, Promise!Next
<1>2. CASE Begin
  <2>1. UNCHANGED <<status, sent>>
    BY <1>2 DEF Begin, BeginTask
  <2> QED
    BY <1>2, <1>stutter, <2>1, BeginEInv
<1>3. CASE Code
  BY <1>3, <1>stutter, CodeEInv
<1>4. CASE RefuseTask \/ FailTask
  <2>1. UNCHANGED <<status, sent>>
    BY <1>4 DEF RefuseTask, FailTask, Replay
  <2> QED
    BY <1>4, <1>stutter, <2>1, ReplayEInv
<1>5. CASE YieldTask \/ Complete \/ \E c \in Closing : NextRun(c)
  <2>1. /\ Active /\ UNCHANGED sent /\ Dealt' = sent - Len(inbox) /\ Committed' = run'
    BY <1>5, CommitEInv
  <2>2. /\ Committed = saved.run /\ Dealt \in Nat
        /\ RunGrows(saved.run, run, Given) /\ status = "running"
    BY <2>1 DEF Committed, Active, EInv, NoGap, Decided, IInv, TypeOK
  <2>3. /\ run \in Run /\ run.context \in Seq(Nat) /\ run.state \in States
        /\ Len(inbox) \in Nat /\ sent \in Nat
    BY TaskTypes DEF Run
  <2>4. Increasing(run.context) /\ Payloads(run)
    BY DEF OInv, InLine
  <2>5. ASSUME run' = run
        PROVE  /\ Promise!Handles(sent - Len(inbox)) /\ Promise!Applies(sent - Len(inbox))
               /\ Committed'.state = run.state /\ Committed'.queue = Committed.queue
    <3>1. Promise!Handles(sent - Len(inbox))
      BY <2>1, <2>2 DEF Promise!Handles
    <3>2. Grows(saved.run.context, run.context, Given) /\ run.queue = saved.run.queue
      BY <2>2 DEF RunGrows
    <3>3. Promise!Applies(sent - Len(inbox))
      BY <2>1, <2>3, <2>4, <2>5, <3>2, GrownIsApplied
    <3> QED
      BY <2>1, <2>2, <2>5, <3>1, <3>2, <3>3
  <2>6. CASE YieldTask
    <3>1. run' = run /\ status' = status
      BY <2>6 DEF YieldTask
    <3>2. sent - Len(inbox) \in Dealt..sent
      <4>1. Len(Taken) \in Nat
        BY TaskTypes
      <4> QED
        BY <2>2, <2>3, <4>1 DEF Dealt
    <3>3. Promise!Batch(sent - Len(inbox))
      BY <2>3, <2>5, <3>1 DEF Promise!Batch
    <3> QED
      BY <3>2, <3>3 DEF Promise!Next
  <2>7. CASE Complete
    <3>1. run' = run /\ status' = "completed" /\ inbox = <<>> /\ Completed \in Closing
      BY <2>7 DEF Complete
    <3>2. run.blocker = Completed
      BY <2>3, <3>1, OutcomesDiffer DEF Closing, Run
    <3>3. run.state \in Final
      BY <3>2 DEF IInv, RunInv
    <3>4. sent - Len(inbox) = sent
      BY <2>3, <3>1
    <3>5. Promise!Complete
      BY <2>5, <3>1, <3>3, <3>4 DEF Promise!Complete
    <3> QED
      BY <3>5 DEF Promise!Next
  <2>8. ASSUME NEW c \in Closing, NextRun(c) PROVE Promise!Next
    <3>1. /\ inbox = <<>> /\ c \in Closing \ {Completed} /\ status' = status
          /\ run'.queue = c.queue /\ run'.state = c.state /\ run'.context = c.context
      BY <2>8 DEF NextRun, FreshRun
    <3>2. c \in Continuation
      BY <3>1, ClosingContinues
    <3>3. c.queue \in Queues /\ c.state \in States /\ c.context \in Seq(Nat)
      BY <3>2 DEF Continuation
    <3>4. sent - Len(inbox) = sent
      BY <2>3, <3>1
    <3>5. Promise!Handles(sent)
      BY <2>1, <2>2, <3>4 DEF Promise!Handles
    <3>6. Continues(c) /\ c # Pending /\ c \in {run.blocker, run.reset}
      BY <3>1 DEF Closing, Continues
    <3>7. CASE c = run.blocker
      <4>1. Grows(saved.run.context, c.context, Given)
        BY <2>2, <3>6, <3>7 DEF RunGrows
      <4>2. Increasing(c.context)
        BY <2>4, <3>6 DEF Payloads
      <4>3. Promise!Applies(sent)
        BY <2>1, <3>1, <3>3, <3>4, <4>1, <4>2, GrownIsApplied
      <4>4. CanMigrate(c.state)
        BY <3>6, <3>7 DEF IInv, RunInv
      <4>5. Promise!Move
        BY <2>1, <3>1, <3>3, <3>5, <4>3, <4>4 DEF Promise!Move
      <4> QED
        BY <4>5 DEF Promise!Next
    <3>8. CASE c = run.reset
      <4>1. c.context = <<>>
        BY <2>2, <3>6, <3>8 DEF RunGrows
      <4>2. Promise!Reset
        BY <2>1, <3>1, <3>3, <3>5, <4>1 DEF Promise!Reset
      <4> QED
        BY <4>2 DEF Promise!Next
    <3> QED
      BY <3>6, <3>7, <3>8
  <2> QED
    BY <1>5, <2>6, <2>7, <2>8
<1>6. CASE UNCHANGED vars
  <2>1. Dealt' = Dealt /\ Committed' = Committed
    BY <1>6 DEF vars, Dealt, Taken, Committed
  <2> QED
    BY <1>6, <1>stutter, <2>1 DEF vars
<1> QED
  BY <1>1, <1>2, <1>3, <1>4, <1>5, <1>6 DEF Next, Close

\* To those who signal it a workflow is an entity that takes its signals batch by batch:
\* a replayed task leaves no trace, signals are applied in order, those it has applied
\* go along to every version it moves to, and it moves only in a state that may.
THEOREM ImplementsEntity == Spec => IsEntity
<1>1. Init => Promise!Init
  <2> SUFFICES ASSUME Init PROVE Promise!Init
    OBVIOUS
  <2>1. /\ task.phase = "idle" /\ inbox = <<>> /\ sent = 0 /\ status = "running"
        /\ run.queue = FirstQueue /\ run.state = InitialState /\ run.context = <<>>
    BY DEF Init, Idle, FreshRun
  <2>2. Committed = run /\ Taken = <<>>
    BY <2>1 DEF Committed, Taken
  <2>3. Dealt = 0
    <3>1. Len(inbox) = 0 /\ Len(Taken) = 0
      BY <2>1, <2>2
    <3> QED
      BY <2>1, <3>1, NothingLeft, Zenon DEF Dealt
  <2> QED
    BY <2>1, <2>2, <2>3 DEF Promise!Init
<1>2. IInv /\ OInv /\ EInv /\ [Next]_vars => EInv' /\ [Promise!Next]_(Promise!vars)
  BY NextEInv, StepIsPromised
<1> QED
  BY <1>1, <1>2, IInvHolds, OInvHolds, InitEInv, PTL DEF Spec, IsEntity, Promise!Spec

\* What a move loses was applied in the very task that ends with it.
LosesOwnSignals == [][\A x \in lost' \ lost : x \in Dealt + 1..sent]_vars

\* "Defer executing the body of this function until other async operations are
\* complete; this includes receiving signals" does not hold of a migration that waited,
\* but what it can lose is bounded: signals of the task in which it takes place, never
\* one that was applied in a task before.
THEOREM LossIsOfOneTask == Spec => LosesOwnSignals
<1>1. ASSUME IInv, EInv, [Next]_vars, NEW x \in lost' \ lost
      PROVE  x \in Dealt + 1..sent
  <2>1. PICK c \in Closing : NextRun(c)
    <3>1. lost' # lost
      BY <1>1
    <3>2. UNCHANGED lost \/ \E c \in Closing : NextRun(c)
      BY <1>1 DEF Next, vars, Client, SendEvent, SendMigrate, SendReset, Accept, Begin,
                  BeginTask, Code, StartRun, NextSignal, EndSignals, InternalEvent, Wake,
                  Close, YieldTask, RefuseTask, FailTask, Replay, Complete
    <3> QED
      BY <3>1, <3>2
  <2>2. /\ inbox = <<>> /\ c \in Closing \ {Completed} /\ c.via # "reset"
        /\ x \in Elems(run.context) \ Elems(c.context)
    BY <1>1, <2>1 DEF NextRun
  <2>3. Active /\ RunGrows(saved.run, run, Given)
    BY <1>1, <2>1, CommitEInv DEF EInv, Decided
  <2>4. c = run.blocker /\ Continues(c) /\ c.context \in Seq(Nat)
    <3>1. c \in Continuation
      BY <1>1, <2>2, ClosingContinues
    <3> QED
      BY <2>2, <2>3, <3>1 DEF RunGrows, Closing, Continues, Continuation
  <2> DEFINE old == saved.run.context
  <2>5. /\ run.context \in Seq(Nat) /\ old \in Seq(Nat)
        /\ Len(inbox) = 0 /\ sent \in Nat
    BY <1>1, <2>2, TaskTypes
  <2>6. PICK i \in 1..Len(run.context) : x = run.context[i]
    BY <2>2 DEF Elems
  <2>7. Grows(old, run.context, Given) /\ Grows(old, c.context, Given)
    BY <2>3, <2>4 DEF RunGrows
  <2>8. i \notin 1..Len(old)
    <3> SUFFICES ASSUME i \in 1..Len(old) PROVE FALSE
      OBVIOUS
    <3>1. c.context[i] = x /\ i \in 1..Len(c.context)
      BY <2>4, <2>5, <2>6, <2>7 DEF Grows
    <3> QED
      BY <2>2, <3>1 DEF Elems
  <2>9. x \in Given
    BY <2>5, <2>6, <2>7, <2>8 DEF Grows
  <2> QED
    BY <2>5, <2>9 DEF Given
<1>2. IInv /\ EInv /\ [Next]_vars => [\A x \in lost' \ lost : x \in Dealt + 1..sent]_vars
  BY <1>1
<1>3. IInv /\ EInv /\ [Next]_vars => EInv'
  BY NextEInv
<1> QED
  BY <1>2, <1>3, IInvHolds, InitEInv, PTL DEF Spec, LosesOwnSignals

-----------------------------------------------------------------------------
(* No wake-up is missed: what the two waits of the end of a run rest on    *)
(* (FinishedMachineCloses, WaitingMigrationHappens), whatever is fair.     *)

\* A migration waits only in a state that may not migrate, and a machine that is done
\* has settled the blocker unless a migration waits and the state may not migrate.
\* So nobody waits for a notification that has come already: subscribing after the
\* check, dropping a subscription, or replaying a task never slips one by.
Awake(r) ==
  /\ r.target # NoQueue => ~CanMigrate(r.state)
  /\ r.started /\ r.state \in Final /\ (r.awaiting => CanMigrate(r.state))
       => r.blocker # Pending

NoWakeUpIsMissed == Awake(run)

WInv == Awake(run) /\ Awake(saved.run)

\* Every notification leaves a started run awake.
LEMMA NotifyAwake ==
  ASSUME NEW r, StartedInv(r), NEW s, NEW c
  PROVE  Awake(Notify(r, s, c))
<1> DEFINE n == Notify(r, s, c)
           fires == r.target # NoQueue /\ CanMigrate(s)
           o == ContinueAsNew("deferred", r.target, s, c)
<1>1. /\ n.state = s /\ n.awaiting = r.awaiting
      /\ n.target = IF fires THEN NoQueue ELSE r.target
      /\ n.blocker = IF fires THEN Settle(r.blocker, o)
                     ELSE IF s \in Final /\ ~r.awaiting
                          THEN Settle(r.blocker, Completed) ELSE r.blocker
  BY DEF Notify, Run, StartedInv, RunInv
<1>2. r.awaiting => r.target # NoQueue \/ r.blocker # Pending
  BY DEF StartedInv, RunInv
<1>3. r.awaiting \in BOOLEAN
  BY DEF StartedInv, RunInv, Run
<1>4. o # Pending /\ Completed # Pending
  BY DEF ContinueAsNew, Pending, Completed
<1>5. n.target # NoQueue => ~CanMigrate(s)
  BY <1>1
<1>6. ASSUME s \in Final, r.awaiting => CanMigrate(s)
      PROVE  n.blocker # Pending
  <2>1. CASE fires
    BY <1>1, <1>4, <2>1 DEF Settle
  <2>2. CASE ~fires /\ ~r.awaiting
    BY <1>1, <1>4, <1>6, <2>2 DEF Settle
  <2>3. CASE ~fires /\ r.awaiting
    BY <1>1, <1>2, <1>6, <2>3
  <2> QED
    BY <2>1, <2>2, <2>3
<1> HIDE DEF n
<1>7. Awake(n)
  BY <1>1, <1>5, <1>6 DEF Awake
<1> QED
  BY <1>7 DEF n

\* So does every signal.
LEMMA HandleSignalAwake ==
  ASSUME NEW r, StartedInv(r), Awake(r), NEW m \in Signal
  PROVE  Awake(HandleSignal(r, m))
<1> DEFINE n == HandleSignal(r, m)
<1>1. CASE m.kind = "event" /\ ~(m.event \in Undecodable \/ r.state \in Final)
  BY <1>1, NotifyAwake DEF HandleSignal, HandleEvent
<1>2. CASE ~(m.kind = "event" /\ ~(m.event \in Undecodable \/ r.state \in Final))
  <2>1. /\ n.target = r.target /\ n.state = r.state /\ n.started = r.started
        /\ n.awaiting = r.awaiting /\ n.blocker = r.blocker
    BY <1>2, SignalKinds
       DEF HandleSignal, HandleEvent, HandleMigrate, HandleReset, Run, StartedInv, RunInv
  <2> HIDE DEF n
  <2>2. Awake(n)
    BY <2>1 DEF Awake
  <2> QED
    BY <2>2 DEF n
<1> QED
  BY <1>1, <1>2

\* And handleMigrate after its sleep: it settles, or it waits where it must.
LEMMA ResumeMigrateAwake ==
  ASSUME NEW r, StartedInv(r)
  PROVE  Awake(ResumeMigrate(r))
<1> DEFINE n == ResumeMigrate(r)
           o == ContinueAsNew("at once", Head(r.sleeping), r.state, r.context)
<1>1. r \in Run
  BY DEF StartedInv, RunInv
<1>2. CASE CanMigrate(r.state)
  <2>1. n.target = NoQueue /\ n.blocker = Settle(r.blocker, o)
    BY <1>1, <1>2 DEF ResumeMigrate, Run
  <2>2. o.kind = "continue"
    BY DEF ContinueAsNew
  <2> HIDE DEF n, o
  <2>3. n.blocker # Pending
    BY <2>1, <2>2 DEF Settle, Pending
  <2>4. Awake(n)
    BY <2>1, <2>3 DEF Awake
  <2> QED
    BY <2>4 DEF n
<1>3. CASE ~CanMigrate(r.state)
  <2>1. n.state = r.state /\ n.awaiting = TRUE
    BY <1>1, <1>3 DEF ResumeMigrate, Run
  <2> HIDE DEF n
  <2>2. Awake(n)
    BY <1>3, <2>1 DEF Awake
  <2> QED
    BY <2>2 DEF n
<1> QED
  BY <1>2, <1>3

LEMMA CodeAwake == IInv /\ WInv /\ Code => WInv'
<1> SUFFICES ASSUME IInv, WInv, Code PROVE WInv'
  OBVIOUS
<1>1. /\ saved' = saved /\ RunInv(run) /\ TaskInv(run, task)
      /\ run \in Run /\ task \in Task /\ task.signals \in Seq(Signal)
  BY DEF Code, StartRun, NextSignal, EndSignals, InternalEvent, Wake, IInv,
         RunInv, TaskInv, Task
<1>2. task.phase \in {"signals", "rest"} => StartedInv(run)
  BY <1>1 DEF TaskInv, StartedInv
<1>3. CASE StartRun
  <2> DEFINE s == IF runs = 1 THEN run.state ELSE Receive[run.queue][run.state]
             r == [run EXCEPT !.started = TRUE]
  <2>1. task.phase = "start" /\ run' = Notify(r, s, run.context)
    BY <1>3 DEF StartRun
  <2>2. /\ r \in Run /\ r.started /\ r.blocker = run.blocker
        /\ r.awaiting = run.awaiting /\ r.target = run.target /\ r.state = run.state
    BY <1>1 DEF Run
  <2> HIDE DEF r, s
  <2>3. StartedInv(r)
    BY <1>1, <2>2 DEF StartedInv, RunInv
  <2> QED
    BY <1>1, <2>1, <2>3, NotifyAwake DEF WInv
<1>4. CASE NextSignal
  <2> DEFINE m == Head(task.signals)
  <2>1. task.phase = "signals" /\ task.signals # <<>> /\ run' = HandleSignal(run, m)
    BY <1>4 DEF NextSignal
  <2>2. m \in Signal
    BY <1>1, <2>1
  <2> QED
    BY <1>1, <1>2, <2>1, <2>2, HandleSignalAwake DEF WInv
<1>5. CASE EndSignals
  BY <1>1, <1>5 DEF EndSignals, WInv
<1>6. CASE InternalEvent
  BY <1>1, <1>2, <1>6, NotifyAwake DEF InternalEvent, WInv
<1>7. CASE Wake
  BY <1>1, <1>2, <1>7, ResumeMigrateAwake DEF Wake, WInv
<1> QED
  BY <1>3, <1>4, <1>5, <1>6, <1>7 DEF Code

LEMMA CloseAwake == IInv /\ WInv /\ Close => WInv'
<1> SUFFICES ASSUME IInv, WInv, Close PROVE WInv'
  OBVIOUS
<1>1. CASE YieldTask \/ Complete
  BY <1>1 DEF YieldTask, Complete, WInv
<1>2. CASE RefuseTask \/ FailTask
  <2>1. run' = saved.run /\ saved' = [saved EXCEPT !.task = task']
    BY <1>2 DEF RefuseTask, FailTask, Replay
  <2>2. saved'.run = saved.run
    BY <2>1 DEF IInv, TypeOK
  <2> QED
    BY <2>1, <2>2 DEF WInv
<1>3. ASSUME NEW c \in Closing, NextRun(c) PROVE WInv'
  <2> DEFINE gone == Elems(run.context) \ Elems(c.context)
             used == IF c.via = "reset" THEN run.consumed \cup gone
                                        ELSE run.consumed
  <2>1. saved' = saved /\ run' = FreshRun(c.queue, c.state, c.context, used)
    BY <1>3 DEF NextRun
  <2>2. run'.target = NoQueue /\ run'.started = FALSE
    BY <2>1 DEF FreshRun
  <2> QED
    BY <2>1, <2>2 DEF WInv, Awake
<1> QED
  BY <1>1, <1>2, <1>3 DEF Close

\* However signals, migrations and replays fall, no run waits for what has happened
\* already: the machine's next transition, or a task, is all its wait depends on.
THEOREM WaitsAreForWhatIsToCome == Spec => []NoWakeUpIsMissed
<1>1. Init => WInv
  <2> SUFFICES ASSUME Init PROVE WInv
    OBVIOUS
  <2>1. run.target = NoQueue /\ run.started = FALSE /\ saved.run = run
    BY DEF Init, FreshRun
  <2> QED
    BY <2>1 DEF WInv, Awake
<1>2. IInv /\ WInv /\ [Next]_vars => WInv'
  <2> SUFFICES ASSUME IInv, WInv, [Next]_vars PROVE WInv'
    OBVIOUS
  <2>1. CASE UNCHANGED vars
    BY <2>1 DEF WInv, vars
  <2>2. CASE Client
    BY <2>2 DEF Client, SendEvent, SendMigrate, SendReset, Accept, WInv
  <2>3. CASE Begin
    <3>1. PICK k \in 0..Len(run.sleeping), due \in BOOLEAN : BeginTask(k, due)
      BY <2>3 DEF Begin
    <3>2. run' = run /\ saved'.run = run
      BY <3>1 DEF BeginTask
    <3> QED
      BY <3>2 DEF WInv
  <2> QED
    BY <2>1, <2>2, <2>3, CodeAwake, CloseAwake DEF Next
<1>3. WInv => NoWakeUpIsMissed
  BY DEF WInv, NoWakeUpIsMissed
<1> QED
  BY <1>1, <1>2, <1>3, IInvHolds, PTL DEF Spec

=============================================================================
