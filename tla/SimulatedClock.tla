----------------------------- MODULE SimulatedClock -----------------------------
(***************************************************************************)
(* The clock of tests (migrate/src/clock.ts, SimulatedClock and TestClock, *)
(* which adds nothing to it): timers fire only in set and increment, which *)
(* go through a sorted copy of the timers there are when they begin.       *)
(*                                                                         *)
(* The callback of a timer is any program: it may set timers, clear them   *)
(* and move the clock, and then another flush runs inside the first, or it *)
(* may throw, and the flush that called it is given up.                    *)
(***************************************************************************)
EXTENDS Naturals, Sequences, FiniteSets

CONSTANTS
  Timeouts,   \* the delays timers are given
  MaxTimers,  \* bounds the timers set
  MaxTime,    \* bounds the clock
  MaxDepth    \* bounds flushes inside flushes

ASSUME ClockAssumption ==
  /\ Timeouts \subseteq Nat
  /\ MaxTimers \in Nat
  /\ MaxTime \in Nat
  /\ MaxDepth \in Nat

VARIABLES
  _now,      \* the time
  _id,       \* the next timer's id
  timeouts,  \* the timers that are set, by id
  flushes,   \* the calls of flushTimeouts on the stack, the innermost last
  fired,     \* history: the timers that have fired, in that order
  cleared,   \* history: timers cleared when no flush was under way
  nested,    \* history: whether a callback has moved the clock
  thrown     \* history: whether one has thrown since the test last moved it

clockVars == <<_now, _id, timeouts, flushes, fired, cleared, nested, thrown>>

Timer == [id : 0..MaxTimers, start : 0..MaxTime, timeout : Timeouts]

End(t) == t.start + t.timeout

\* A flush has timers to go through, and the callback of the last may be running.
Flush == [rest : Seq(Timer), calling : BOOLEAN]

Depth == Len(flushes)
Top   == flushes[Depth]

\* A test or a callback is running, which may use the clock.
Running == Depth > 0 => Top.calling

-----------------------------------------------------------------------------
\* Wrong on purpose: timers go in the order they were set.
BeforeById(s, t) == s.id < t.id

\* The comparator never says that two timers are equal; of two that end at the same
\* time the sort leaves the one set first in front.
Before(s, t) == End(s) < End(t) \/ (End(s) = End(t) /\ s.id < t.id)

Sorted(timers) ==
  LET place(t) == 1 + Cardinality({s \in timers : Before(s, t)})
  IN  [i \in 1..Cardinality(timers) |-> CHOOSE t \in timers : place(t) = i]

Set == {timeouts[id] : id \in DOMAIN timeouts}

-----------------------------------------------------------------------------
SetTimeout(timeout) ==
  /\ Running
  /\ _id < MaxTimers
  /\ timeouts' = [id \in DOMAIN timeouts \cup {_id} |->
                    IF id = _id THEN [id |-> id, start |-> _now, timeout |-> timeout]
                    ELSE timeouts[id]]
  /\ _id' = _id + 1
  /\ UNCHANGED <<_now, flushes, fired, cleared, nested, thrown>>

ClearTimeout(id) ==
  /\ Running
  /\ timeouts' = [i \in DOMAIN timeouts \ {id} |-> timeouts[i]]
  /\ cleared' = IF Depth = 0 THEN cleared \cup {id} ELSE cleared
  /\ UNCHANGED <<_now, _id, flushes, fired, nested, thrown>>

ClearAllTimers ==
  /\ Running
  /\ timeouts # <<>>
  /\ timeouts' = <<>>
  /\ cleared' = IF Depth = 0 THEN cleared \cup DOMAIN timeouts ELSE cleared
  /\ UNCHANGED <<_now, _id, flushes, fired, nested, thrown>>

\* Wrong on purpose: a flush that is under way is left to find what is due.
MoveQuietly(time) ==
  /\ Running
  /\ Depth < MaxDepth
  /\ _now <= time
  /\ _now' = time
  /\ flushes' = IF Depth > 0 THEN flushes
                ELSE <<[rest |-> Sorted(Set), calling |-> FALSE]>>
  /\ nested' = (nested \/ Depth > 0)
  /\ thrown' = (thrown /\ Depth > 0)
  /\ UNCHANGED <<_id, timeouts, fired, cleared>>

\* set and increment move the clock, never back, and flush.
MoveTo(time) ==
  /\ Running
  /\ Depth < MaxDepth
  /\ _now <= time
  /\ _now' = time
  /\ flushes' = Append(flushes, [rest |-> Sorted(Set), calling |-> FALSE])
  /\ nested' = (nested \/ Depth > 0)
  /\ thrown' = (thrown /\ Depth > 0)
  /\ UNCHANGED <<_id, timeouts, fired, cleared>>

-----------------------------------------------------------------------------
Due(t) == _now - t.start >= t.timeout

Replace(flush) == flushes' = [flushes EXCEPT ![Depth] = flush]

\* The next timer of the copy: if it is due it is deleted and its callback called,
\* whether it is still set or not.
Visit ==
  /\ ~Running
  /\ Top.rest # <<>>
  /\ LET t == Head(Top.rest)
     IN  \/ /\ Due(t)
            /\ timeouts' = [i \in DOMAIN timeouts \ {t.id} |-> timeouts[i]]
            /\ fired' = Append(fired, t)
            /\ Replace([rest |-> Tail(Top.rest), calling |-> TRUE])
         \/ /\ ~Due(t)
            /\ Replace([rest |-> Tail(Top.rest), calling |-> FALSE])
            /\ UNCHANGED <<timeouts, fired>>
  /\ UNCHANGED <<_now, _id, cleared, nested, thrown>>

\* A callback returns.
CallbackEnds ==
  /\ Depth > 0
  /\ Top.calling
  /\ Replace([Top EXCEPT !.calling = FALSE])
  /\ UNCHANGED <<_now, _id, timeouts, fired, cleared, nested, thrown>>

\* A callback throws, or what it has called throws: the rest of the copy is not gone
\* through.  The call that moved the clock throws to the test or to the callback it
\* was made by, which goes on or throws in turn.
CallbackThrows ==
  /\ Depth > 0
  /\ Top.calling
  /\ flushes' = SubSeq(flushes, 1, Depth - 1)
  /\ thrown' = TRUE
  /\ UNCHANGED <<_now, _id, timeouts, fired, cleared, nested>>

\* flushTimeouts returns, to the test or to the callback that moved the clock.
FlushEnds ==
  /\ ~Running
  /\ Top.rest = <<>>
  /\ flushes' = SubSeq(flushes, 1, Depth - 1)
  /\ UNCHANGED <<_now, _id, timeouts, fired, cleared, nested, thrown>>

-----------------------------------------------------------------------------
ClockInit ==
  /\ _now = 0
  /\ _id = 0
  /\ timeouts = <<>>
  /\ flushes = <<>>
  /\ fired = <<>>
  /\ cleared = {}
  /\ nested = FALSE
  /\ thrown = FALSE

ClockNext ==
  \/ \E timeout \in Timeouts : SetTimeout(timeout)
  \/ \E id \in DOMAIN timeouts : ClearTimeout(id)
  \/ ClearAllTimers
  \/ \E time \in 0..MaxTime : MoveTo(time)
  \/ Visit
  \/ CallbackEnds
  \/ CallbackThrows
  \/ FlushEnds

ClockSpec == ClockInit /\ [][ClockNext]_clockVars

-----------------------------------------------------------------------------
(* Properties *)

ClockTypeOK ==
  /\ _now \in 0..MaxTime
  /\ _id \in 0..MaxTimers
  /\ DOMAIN timeouts \subseteq 0..(_id - 1)
  /\ \A id \in DOMAIN timeouts : timeouts[id] \in Timer /\ timeouts[id].id = id
  /\ flushes \in Seq(Flush)
  /\ fired \in Seq(Timer)
  /\ cleared \subseteq 0..MaxTimers
  /\ nested \in BOOLEAN
  /\ thrown \in BOOLEAN

\* When set or increment have returned to the test, no timer is overdue, whatever the
\* callbacks did, if none has thrown: only one that was to fire at once is left for
\* the next flush.  One that has thrown is made up for by the next flush.
NothingOverdue ==
  Depth = 0 /\ ~thrown => \A id \in DOMAIN timeouts :
    _now < End(timeouts[id]) \/ timeouts[id].timeout = 0

\* Unless a callback moves the clock, timers fire in the order of their ends, over all
\* flushes, none fires before its end or twice, and none that the test has cleared.
FiresInOrderOnce ==
  ~nested =>
    /\ \A i, j \in DOMAIN fired : i < j => End(fired[i]) <= End(fired[j])
                                           /\ fired[i].id # fired[j].id
    /\ \A i \in DOMAIN fired : End(fired[i]) <= _now /\ fired[i].id \notin cleared

=============================================================================
