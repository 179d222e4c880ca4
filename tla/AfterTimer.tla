------------------------------ MODULE AfterTimer ------------------------------
(***************************************************************************)
(* One delayed transition (`after`) of one state of the machine, across    *)
(* runs of the workflow: what the interpreter records about the timer,     *)
(* what the clock has armed, and how the next run restores it.             *)
(*                                                                         *)
(* Every timer has an entry of its own in data.timers.  The others matter  *)
(* to it where a run starts: the timers to start and those to restore are  *)
(* two lists, each armed by one subscriber in one loop, and a timer that   *)
(* throws breaks its list off.  The timers before it are armed by then,    *)
(* those after it are not, and the subscriber, which would have            *)
(* unsubscribed at the end of the loop, runs the list again whenever the   *)
(* machine is in the state of the start.                                   *)
(*                                                                         *)
(* Time is discrete.  A timer that is due fires before time goes on while  *)
(* a run is up; between two runs any time may pass.                        *)
(***************************************************************************)
EXTENDS Integers

CONSTANTS
  Versions,       \* versions of the code
  FirstVersion,
  Delay,          \* Delay[v]: value of the delay in v
  Has,            \* versions in which the state has the delayed transition
  Named,          \* versions with a delay function under its name, be it that
                  \* the state has the transition or no longer has it; in the
                  \* rest the delay is written in the machine (after: 5)
  ReadsContext,   \* versions whose delay function reads context of its argument
  Throws,         \* versions in which arming another timer of a list throws
  Leaves,         \* versions whose migration function maps the state elsewhere
  Keeps,          \* those of them that return the timer all the same
  Exiting,        \* versions in which the transition leaves the state; in the
                  \* rest its guard fails, or it has no target
  MaxTime,        \* bound on time
  MaxMigrations   \* bound on migrations

ASSUME VersionsAssumption == /\ FirstVersion \in Versions
                             /\ Has \subseteq Versions
                             /\ Named \subseteq Versions
                             /\ ReadsContext \subseteq Versions
                             /\ Throws \subseteq Versions
                             /\ Leaves \subseteq Versions
                             /\ Keeps \subseteq Leaves
                             /\ Exiting \subseteq Versions
ASSUME DelayAssumption    == Delay \in [Versions -> Nat \ {0}]
ASSUME BoundAssumption    == MaxTime \in Nat /\ MaxMigrations \in Nat

VARIABLES
  now,
  version,     \* version of the current run
  up,          \* FALSE from continue-as-new to the start of the next run
  inState,     \* is the state with the delayed transition active
  entry,       \* data.timers[id], or None
  pending,     \* when the timer that cancel would clear fires, or None
  orphans,     \* when the timers fire that were overwritten under the same id
  list,        \* the list of this run that broke off and is run again, or NoList
  migrations,
  since,       \* history: when the delay began (the state was entered, or a
               \* version arrived that has the delay)
  resumed,     \* history: when the current run started
  fired,       \* history: how often the timer fired in this visit of the state
  skipped,     \* history: was the timer of this visit behind the break of a list
  kept,        \* history: has a migration function left the state and returned
               \* its timer all the same
  dropped      \* history: has a version without the transition restored it

vars == <<now, version, up, inState, entry, pending, orphans, list, migrations,
          since, resumed, fired, skipped, kept, dropped>>

None == -1
NoEntry == [start |-> None, delay |-> None]
Entry   == [start : Nat, delay : Nat]

\* A broken list by what of it concerns the timer: the entry it is restored from
\* (none, if the list starts it, which it does only in the state), and whether
\* the run started in the state.
NoList == [entry |-> NoEntry, in |-> FALSE]
List   == [entry : Entry \cup {NoEntry}, in : BOOLEAN]

-----------------------------------------------------------------------------
(* The arithmetic of restoreTimersOnStart.                                 *)

AtLeastOne(n) == IF n <= 0 THEN 1 ELSE n

\* Wrong on purpose: a changed delay is lengthened; the delay begins anew.
RestoredDelayWhole(e, d, t) ==
  IF d = e.delay THEN AtLeastOne(e.delay - (t - e.start)) ELSE d + (t - e.start)
RestoredDelayAnew(e, d, t) == d

\* What is armed at time t for an entry e when the delay is d by now.  An
\* entry whose delay is still what the function returns keeps the time it has
\* left; any other is given a new fire time.
RestoredDelay(e, d, t) ==
  LET elapsed == t - e.start
      fireAt  == e.start - elapsed + d
  IN  IF d = e.delay THEN AtLeastOne(e.delay - elapsed)
                     ELSE AtLeastOne(fireAt - t)

-----------------------------------------------------------------------------
Init ==
  /\ now = 0
  /\ version = FirstVersion
  /\ up = TRUE
  /\ inState = FALSE
  /\ entry = NoEntry
  /\ pending = None
  /\ orphans = {}
  /\ list = NoList
  /\ migrations = 0
  /\ since = None
  /\ resumed = 0
  /\ fired = 0
  /\ skipped = FALSE
  /\ kept = FALSE
  /\ dropped = FALSE

\* Wrong on purpose: the record keeps the delay of the function.
DelaySendNominal(delay) ==
  /\ pending' = now + delay
  /\ orphans' = IF pending = None THEN orphans ELSE orphans \cup {pending}
  /\ entry' = [start |-> now, delay |-> Delay[version']]

\* interpreter.delaySend: arms a timer and records it.  The handle of a timer
\* armed before under the id is overwritten, and that timer stays armed.
DelaySend(delay) ==
  /\ pending' = now + delay
  /\ orphans' = IF pending = None THEN orphans ELSE orphans \cup {pending}
  /\ entry' = [start |-> now, delay |-> delay]

\* Wrong on purpose: the record is not deleted.
CancelKeepsEntry ==
  /\ pending' = None
  /\ entry' = entry
  /\ orphans' = orphans

\* interpreter.cancel, called when a state with the transition is left.
Cancel ==
  /\ pending' = None
  /\ entry' = NoEntry
  /\ orphans' = orphans

Enter ==
  /\ up
  /\ ~inState
  /\ inState' = TRUE
  /\ since' = now
  /\ fired' = 0
  /\ skipped' = FALSE
  /\ version' = version
  /\ IF version \in Has THEN DelaySend(Delay[version])
                       ELSE UNCHANGED <<entry, pending, orphans>>
  /\ UNCHANGED <<now, up, list, migrations, resumed, kept, dropped>>

\* Leaving cancels the timers of the transitions the state has in this version.
Exit ==
  /\ up
  /\ inState
  /\ inState' = FALSE
  /\ IF version \in Has THEN Cancel ELSE UNCHANGED <<entry, pending, orphans>>
  /\ UNCHANGED <<now, version, up, list, migrations, since, resumed, fired,
                 skipped, kept, dropped>>

\* Does the event of the timer take a transition, and does that leave the state.
Taken  == inState /\ version \in Has
Leaving == Taken /\ version \in Exiting

\* A timer fires.  The machine ignores its event outside the state, and in it
\* where the version has no such transition; if the transition is taken, the
\* entry is deleted only if the state is left.
Fire ==
  /\ up
  /\ \/ /\ pending # None /\ pending <= now
        /\ IF Leaving
           THEN Cancel
           ELSE pending' = None /\ UNCHANGED <<entry, orphans>>
     \/ \E t \in orphans :
          /\ t <= now
          /\ orphans' = orphans \ {t}
          /\ IF Leaving THEN pending' = None /\ entry' = NoEntry
                        ELSE UNCHANGED <<entry, pending>>
  /\ inState' = (inState /\ ~Leaving)
  /\ fired' = IF Taken THEN fired + 1 ELSE fired
  /\ UNCHANGED <<now, version, up, list, migrations, since, resumed, skipped,
                 kept, dropped>>

\* continueAsNew with data.timers; the armed timers end with the run.
Migrate(v) ==
  /\ up
  /\ migrations < MaxMigrations
  /\ migrations' = migrations + 1
  /\ version' = v
  /\ up' = FALSE
  /\ pending' = None
  /\ orphans' = {}
  /\ list' = NoList
  /\ skipped' = FALSE
  /\ UNCHANGED <<now, inState, entry, since, resumed, fired, kept, dropped>>

\* The migration function maps the state to another and drops its timer.
Omitted == inState /\ version \in Leaves \ Keeps

\* A list that has the timer armed or, in a version where it may throw at
\* another one, was broken off: after the timer, or before it.
Armed(e, d) ==
  /\ DelaySend(d)
  /\ skipped' = FALSE
  /\ \/ list' = NoList
     \/ version \in Throws /\ list' = [entry |-> e, in |-> inState']

Skipped(e) ==
  /\ version \in Throws
  /\ entry' = NoEntry
  /\ skipped' = TRUE
  /\ list' = [entry |-> e, in |-> inState']
  /\ UNCHANGED <<pending, orphans>>

NotArmed ==
  /\ entry' = NoEntry
  /\ skipped' = FALSE
  /\ list' = NoList
  /\ UNCHANGED <<pending, orphans>>

\* Wrong on purpose: only restored timers are started.
StartNewTimerNever ==
  /\ inState'
  /\ entry = NoEntry
  /\ version \in Has
  /\ NotArmed
  /\ UNCHANGED <<since, dropped>>

\* startTimersOnStart: the state has a timer the continuation has no entry for.
\* It throws when there is no function under the name, and calls the function
\* with the context where the machine passes { context }.
StartNewTimer ==
  /\ inState'
  /\ entry = NoEntry
  /\ version \in Has
  /\ IF version \in Named \ ReadsContext
     THEN Armed(NoEntry, Delay[version]) \/ Skipped(NoEntry)
     ELSE NotArmed
  /\ since' = now
  /\ dropped' = dropped

\* restoreTimersOnStart: an entry without a function under its name is dropped.
\* It is restored whether or not the state it belongs to is active, or has the
\* transition.
RestoreTimer ==
  /\ entry # NoEntry
  /\ ~Omitted
  /\ \/ IF version \in Named
        THEN Armed(entry, RestoredDelay(entry, Delay[version], now))
        ELSE NotArmed
     \/ version \in Named /\ Skipped(entry)
  /\ dropped' = (dropped \/ version \in Named \ Has)
  /\ since' = since

NothingToStart ==
  /\ ~inState' \/ version \notin Has
  /\ entry = NoEntry \/ Omitted
  /\ NotArmed
  /\ UNCHANGED <<since, dropped>>

\* The next run starts in the state its migration function gives, with the
\* entries it gives.
Resume ==
  /\ ~up
  /\ up' = TRUE
  /\ resumed' = now
  /\ version' = version
  /\ inState' = (inState /\ version \notin Leaves)
  /\ StartNewTimer \/ RestoreTimer \/ NothingToStart
  /\ kept' = (kept \/ (inState /\ version \in Keeps))
  /\ UNCHANGED <<now, migrations, fired>>

\* The machine notifies the subscriber of a broken list in the state of the
\* start, which runs the list again: what is armed under the id is overwritten.
Notified ==
  /\ up
  /\ list # NoList
  /\ inState = list.in
  /\ version' = version
  /\ DelaySend(IF list.entry = NoEntry
               THEN Delay[version]
               ELSE RestoredDelay(list.entry, Delay[version], now))
  /\ skipped' = FALSE
  /\ UNCHANGED <<now, up, inState, list, migrations, since, resumed, fired, kept,
                 dropped>>

Due(t) == t # None /\ t <= now

Tick ==
  /\ now < MaxTime
  /\ up => ~Due(pending) /\ \A t \in orphans : ~Due(t)
  /\ now' = now + 1
  /\ UNCHANGED <<version, up, inState, entry, pending, orphans, list, migrations,
                 since, resumed, fired, skipped, kept, dropped>>

Next ==
  \/ Enter \/ Exit \/ Fire \/ Resume \/ Notified \/ Tick
  \/ \E v \in Versions : Migrate(v)

Spec == Init /\ [][Next]_vars

-----------------------------------------------------------------------------
(* Properties.                                                             *)

\* Every variable has its type.
TypeOK ==
  /\ now \in 0..MaxTime
  /\ version \in Versions
  /\ up \in BOOLEAN
  /\ inState \in BOOLEAN
  /\ entry \in Entry \cup {NoEntry}
  /\ pending \in Nat \cup {None}
  /\ orphans \in SUBSET Nat
  /\ list \in List
  /\ migrations \in 0..MaxMigrations
  /\ since \in Nat \cup {None}
  /\ resumed \in Nat
  /\ fired \in Nat
  /\ skipped \in BOOLEAN
  /\ kept \in BOOLEAN
  /\ dropped \in BOOLEAN

\* The entry a migration would take along describes the armed timer: they give
\* the same fire time as long as the timer has not fired.
EntryIsTheTimer == up /\ pending # None => entry.start + entry.delay = pending

\* While the state is active and its timer has not fired, the timer is armed:
\* no migration leaves the workflow in a state it was to leave by itself.
\* ("XState does not start them by default so we start them manually")
EveryDelayRuns ==
  up /\ inState /\ version \in Has /\ fired = 0 => pending # None

\* That much holds of a version with a function under the delay's name that
\* leaves its argument alone, whatever the versions before it did, unless the run
\* broke off a list of timers before it came to this one.
NotForgotten ==
  /\ up /\ inState /\ version \in (Has \cap Named) \ ReadsContext
  /\ fired = 0 /\ ~skipped
  => pending # None

\* Of two timers under one id only one can be cancelled.  There are never two, so
\* a timer of an earlier visit never cuts a later visit short, as long as
\* migration functions drop the timer of a state they leave, a version that drops
\* the transition drops its delay function too, and no list broke off in the run.
NoOrphans == orphans # {} => kept \/ dropped \/ list # NoList

\* "Timers resume with their time elapsed calculated and subtracted from their
\* desired duration.  This means delays run for their duration regardless of
\* how long migration takes or any downtime": the timer is armed for the time
\* its delay ends, counted from entering the state, or at once if that passed.
OnSchedule ==
  up /\ inState /\ version \in Has /\ pending # None /\ fired = 0 =>
    pending = LET due == since + Delay[version]
              IN  IF resumed > 0 /\ due <= resumed THEN resumed + 1 ELSE due

\* It is, over the first migration, if that leaves the delay as it was: whatever
\* the downtime, and also where the record came from a restore or a fresh start;
\* a list that broke off arms the delays it starts anew each time it is run.
OnScheduleOnce ==
  migrations <= 1 /\ Delay[version] = Delay[FirstVersion] /\ list = NoList
    => OnSchedule

\* No restore makes a timer wait longer than the longest delay any version
\* gives it, counted from now; so migrating can postpone a timer, but each time
\* by no more than that.
WaitIsBounded ==
  \A v \in Versions :
    (\A w \in Versions : Delay[w] <= Delay[v]) /\ pending # None
      => pending <= now + Delay[v]

================================================================================
