---------------------------------- MODULE Entity ----------------------------------
(***************************************************************************)
(* What a durable workflow (makeWorkflow) promises to those who signal it, *)
(* as they see it: there are no runs, tasks or replays, only an entity     *)
(* that takes the signals it was sent batch by batch.  A batch happens as  *)
(* a whole; after each the entity has applied some of the batch's signals, *)
(* in the order they were sent, after all it had applied before.           *)
(*                                                                         *)
(* Which signals of a batch it does not apply is left open: some are not   *)
(* for the machine or cannot be decoded, and a migration that had to wait  *)
(* may leave some behind.  But these are signals of the very batch in      *)
(* which it migrates: what was applied before goes along.                  *)
(***************************************************************************)
EXTENDS Naturals, Sequences

CONSTANTS
  Queues, FirstQueue,   \* versions of the machine
  States, InitialState, \* state values
  Migratory,            \* those in which it may move to another version
  Final,                \* those in which it is done
  MaxSignals            \* bounds the signals

VARIABLES
  status,   \* "running" or "completed"
  sent,     \* how many signals were sent; the n-th has id n
  handled,  \* how many of them it has dealt with
  applied,  \* the ids of the signals the machine has applied
  state,    \* of the machine
  version

vars == <<status, sent, handled, applied, state, version>>

Init ==
  /\ status = "running"
  /\ sent = 0 /\ handled = 0
  /\ applied = <<>>
  /\ state = InitialState
  /\ version = FirstQueue

Send ==
  /\ status = "running"
  /\ sent < MaxSignals
  /\ sent' = sent + 1
  /\ UNCHANGED <<status, handled, applied, state, version>>

\* The signals up to the h-th are dealt with.
Handles(h) ==
  /\ status = "running"
  /\ handled' = h
  /\ UNCHANGED sent

\* Of these, some are applied, in order, after those applied before.
Applies(h) ==
  /\ Len(applied) <= Len(applied')
  /\ \A i \in 1..Len(applied) : applied'[i] = applied[i]
  /\ \A i \in Len(applied) + 1..Len(applied') : applied'[i] \in handled + 1..h
  /\ \A i, j \in Len(applied) + 1..Len(applied') :
       i < j => applied'[i] < applied'[j]

Batch(h) ==
  /\ Handles(h) /\ Applies(h)
  /\ state' \in States
  /\ UNCHANGED <<status, version>>

\* It moves to another version with no signal waiting.
Move ==
  /\ Handles(sent) /\ Applies(sent)
  /\ state' \in Migratory
  /\ version' \in Queues
  /\ UNCHANGED status

\* It is set to a state, whatever it is doing, and what it has applied is void.
Reset ==
  /\ Handles(sent)
  /\ applied' = <<>>
  /\ state' \in States
  /\ version' \in Queues
  /\ UNCHANGED status

\* It completes with no signal waiting.
Complete ==
  /\ Handles(sent) /\ Applies(sent)
  /\ state' \in Final
  /\ status' = "completed"
  /\ UNCHANGED version

Next == Send \/ (\E h \in handled..sent : Batch(h)) \/ Move \/ Reset \/ Complete

Spec == Init /\ [][Next]_vars

================================================================================
