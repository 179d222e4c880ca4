-------------------------------- MODULE Analysis --------------------------------
(***************************************************************************)
(* The comparison of two versions of a machine (migrate/src/analysis.ts):  *)
(* what each consists of, what one lacks of the other and which of that    *)
(* breaks the runs that are migrated.                                      *)
(*                                                                         *)
(* A machine of module StateTree is released as version a and then edited; *)
(* the edited machine is version b.  The runs of a carry their state value *)
(* over, or, where the migration function says so, its parent for a state  *)
(* that is gone.                                                           *)
(***************************************************************************)
EXTENDS StateTree

CONSTANTS
  MaxReleased,  \* bounds the size of the machine that is released, a transition on
                \* an event counted twice
  MaxEdits      \* and the edits after

ASSUME EditAssumption == {MaxReleased, MaxEdits} \subseteq Nat

VARIABLES
  a,        \* the machine as released, NotReleased before
  toParent, \* whether the migration function knows the parent of a state that is gone
  edits     \* how many there were

b == [tree |-> tree, handlers |-> handlers, delays |-> delays]
NotReleased == [tree |-> <<>>, handlers |-> <<>>, delays |-> {}]
Released == a # NotReleased

-----------------------------------------------------------------------------
(* analysis.ts *)

\* makeStateId: a target is taken for a child of the state that names it, even one
\* that is not; but one named by its id is refused, and the analysis with it.
makeStateId(parent, key) == Append(parent, key)
throws(m) == \E h \in DOMAIN m.handlers : m.handlers[h] = "moves by id"
Compared == Released /\ ~throws(a) /\ ~throws(b)

\* What a transition leads to here.
Target == 1

\* analyze: the states, the events they name, and the transitions, without those
\* that have no target.
stateIds(m) == DOMAIN m.tree
inboundEvents(m) == {h[2] : h \in DOMAIN m.handlers}
eventBasedTransitions(m) ==
  {[in |-> h[1], event |-> h[2], target |-> makeStateId(h[1], Target)] :
     h \in {g \in DOMAIN m.handlers : m.handlers[g] = "moves"}}

\* Wrong on purpose: the versions are taken one for the other.
compareReversed ==
  [missingStates           |-> stateIds(b) \ stateIds(a),
   newStates               |-> stateIds(a) \ stateIds(b),
   newEventTransitions     |-> eventBasedTransitions(b) \ eventBasedTransitions(a),
   deletedEventTransitions |-> eventBasedTransitions(a) \ eventBasedTransitions(b)]

compare ==
  [missingStates           |-> stateIds(a) \ stateIds(b),
   newStates               |-> stateIds(b) \ stateIds(a),
   newEventTransitions     |-> eventBasedTransitions(b) \ eventBasedTransitions(a),
   deletedEventTransitions |-> eventBasedTransitions(a) \ eventBasedTransitions(b)]

\* getMachineDelayReferences: a delay with the state it is for.
DelayReferences(m) == m.delays

\* The migration function.
Map(p) == IF toParent /\ p \notin States THEN Parent(p) ELSE p

\* getBreakingChanges: the states the migration function leaves without one, and the
\* delays that no longer are where they were.
getBreakingChanges ==
  {<<"missing_state", p>> : p \in {q \in compare.missingStates : Map(q) \notin stateIds(b)}}
  \cup {<<"missing_delay", d>> : d \in DelayReferences(a) \ DelayReferences(b)}

-----------------------------------------------------------------------------
(* Two versions of a machine *)

AnalysisInit ==
  /\ MachineInit
  /\ a = NotReleased
  /\ toParent = FALSE
  /\ edits = 0

Grow ==
  /\ ~Released
  /\ MachineNext
  /\ UNCHANGED <<a, toParent, edits>>

Release ==
  /\ ~Released
  /\ marks = <<>>
  /\ Size + Cardinality(DOMAIN handlers) <= MaxReleased
  /\ a' = b
  /\ toParent' \in BOOLEAN
  /\ UNCHANGED <<machine, edits>>

\* A state goes with all that is below it.
RemoveState(p) ==
  /\ p # Root
  /\ tree' = Restrict(tree, {q \in States : ~IsPrefix(p, q)})
  /\ handlers' = Restrict(handlers, {h \in DOMAIN handlers : ~IsPrefix(p, h[1])})
  /\ delays' = {d \in delays : ~IsPrefix(p, d[1])}
  /\ UNCHANGED marks

Retype(p, type) ==
  /\ tree[p] # type
  /\ type = "final" => Children(tree, p) = {} /\ \A d \in delays : d[1] # p
  /\ tree' = [tree EXCEPT ![p] = type]
  /\ UNCHANGED <<marks, handlers, delays>>

RemoveHandler(h) ==
  /\ handlers' = Restrict(handlers, DOMAIN handlers \ {h})
  /\ UNCHANGED <<tree, marks, delays>>

RemoveDelay(d) ==
  /\ delays' = delays \ {d}
  /\ UNCHANGED <<tree, marks, handlers>>

Edit ==
  /\ Released
  /\ edits < MaxEdits
  /\ edits' = edits + 1
  /\ \/ \E p \in States, type \in {"plain", "parallel"} : AddState(p, type) \/ Retype(p, type)
     \/ \E p \in States : RemoveState(p)
     \/ \E p \in States, e \in Descriptors, effect \in Effects : AddHandler(p, e, effect)
     \/ \E p \in States, d \in Delays : AddDelay(p, d)
     \/ \E h \in DOMAIN handlers : RemoveHandler(h)
     \/ \E d \in delays : RemoveDelay(d)
  /\ UNCHANGED <<a, toParent>>

AnalysisNext == Grow \/ Release \/ Edit

AnalysisSpec == AnalysisInit /\ [][AnalysisNext]_<<machine, a, toParent, edits>>

-----------------------------------------------------------------------------
(* Properties *)

\* What a run in this state value of version a has in version b: its states, active
\* again, and each timer its state, active, and its delay.
CarriesOver(value) ==
  LET next == Active(Resolve({Map(p) : p \in value}))
  IN  /\ {Map(p) : p \in value} \subseteq next
      /\ \A d \in a.delays : d[1] \in Active(value) => d \in delays /\ d[1] \in next

RegionsStay ==
  \A p \in DOMAIN a.tree \cap States :
    Type(a.tree, p) = "parallel" => Type(tree, p) = "parallel"

\* If the analysis reports no breaking change, every run of version a goes on in version b:
\* whatever was added, removed, or made another kind of state, as long as parallel
\* states stay so.
NothingBreaksUnseen ==
  Compared /\ Sound(a.tree) /\ Sound(tree) /\ RegionsStay /\ getBreakingChanges = {} =>
    \A value \in ValuesBelow(a.tree, Root) : CarriesOver(value)

\* The same without that condition.  It does not hold: "state values and state ids
\* are not the same".
StateIdsSuffice ==
  Compared /\ Sound(a.tree) /\ Sound(tree) /\ getBreakingChanges = {} =>
    \A value \in ValuesBelow(a.tree, Root) : CarriesOver(value)

\* Nor does this: if the comparison shows no difference, an event moves a state that
\* both have as before.
MovesOn(m, p, e) == {h \in Nearest(m.handlers, p, e) : m.handlers[h] = "moves"}
TransitionChangesShow ==
  Compared /\ compare.newEventTransitions = {} /\ compare.deletedEventTransitions = {} =>
    \A p \in DOMAIN a.tree \cap States, e \in Signals : MovesOn(a, p, e) = MovesOn(b, p, e)
================================================================================
