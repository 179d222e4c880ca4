-------------------------------- MODULE StateTree --------------------------------
(***************************************************************************)
(* What migrate/src/visit.ts and analysis.ts read off a machine: the state *)
(* values it may be in and those it may be migrated in (for the types that *)
(* make a migration function exhaustive), and the events each state takes. *)
(*                                                                         *)
(* A machine is a tree of states, each the sequence of keys that leads to  *)
(* it, and grows here state by state.  A state value is the set of the     *)
(* leaves that are active.  XState is external: what a machine can be in,  *)
(* what it makes of part of a state value and which transition an event    *)
(* takes are stated by its rules.                                          *)
(***************************************************************************)
EXTENDS Naturals, FiniteSets, Sequences, FiniteSetsExt, SequencesExt

CONSTANTS
  Keys,         \* the first keys a state's children are given, 1..n
  MaxLevel,     \* bounds the depth of the tree
  MaxSize,      \* and its size: states, the final ones twice, marks and transitions
  MaxMoves,     \* bounds its transitions
  MaxMoving,    \* and the size of a machine that has one
  Signals,      \* the events that may come
  Wildcards,    \* the descriptors that stand for many events
  Star,         \* among them: "*", which stands for every one
  Matching,     \* Matching[e]: the descriptors of the event e, the most specific first
  Delays        \* the delays a state may name

ASSUME TreeAssumption ==
  /\ Keys \subseteq Nat \ {0}
  /\ {MaxLevel, MaxSize, MaxMoves, MaxMoving} \subseteq Nat

\* A delay's event has a name of its own ("xstate.after...").
ASSUME EventAssumption ==
  /\ Star \in Wildcards
  /\ Matching \in [Signals -> Seq(Signals \cup Wildcards)]
  /\ \A d \in Signals \cup Wildcards : d \notin Seq(Keys) \X Delays

VARIABLES
  tree,     \* the states, and for each what its configuration says of its type
  marks,    \* marks[p]: "no-migrate", for a state with this tag or with an actor, or
            \* "interruptible", for one whose actor does not matter
  handlers, \* handlers[<<p, d>>]: what state p does on the events of descriptor d
  delays    \* <<p, d>>: p has an after transition with the delay d; also the event's name

machine == <<tree, marks, handlers, delays>>

Descriptors == Signals \cup Wildcards

\* A transition that does something has actions, a target, or one named by its id.
Effects == {"nothing", "moves", "moves by id"}

Root == <<>>
States == DOMAIN tree
Parent(p) == Front(p)
Children(t, p) == {c \in DOMAIN t : c # Root /\ Parent(c) = p}
\* The states from the top to p.
Ancestry(p) == Prefixes(p)

\* The type of p in the tree t.
Type(t, p) ==
  IF t[p] # "plain" THEN t[p] ELSE IF Children(t, p) = {} THEN "atomic" ELSE "compound"

-----------------------------------------------------------------------------
(* XState *)

\* Where a state value is in a state.
Reaches(value, p) == \E leaf \in value : IsPrefix(p, leaf)

\* The leaves of the tree t at or below p.
LeavesOf(t, p) == {q \in DOMAIN t : IsPrefix(p, q) /\ Type(t, q) \notin {"compound", "parallel"}}

\* The state values below p: where one is in a compound state it is in one child of
\* it, where it is in a parallel one it is in each.
ActiveChildren(t, value, p) == {c \in Children(t, p) : Reaches(value, c)}

ValuesBelow(t, p) ==
  {value \in SUBSET LeavesOf(t, p) :
     \A q \in DOMAIN t : IsPrefix(p, q) /\ (q = p \/ Reaches(value, q)) =>
       CASE Type(t, q) = "compound" -> \E c \in Children(t, q) : ActiveChildren(t, value, q) = {c}
         [] Type(t, q) = "parallel" -> ActiveChildren(t, value, q) = Children(t, q)
         [] OTHER -> q \in value}

\* resolveStateValue: what a state value leaves open is the first child.
Initial(p) == CHOOSE c \in Children(tree, p) : \A d \in Children(tree, p) : Last(c) <= Last(d)
Chosen(value, p) ==
  IF ActiveChildren(tree, value, p) = {} THEN Initial(p)
  ELSE CHOOSE c \in ActiveChildren(tree, value, p) : TRUE

Resolve(value) ==
  {leaf \in LeavesOf(tree, Root) :
     \A c \in Ancestry(leaf) \ {Root} :
       Type(tree, Parent(c)) = "compound" => c = Chosen(value, Parent(c))}

\* The transitions of hs that an event may take in p: those of the states from the top
\* to p, in each for the most specific of its descriptors.
Takes(hs, p, e) ==
  {h \in DOMAIN hs :
     /\ h[1] \in Ancestry(p)
     /\ \E n \in DOMAIN Matching[e] :
          /\ h[2] = Matching[e][n]
          /\ \A m \in 1..(n - 1) : <<h[1], Matching[e][m]>> \notin DOMAIN hs}

\* The one it takes is that of the nearest state, even if it does nothing.
Nearest(hs, p, e) ==
  {h \in Takes(hs, p, e) : \A g \in Takes(hs, p, e) : Len(g[1]) <= Len(h[1])}

\* The one by which it does something.
Does(p, e) == {h \in Nearest(handlers, p, e) : handlers[h] # "nothing"}

\* machine.events: the descriptors that some transition does something on.
MachineEvents ==
  delays \cup {e \in Descriptors : \E p \in States :
                 <<p, e>> \in DOMAIN handlers /\ handlers[<<p, e>>] # "nothing"}

-----------------------------------------------------------------------------
(* visit.ts *)

\* Wrong on purpose: one key too many is asked for.
KeptDeeper(values, p) == {value \in values : Cardinality(value) = 1
                                             /\ \A leaf \in value : Len(leaf) > Len(p) + 2}

\* What visiting a region of the parallel state p leaves of it: a path with at least
\* two keys below p.  A value that is an object has no keys to count, and is dropped.
Kept(values, p) == {value \in values : Cardinality(value) = 1
                                       /\ \A leaf \in value : Len(leaf) > Len(p) + 1}

\* What is left of the regions, one by one.
Groups(regions, p) == {Kept(values, p) : values \in regions} \ {{}}

\* visitor, for a state below the root.
Visited[p \in States \ {Root}] ==
  CASE Type(tree, p) = "compound" -> UNION {Visited[c] : c \in Children(tree, p)}
    [] Type(tree, p) = "parallel" ->
         {UNION values : values \in Choices(Groups({Visited[c] : c \in Children(tree, p)}, p))}
    [] OTHER -> {{p}}

\* "not implemented": a parallel state must leave two groups.
Fails == \E p \in States \ {Root} :
  /\ Type(tree, p) = "parallel"
  /\ Cardinality(Groups({Visited[c] : c \in Children(tree, p)}, p)) # 2

\* The machine itself has no type, so its children are visited one by one whether or
\* not they are regions.
getAllStateValues == UNION {Visited[c] : c \in Children(tree, Root)}

\* canMigrate
Active(value) == UNION {Ancestry(leaf) : leaf \in value}
CanMigrate(value) ==
  \A p \in Active(value) \cap DOMAIN marks : marks[p] = "interruptible"

getMigrationStateValues == {value \in {Resolve(v) : v \in getAllStateValues} : CanMigrate(value)}

-----------------------------------------------------------------------------
(* analysis.ts *)

\* isDelayEventId
IsDelay(e) == e \in States \X Delays

\* The descriptors for which p has a transition of its own.
Names(p) == {e \in Descriptors : <<p, e>> \in DOMAIN handlers} \cup (delays \cap ({p} \X Delays))

\* Of the machine's events neither "*" nor the delays are signals.
signals == {e \in MachineEvents : e # Star /\ ~IsDelay(e)}

\* Wrong on purpose: a state has its own events only.
ownEventsOnly == [p \in States \ {Root} |-> Names(p) \cap signals]

\* getStateToInboundEvents goes down the tree; a state has the events it names and
\* those of its parent.  The machine itself names none.
Inbound[p \in States] == IF p = Root THEN {} ELSE Names(p) \cup Inbound[Parent(p)]

getStateToInboundEvents == [p \in States \ {Root} |-> Inbound[p] \cap signals]

-----------------------------------------------------------------------------
(* The machines there are: with marks for what visit.ts does, with handlers for *)
(* what analysis.ts does.                                                       *)

MachineInit ==
  /\ tree \in [{Root} -> {"plain", "parallel"}]
  /\ marks = <<>>
  /\ handlers = <<>>
  /\ delays = {}

Moves == Cardinality(DOMAIN handlers) + Cardinality(delays)

Size == Cardinality(States) + Cardinality({p \in States : tree[p] = "final"})
        + Cardinality(DOMAIN marks) + Moves

Room == IF Moves = 0 THEN MaxSize ELSE MaxMoving

With(f, x, y) == [i \in DOMAIN f \cup {x} |-> IF i = x THEN y ELSE f[i]]

AddState(p, type) ==
  LET key == Cardinality(Children(tree, p)) + 1
  IN  /\ Size < IF type = "final" THEN Room - 1 ELSE Room
      /\ Len(p) < MaxLevel
      /\ key \in Keys
      /\ Append(p, key) \notin States
      /\ tree[p] # "final"
      /\ tree' = With(tree, Append(p, key), type)
      /\ UNCHANGED <<marks, handlers, delays>>

AddMark(p, mark) ==
  /\ handlers = <<>> /\ delays = {}
  /\ Size < MaxSize
  /\ p \notin DOMAIN marks
  /\ marks' = With(marks, p, mark)
  /\ UNCHANGED <<tree, handlers, delays>>

AddHandler(p, e, effect) ==
  /\ marks = <<>>
  /\ Size < MaxMoving /\ Moves < MaxMoves
  /\ <<p, e>> \notin DOMAIN handlers
  /\ tree[p] # "final"
  /\ handlers' = With(handlers, <<p, e>>, effect)
  /\ UNCHANGED <<tree, marks, delays>>

AddDelay(p, d) ==
  /\ marks = <<>>
  /\ Size < MaxMoving /\ Moves < MaxMoves
  /\ <<p, d>> \notin delays
  /\ tree[p] # "final"
  /\ delays' = delays \cup {<<p, d>>}
  /\ UNCHANGED <<tree, marks, handlers>>

MachineNext ==
  \E p \in States :
    \/ \E type \in {"plain", "parallel", "final"} : AddState(p, type)
    \/ \E mark \in {"no-migrate", "interruptible"} : AddMark(p, mark)
    \/ \E e \in Descriptors, effect \in Effects : AddHandler(p, e, effect)
    \/ \E d \in Delays : AddDelay(p, d)

MachineSpec == MachineInit /\ [][MachineNext]_machine

-----------------------------------------------------------------------------
(* Properties *)

\* A machine createMachine accepts: a parallel state has regions.
Sound(t) == \A p \in DOMAIN t : t[p] = "parallel" => Children(t, p) # {}

\* What the code's comments say it is written for: parallel states below the root, of
\* two regions with states of their own and no parallel state inside.
Supported ==
  /\ Type(tree, Root) = "compound"
  /\ \A p \in States : Type(tree, p) = "parallel" =>
       /\ Cardinality(Children(tree, p)) = 2
       /\ \A c \in Children(tree, p) : Type(tree, c) = "compound"
       /\ \A q \in Ancestry(p) \ {p} : Type(tree, q) # "parallel"

\* For such a machine the migration types are exhaustive: they hold each state value
\* it can be in and be migrated in, no other and none twice.
MigrationStatesAreAll ==
  Sound(tree) /\ Supported =>
    /\ ~Fails
    /\ getAllStateValues = ValuesBelow(tree, Root)
    /\ getMigrationStateValues = {value \in ValuesBelow(tree, Root) : CanMigrate(value)}

\* No event is missed that does something in a state by a transition below the
\* machine's own: it is listed by the descriptor that takes it there, unless that is
\* "*".  None is listed that no state of its ancestry names, and no delay.
EventsAreListed ==
  \A p \in States \ {Root} :
    /\ \A e \in Signals : \A h \in Does(p, e) :
         h[1] # Root /\ h[2] # Star => h[2] \in getStateToInboundEvents[p]
    /\ \A d \in getStateToInboundEvents[p] :
         ~IsDelay(d) /\ \E q \in Ancestry(p) \ {Root} : <<q, d>> \in DOMAIN handlers

\* "Returns state -> the events that do something when the machine is in that state."
EventsDoSomething ==
  \A p \in States \ {Root}, e \in Signals :
    e \in getStateToInboundEvents[p] <=> Does(p, e) # {}

=============================================================================
