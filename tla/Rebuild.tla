--------------------------------- MODULE Rebuild ---------------------------------
(***************************************************************************)
(* What the development loop promises (dev-loop.ts, devLoop): "Executes    *)
(* buildDeploy on file change.  Queues changes while buildDeploy is        *)
(* running.  Deployments are not interrupted.  Queued changes run after a  *)
(* deployment is complete."                                                *)
(*                                                                         *)
(* How changes are queued, and how often the loop builds before it rests,  *)
(* is left open.  What is said is that it rests only when every change it  *)
(* was told of has been read by a build.                                   *)
(***************************************************************************)
EXTENDS Naturals

CONSTANTS Units,     \* what a build compiles, each at a time of its own
          MaxEdits   \* bounds the edits

VARIABLES
  noticed,  \* the last edit the loop was told of
  read,     \* read[u]: the edit up to which u's sources were last read
  state     \* "resting", "working" or, when a build failed, "dead"

vars == <<noticed, read, state>>

Init ==
  /\ noticed = 0
  /\ read = [u \in Units |-> 0]
  /\ state = "working"

\* A change, or the developer's wish to build, wakes the loop.
Notice(n) ==
  /\ state # "dead"
  /\ noticed' = n
  /\ state' = "working"
  /\ UNCHANGED read

\* The sources are at least as new as the last change the loop was told of.
Read(u, n) ==
  /\ state = "working"
  /\ n >= noticed
  /\ read' = [read EXCEPT ![u] = n]
  /\ UNCHANGED <<noticed, state>>

Rest ==
  /\ state = "working"
  /\ \A u \in Units : read[u] >= noticed
  /\ state' = "resting"
  /\ UNCHANGED <<noticed, read>>

Die ==
  /\ state = "working"
  /\ state' = "dead"
  /\ UNCHANGED <<noticed, read>>

\* The developer starts it again, and it builds what there is.
Restart(n) ==
  /\ state = "dead"
  /\ state' = "working"
  /\ noticed' = n
  /\ UNCHANGED read

Next ==
  \/ \E n \in noticed..MaxEdits : Notice(n) \/ Restart(n)
  \/ \E u \in Units, n \in 0..MaxEdits : Read(u, n)
  \/ Rest
  \/ Die

Spec == Init /\ [][Next]_vars

================================================================================
