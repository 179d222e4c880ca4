------------------------------- MODULE MCSignaler -------------------------------
(***************************************************************************)
(* Two updates, one of which may start its workflow, and a start that has  *)
(* no queue in its arguments, for two workflows.                           *)
(***************************************************************************)
EXTENDS Signaler

CONSTANTS u1, u2, s1, w1, w2, q1, none

MCRequests == {u1, u2, s1}
MCAction   == [r \in MCRequests |-> CASE r = u1 -> "updateOrStart"
                                      [] r = u2 -> "update"
                                      [] OTHER  -> "start"]
MCTargets  == [r \in MCRequests |-> IF r = s1 THEN {w2} ELSE {w1}]
MCGiven    == [r \in MCRequests |-> IF r = u1 THEN q1 ELSE none]
=============================================================================
