---------------------------- MODULE MCSimulatedClock ----------------------------
(***************************************************************************)
(* Three timers with delays of none, one and two, and callbacks that do    *)
(* anything, to a depth of two flushes.                                    *)
(***************************************************************************)
EXTENDS SimulatedClock
=============================================================================
