------------------------------- MODULE MCRollout -------------------------------
(***************************************************************************)
(* Operators for Rollout: one that never acts, and one that sets a percent *)
(* on or off the schedule, disables the strategy or removes it.            *)
(***************************************************************************)
EXTENDS Rollout

NoFlags   == {}
SomeFlags == {At(0), At(42), At(50), [At(25) EXCEPT !.disabled = TRUE],
              [At(0) EXCEPT !.here = FALSE]}
=============================================================================
