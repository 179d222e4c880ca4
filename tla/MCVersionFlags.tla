----------------------------- MODULE MCVersionFlags -----------------------------
(***************************************************************************)
(* Two versions, two deployments at a time, a tester and a user in the     *)
(* upper half of the traffic; the flag there is at the start has the last  *)
(* number but one of three digits.                                         *)
(***************************************************************************)
EXTENDS VersionFlags, TLC

CONSTANTS a, b, d1, d2, tester, customer

MCVersions == {a, b}
MCDeployers == {d1, d2}
MCSymmetry == Permutations(MCDeployers)
MCRank == [v \in MCVersions |-> IF v = a THEN 1 ELSE 0]
MCEndsWith == [v \in MCVersions |-> {v}]
MCUsers == {tester, customer}
MCBucket == [u \in MCUsers |-> [v \in MCVersions |-> 60]]
=============================================================================
