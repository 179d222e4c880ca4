------------------------------ MODULE MCAfterTimer ------------------------------
(***************************************************************************)
(* Versions of the code for AfterTimer.  v1 and v2 have the delay as a     *)
(* function, and v2 another value; v0 has none; in v3 the function reads   *)
(* the context; in v4 the delay is a number; v5 dropped the transition and *)
(* left the function; in v6 another timer of the state throws.  In v2 the  *)
(* migration function maps the state away and keeps its timer, in v4 it    *)
(* drops it.                                                               *)
(***************************************************************************)
EXTENDS AfterTimer

MCVersions == {"v0", "v1", "v2", "v3", "v4", "v5", "v6"}
MCDelay    == [v \in MCVersions |-> IF v = "v2" THEN 5 ELSE 3]
=============================================================================
