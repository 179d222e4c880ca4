-------------------------------- MODULE MCDevLoop --------------------------------
(***************************************************************************)
(* A workflow bundle that each build reads again and a statechart that is  *)
(* loaded once.                                                            *)
(***************************************************************************)
EXTENDS DevLoop

CONSTANTS workflow, statechart
=============================================================================
