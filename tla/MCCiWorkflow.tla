------------------------------ MODULE MCCiWorkflow ------------------------------
(***************************************************************************)
(* Instance of CiWorkflow: a version that may be there, and two others.    *)
(***************************************************************************)
EXTENDS CiWorkflow

CONSTANTS v0, v1, v2
Three == {v0, v1, v2}
=============================================================================
