---------------------------- MODULE MCDurableWorkflow ----------------------------
(***************************************************************************)
(* Two versions of one machine.  Version v1 waits in "idle", works in      *)
(* "busy" (an invoked actor) and ends in "done", or in "failed" when it is *)
(* stopped at work; "abort" only takes it back from "busy".  "failed" is   *)
(* tagged as not to be migrated.  Version v2 calls the waiting state       *)
(* "ready"; each migration function renames it, and that of v2 rejects     *)
(* "done".  The machine begins in "busy", so that a migration may have to  *)
(* wait from the first signal on.                                          *)
(***************************************************************************)
EXTENDS DurableWorkflow, TLC

MCQueues == {"v1", "v2"}
MCStates == {"idle", "ready", "busy", "done", "failed"}
MCEvents == {"start", "abort", "stop", "garbled"}
MCUndecodable == {"garbled"}
MCNodes  == MCStates \cup {"root"}
MCConfig == [s \in MCStates |-> {"root", s}]
MCFinal  == {"done", "failed"}

Waiting(q) == IF q = "v1" THEN "idle" ELSE "ready"

MCMachine ==
  [q \in MCQueues |-> [s \in MCStates |-> [e \in MCEvents |->
    CASE s = Waiting(q) /\ e = "start" -> "busy"
      [] s = "busy" /\ e = "abort"     -> Waiting(q)
      [] s = Waiting(q) /\ e = "stop"  -> "done"
      [] s = "busy" /\ e = "stop"      -> "failed"
      [] OTHER -> s]]]

MCInternal ==
  [q \in MCQueues |-> [s \in MCStates |-> IF s = "busy" THEN Waiting(q) ELSE s]]

MCReceive ==
  [q \in MCQueues |-> [s \in MCStates |->
    IF s \in {"idle", "ready"} THEN Waiting(q) ELSE s]]

MCReceivable == [q \in MCQueues |-> IF q = "v2" THEN MCStates \ {"done"} ELSE MCStates]
=============================================================================
