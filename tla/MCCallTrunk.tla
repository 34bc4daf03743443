---------------------------- MODULE MCCallTrunk ----------------------------
(* One call over a connection that holds one frame each way.               *)
EXTENDS CallTrunk
=============================================================================
