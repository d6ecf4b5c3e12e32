--------------------------- MODULE MCResponseBody ---------------------------
(* Instances of ResponseBody, read by BroadcastAck, for TLC.               *)
EXTENDS BroadcastAck
=============================================================================
