-------------------------- MODULE MCEioConnections --------------------------
(* Instances of EioConnections for TLC.                                    *)
EXTENDS EioConnections

AllRequests == Conn \X Event
AllStatus == {"ok", "refused", "failed"}
=============================================================================
