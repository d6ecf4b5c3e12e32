------------------------- MODULE MCTunnelConnection -------------------------
(* Instances of TunnelConnection for TLC.                                  *)
EXTENDS TunnelConnection
=============================================================================
