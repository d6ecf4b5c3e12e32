-------------------------- MODULE MCTunnelClients --------------------------
(* Instances of TunnelClients for TLC.                                     *)
EXTENDS TunnelClients, TLC

Symmetry == Permutations(Client)
=============================================================================
