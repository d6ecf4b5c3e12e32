--------------------------- MODULE MCEioTransport ---------------------------
(* Instances of EioTransport for TLC.                                      *)
EXTENDS EioTransport
=============================================================================
