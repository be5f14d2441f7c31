-------------------------- MODULE MCHostJobBridge --------------------------
(* HostJobBridge with processes to call it.                                 *)
EXTENDS HostJobBridge

CONSTANTS p1, p2
=============================================================================
