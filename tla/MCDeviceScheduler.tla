------------------------- MODULE MCDeviceScheduler -------------------------
(* DeviceScheduler on a device with two processes, which may take the lease   *)
(* from each other.                                                          *)
EXTENDS DeviceScheduler

CONSTANTS p1, p2, w1
=============================================================================
