-------------------------- MODULE MCDeviceRuntime --------------------------
(* DeviceRuntime on small instances.                                        *)
EXTENDS DeviceRuntime, TLC

OneLease == {2}
ShortLease == {1}
=============================================================================
