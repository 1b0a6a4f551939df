---------------------------- MODULE MCDevicesPage ----------------------------
(* Instances of DevicesPage for TLC: one's own devices and foreign ones. *)
EXTENDS DevicesPage

CONSTANTS a, b
=============================================================================
