------------------------------ MODULE MCFactory ------------------------------
(* An instance of Factory for TLC: one device that two organisations order. *)
EXTENDS Factory

CONSTANTS r1, r2, d1

MCOrders == [tenant : {"a", "b"}, type : {"sensor"}]
MCVersions == 1 .. 2
MCPrefix == [d \in Devices |-> "0f9a3c1e-7b2"]
=============================================================================
