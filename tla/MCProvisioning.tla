--------------------------- MODULE MCProvisioning ---------------------------
(* Instances of Provisioning for TLC. *)
EXTENDS ProvisioningProperties, TLC

CONSTANTS r1, r2, r3, r4, rover, gateway, sensor

Requests2 == {r1, r2}
Requests3 == {r1, r2, r3}
Requests4 == {r1, r2, r3, r4}

\* Handlers, keys and nodes carry the names of requests and nothing else
\* tells one request from another.
Symmetric3 == Permutations(Requests3)
Symmetric4 == Permutations(Requests4)
=============================================================================
