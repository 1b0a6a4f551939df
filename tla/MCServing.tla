----------------------------- MODULE MCServing -----------------------------
(* An instance of Serving for TLC: two organisations whose names give the   *)
(* same Headscale user, and a caller with the name of the platform scope.   *)
EXTENDS Serving, TLC

CONSTANTS r1, r2, r3, a1, b1, a, b, user

Tenants3 == {a, b, Platform}
Owner == (a1 :> a) @@ (b1 :> b)
SharedUser == [t \in Tenants3 |-> user]
As(role, t, op, d) == [op |-> op, tenant |-> t, role |-> role, dev |-> d]
By(t, op, d) == As("TenantAdmin", t, op, d)
Lookup(role) == As(role, None, "lookup", a1)

Menu ==
    (r1 :> {By(a, "claim", a1), By(a, "revoke", a1), By(b, "revoke", a1)})
    @@ (r2 :> {By(a, "listAll", None), By(Platform, "list", None),
               As("PlatformAdmin", b, "listAll", None), By(a, "events", a1)})
    @@ (r3 :> {By(b, "claim", b1), By(b, "get", a1), By(a, "validate", a1),
               Lookup("service"), Lookup("none")})
=============================================================================
