------------------------------ MODULE Admission ------------------------------
(***************************************************************************)
(* What the device management module promises about who may enter the      *)
(* tailnet, with no request, lock, remote call or failure in sight.        *)
(*                                                                         *)
(* A device is registered, activated and retired.  While it is CLAIMED it  *)
(* may be granted at most one credential at a time, a credential admits    *)
(* one node and is spent by it, and a device can be retired only when it   *)
(* holds none.  After that nothing can enter in its name.  No credential   *)
(* is granted twice: one that was withdrawn or spent is dead for good.     *)
(***************************************************************************)
CONSTANTS Devices, Keys, Nodes

VARIABLES
    state,          \* the device's place in its life
    credentials,    \* the pre-auth keys somebody outside could use right now
    members,        \* the device's nodes on the tailnet
    granted         \* every key that was ever handed out

vars == <<state, credentials, members, granted>>

Init ==
    /\ state = [d \in Devices |-> "NONE"]
    /\ credentials = [d \in Devices |-> {}]
    /\ members = [d \in Devices |-> {}]
    /\ granted = {}

Register(d) ==
    /\ state[d] = "NONE"
    /\ state' = [state EXCEPT ![d] = "PENDING"]
    /\ UNCHANGED <<credentials, members, granted>>

Activate(d) ==
    /\ state[d] = "PENDING"
    /\ credentials[d] = {}
    /\ state' = [state EXCEPT ![d] = "CLAIMED"]
    /\ UNCHANGED <<credentials, members, granted>>

\* A credential is handed out only when the device has no other one.
Grant(d, k) ==
    /\ state[d] = "CLAIMED"
    /\ credentials[d] = {} /\ k \notin granted
    /\ credentials' = [credentials EXCEPT ![d] = {k}]
    /\ granted' = granted \cup {k}
    /\ UNCHANGED <<state, members>>

\* The key had died before it was handed out.
GrantLate(k) ==
    /\ k \notin granted
    /\ granted' = granted \cup {k}
    /\ UNCHANGED <<state, credentials, members>>

\* It lapses, or is expired by the module.
Withdraw(d) ==
    /\ credentials[d] # {}
    /\ credentials' = [credentials EXCEPT ![d] = {}]
    /\ UNCHANGED <<state, members, granted>>

\* It is spent by the node that joins with it.
Join(d, n) ==
    /\ state[d] = "CLAIMED"
    /\ credentials[d] # {}
    /\ credentials' = [credentials EXCEPT ![d] = {}]
    /\ members' = [members EXCEPT ![d] = @ \cup {n}]
    /\ UNCHANGED <<state, granted>>

Leave(d, n) ==
    /\ n \in members[d]
    /\ members' = [members EXCEPT ![d] = @ \ {n}]
    /\ UNCHANGED <<state, credentials, granted>>

Retire(d) ==
    /\ state[d] \in {"PENDING", "CLAIMED"}
    /\ credentials[d] = {}
    /\ state' = [state EXCEPT ![d] = "REVOKED"]
    /\ UNCHANGED <<credentials, members, granted>>

Next ==
    \/ \E d \in Devices :
          \/ Register(d)
          \/ Activate(d)
          \/ \E k \in Keys : Grant(d, k)
          \/ Withdraw(d)
          \/ \E n \in Nodes : Join(d, n) \/ Leave(d, n)
          \/ Retire(d)
    \/ \E k \in Keys : GrantLate(k)

Spec == Init /\ [][Next]_vars
=============================================================================
