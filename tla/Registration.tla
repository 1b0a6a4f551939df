---------------------------- MODULE Registration ----------------------------
(***************************************************************************)
(* What the factory promises of a device, with no run, process, failure or *)
(* cluster in sight.                                                       *)
(*                                                                         *)
(* A device is registered once, for one order and with the secret of one   *)
(* version, and that stands.  The claim code somebody is told, and the one *)
(* that lies with the device, is of that registration.  A certificate is   *)
(* of a registered device and may be replaced; what the tenant does with   *)
(* the device meanwhile neither undoes it nor is undone by it.             *)
(***************************************************************************)
CONSTANTS Devices, Orders, Versions, Certificates, None

VARIABLES
    entry,          \* order and version a device is registered with
    stage,          \* the device's place in its life
    certificate,    \* the one whose fingerprint is known
    told,           \* the claim codes that were handed out
    label           \* the claim code that lies with the device

vars == <<entry, stage, certificate, told, label>>

NoEntry == [order |-> None, version |-> None]

Init ==
    /\ entry = [d \in Devices |-> NoEntry]
    /\ stage = [d \in Devices |-> "NONE"]
    /\ certificate = [d \in Devices |-> None]
    /\ told = {}
    /\ label = [d \in Devices |-> None]

\* Somebody learns the code of a registration, and may put it on the device.
Tell(d) ==
    /\ entry'[d] # NoEntry
    /\ told' = told \cup {[dev |-> d, entry |-> entry'[d]]}
    /\ label' \in {label, [label EXCEPT ![d] = entry'[d].version]}

Register(d, order, version) ==
    /\ entry[d] = NoEntry
    /\ entry' = [entry EXCEPT ![d] = [order |-> order, version |-> version]]
    /\ stage' = [stage EXCEPT ![d] = "PENDING"]
    /\ Tell(d) \/ UNCHANGED <<told, label>>
    /\ UNCHANGED certificate

TellAgain(d) == Tell(d) /\ UNCHANGED <<entry, stage, certificate>>

Certify(d, c) ==
    /\ entry[d] # NoEntry
    /\ certificate' = [certificate EXCEPT ![d] = c]
    /\ UNCHANGED <<entry, stage, told, label>>

Claim(d) ==
    /\ stage[d] = "PENDING"
    /\ stage' = [stage EXCEPT ![d] = "CLAIMED"]
    /\ UNCHANGED <<entry, certificate, told, label>>

Retire(d) ==
    /\ stage[d] \in {"PENDING", "CLAIMED"}
    /\ stage' = [stage EXCEPT ![d] = "REVOKED"]
    /\ UNCHANGED <<entry, certificate, told, label>>

Next ==
    \E d \in Devices :
        \/ \E order \in Orders, version \in Versions : Register(d, order, version)
        \/ TellAgain(d)
        \/ \E c \in Certificates : Certify(d, c)
        \/ Claim(d)
        \/ Retire(d)

Spec == Init /\ [][Next]_vars
=============================================================================
