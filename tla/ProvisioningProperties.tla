----------------------- MODULE ProvisioningProperties -----------------------
(***************************************************************************)
(* What should be true of the handlers of Provisioning, and the inductive  *)
(* invariant the proofs of ProvisioningProofs rest on.                     *)
(***************************************************************************)
EXTENDS Provisioning

\* The keys that somebody outside could join with at this moment.
Usable == {k \in shown : keys[k] = "live"}

UsableFor(d) == {k \in Usable : Owner(k) = d}

OnlineFor(d) == {n \in Requests : nodes[n].status = "up" /\ Owner(n) = d}

\* No handler is working on the device.
AtRest(d) == \A r \in Requests : req[r].dev = d => pc[r] \in Ended

Logged(action, d) == {e \in audit : e.action = action /\ e.dev = d}

-----------------------------------------------------------------------------
(* Safety. *)

\* Whatever claims, reissues, revocations and failures overlap, a device has
\* at most one key that could still be used (claim_flow.py, reissue_key: "The
\* previous key is expired if still unused").
OneUsableKey ==
    \A k, l \in Usable : Owner(k) = Owner(l) => k = l

\* A revoked device cannot enter the tailnet any more: no key handed out in
\* its name is live (claim_flow.py, revoke: expire_unused_key under the lock).
RevokedKeyless ==
    \A d \in Devices : dev[d].state = "REVOKED" => UsableFor(d) = {}

\* Between SELECT ... FOR UPDATE and the commit the row is the one the handler
\* read, so what it decided on it still holds (repo.py, get_for_update).
RowUnderLock ==
    \A d \in Devices : \A r \in lock[d] : req[r].row = dev[d]

\* What can make a node pass for the device's: a key of the device admitted it,
\* or it has gone by the device's UUID.
PassesFor(d, n) == Owner(n) = d \/ d \in nodes[n].bore

\* A node of a sibling is taken for the device's only if it was called by the
\* device's UUID, which the guide forbids ("--hostname must be the device
\* UUID"): whatever nodes join, leave and are renamed, and however old the row
\* or the listing is that a handler decides on, this is so of the node that a
\* row records, that a revocation is about to delete, and that the audit trail
\* says was seen or removed (claim_flow.py, _match_node: node id, then key,
\* then name).
NodeAttribution ==
    /\ \A d \in Devices : dev[d].node # None => PassesFor(d, dev[d].node)
    /\ \A r \in Requests :
          req[r].node # None => PassesFor(req[r].dev, req[r].node)
    /\ \A e \in audit :
          e.action \in {"NODE_SEEN", "REVOKED"} /\ e.about # None =>
              PassesFor(e.dev, e.about)

\* The audit trail accounts for the row and for the network: one CLAIMED and
\* one REVOKED at most, the key and the node of the row each come from an
\* event, and no key is out that no event names (add_event runs in the
\* transaction of the change it reports).
AuditAccounts ==
    /\ \A d \in Devices :
          /\ Cardinality(Logged("CLAIMED", d)) <= 1
          /\ Cardinality(Logged("REVOKED", d)) =
                IF dev[d].state = "REVOKED" THEN 1 ELSE 0
          /\ dev[d].state = "CLAIMED" => Logged("CLAIMED", d) # {}
          /\ dev[d].key # None =>
                \E e \in Logged("CLAIMED", d) \cup Logged("KEY_REISSUED", d) :
                    e.about = dev[d].key
          /\ dev[d].node # None =>
                \E e \in Logged("NODE_SEEN", d) : e.about = dev[d].node
    /\ \A k \in shown : \E e \in audit : e.about = k /\ e.req = k

\* The twin says REVOKED only when the row does, or the revocation that patched
\* it is about to commit or could not (claim_flow.py, revoke: network first,
\* then the twin, then the row).
TwinNotAheadOfRow ==
    \A d \in Devices :
        twins[d] = "REVOKED" =>
            \/ dev[d].state = "REVOKED"
            \/ \E r \in Requests :
                  /\ req[r].op = "revoke" /\ req[r].dev = d
                  /\ pc[r] \in {"commit", "failed", "lost"}

\* One failed call or statement is compensated: when the handlers are done
\* with a PENDING device, no key and no twin of it is left behind
\* (claim_flow.py, _undo: "nothing claims a PENDING device is live").
FailureCompensated ==
    \A d \in Devices :
        dev[d].state = "PENDING" /\ AtRest(d) =>
            /\ twins[d] = "absent"
            /\ \A k \in Requests : Owner(k) = d => keys[k] # "live"

-----------------------------------------------------------------------------
(* The inductive invariant behind the safety properties. *)

BeforeMint == {"idle", "locking", "read", "save", "reject", "user", "upsert",
               "nodes", "delete", "keys", "expire", "mint"}

\* Which handler runs which part of the code.
LabelOfHandler ==
    \A r \in Requests :
        /\ pc[r] \in {"user", "upsert"} => req[r].op = "claim"
        /\ pc[r] = "mint" => req[r].op \in {"claim", "reissue"}
        /\ pc[r] \in {"delete", "keys", "expire"} =>
              req[r].op \in {"reissue", "revoke"}
        /\ pc[r] = "patch" => req[r].op = "revoke"
        /\ pc[r] \in {"read", "save"} => req[r].op = "view"

\* A key is shown by the answer of the request that created it.
ShownAnswered == \A k \in shown : pc[k] = "ok"

\* Keys exist from the handler's last remote call on, and only then get into
\* a row.
MintedOnce ==
    /\ \A r \in Requests : pc[r] \in BeforeMint => keys[r] = "absent"
    /\ \A r \in Requests : req[r].holds => keys[r] # "absent"
    /\ \A r \in Requests :
          pc[r] = "commit" /\ req[r].op = "reissue" => req[r].holds
    /\ \A d \in Devices : dev[d].key # None => keys[dev[d].key] # "absent"

\* Sensors never get one.
KeysForVpnOnly ==
    /\ \A r \in Requests :
          \/ pc[r] = "mint" \/ req[r].holds
          \/ pc[r] \in InTransaction /\ req[r].op = "reissue"
          => req[r].dev \in VpnDevices
    /\ \A d \in Devices \ VpnDevices : dev[d].key = None

\* Who has the row locked, and what the row is.
LockedRow ==
    \A d \in Devices : \A r \in lock[d] :
        /\ lock[d] = {r}
        /\ req[r].dev = d
        /\ pc[r] \in InTransaction
        /\ req[r].row = dev[d]
        /\ CASE req[r].op = "claim" -> dev[d].state = "PENDING"
             [] req[r].op = "reissue" -> dev[d].state = "CLAIMED"
             [] req[r].op = "revoke" -> dev[d].state \in {"PENDING", "CLAIMED"}
             [] OTHER -> FALSE

\* Once a handler is past the old key, the old key is dead.
OldKeyDead ==
    \A d \in Devices : \A r \in lock[d] :
        /\ \/ req[r].op = "reissue" /\ pc[r] \in {"mint", "commit"}
           \/ /\ req[r].op = "revoke" /\ pc[r] \in {"patch", "commit"}
              /\ dev[d].state = "CLAIMED"
        /\ dev[d].key # None
        => keys[dev[d].key] # "live"

OnRow(k) == dev[Owner(k)].state = "CLAIMED" /\ dev[Owner(k)].key = k

\* A live key that is out, or about to be, is the one in the device's row.
LiveKeyOnRow ==
    /\ \A k \in Usable : OnRow(k)
    /\ \A r \in Requests :
          pc[r] = "respond" /\ req[r].holds /\ keys[r] = "live" => OnRow(r)

IInv ==
    /\ TypeOK
    /\ LabelOfHandler
    /\ ShownAnswered
    /\ MintedOnce
    /\ KeysForVpnOnly
    /\ LockedRow
    /\ OldKeyDead
    /\ LiveKeyOnRow

-----------------------------------------------------------------------------
(* The inductive invariants behind the audit trail, the twin and the nodes. *)

\* A key is one of the device's own requests, which has begun; a node is one
\* that began too, and passes for the device's.
From(d, x) == x # None => pc[x] # "idle" /\ Owner(x) = d
NodeFrom(d, x) == x # None => pc[x] # "idle" /\ PassesFor(d, x)

\* A node got in with a key that somebody had been given.
NodesShown == \A n \in Requests : nodes[n].status = "up" => n \in shown

\* Where the names in a row, in a handler and in the trail come from.
Origin ==
    /\ \A n \in Requests : nodes[n].names \subseteq nodes[n].bore
    /\ \A d \in Devices : From(d, dev[d].key) /\ NodeFrom(d, dev[d].node)
    /\ \A e \in audit :
          e.action \in {"NODE_SEEN", "REVOKED"} => NodeFrom(e.dev, e.about)
    /\ \A r \in Requests :
          /\ From(req[r].dev, req[r].row.key)
          /\ NodeFrom(req[r].dev, req[r].row.node)
          /\ NodeFrom(req[r].dev, req[r].node)
          /\ pc[r] = "idle" => /\ req[r].row.key = None /\ req[r].row.node = None
                               /\ req[r].node = None

\* An event of each kind that happens once, and the state it left behind.
TrailOfState ==
    /\ \A e \in audit :
          /\ e.action = "CLAIMED" => dev[e.dev].state \in {"CLAIMED", "REVOKED"}
          /\ e.action = "REVOKED" => dev[e.dev].state = "REVOKED"
    /\ \A e, f \in audit :
          e.action = f.action /\ e.action \in {"CLAIMED", "REVOKED"}
          /\ e.dev = f.dev => e = f
    /\ \A d \in Devices : dev[d].state \in {"CLAIMED", "REVOKED"} =>
          \E e \in audit : e.action = dev[d].state /\ e.dev = d

\* Key and node of a row, and every key that is out or about to be, are in it.
TrailOfNames ==
    /\ \A d \in Devices :
          /\ dev[d].key # None =>
                \E e \in audit : /\ e.action \in {"CLAIMED", "KEY_REISSUED"}
                                 /\ e.dev = d /\ e.about = dev[d].key
          /\ dev[d].node # None =>
                \E e \in audit : /\ e.action = "NODE_SEEN"
                                 /\ e.dev = d /\ e.about = dev[d].node
    /\ \A r \in Requests :
          r \in shown \/ (pc[r] = "respond" /\ req[r].holds) =>
                \E e \in audit : e.about = r /\ e.req = r

HistoryInv ==
    /\ IInv
    /\ NodesShown
    /\ Origin
    /\ TrailOfState
    /\ TrailOfNames
    /\ TwinNotAheadOfRow

\* A state never comes back: what a handler has found when it set to work, the
\* device is still, or is past it.
PastState(r) ==
    \/ pc[r] \in InTransaction \cup {"respond", "undoKey", "undoTwin"}
    \/ keys[r] = "live"
    => /\ req[r].op = "claim" =>
             dev[req[r].dev].state \in {"PENDING", "CLAIMED", "REVOKED"}
       /\ req[r].op = "reissue" =>
             dev[req[r].dev].state \in {"CLAIMED", "REVOKED"}

\* A claim comes to undoing, or loses its lock, after a failure only.
UndoAfterFailure ==
    \A r \in Requests : req[r].op = "claim" =>
        /\ pc[r] \in {"undoKey", "undoTwin"} => faults >= 1
        /\ pc[r] \in InTransaction /\ r \notin lock[req[r].dev] => faults >= 1

\* A key made for a PENDING device is held by the claim that is still to commit
\* or to undo it, ...
KeyToUndo ==
    \A r \in Requests :
        keys[r] = "live" /\ dev[req[r].dev].state \in {"NONE", "PENDING"} =>
            /\ req[r].op = "claim" /\ req[r].holds
            /\ pc[r] \in {"commit", "undoKey"}

\* ... and so is its twin.
TwinToUndo ==
    \A d \in Devices :
        dev[d].state \in {"NONE", "PENDING"} /\ twins[d] # "absent" =>
            \E r \in Requests :
                /\ req[r].op = "claim" /\ req[r].dev = d /\ req[r].twin
                /\ pc[r] \in {"mint", "commit", "undoKey", "undoTwin"}

Undoing ==
    /\ \A r \in Requests : PastState(r)
    /\ UndoAfterFailure
    /\ KeyToUndo
    /\ TwinToUndo

\* The failures the comment of _undo speaks of: a call or a statement fails,
\* once, and has had no effect.
OneFailure == FaultKinds \subseteq {"error", "db"} /\ MaxFaults <= 1

-----------------------------------------------------------------------------
(* Progress and liveness. *)

\* The handlers that wait for a row, and those that have begun and can go on.
Waits(r) == pc[r] \in {"locking", "save"} /\ ~ Free(req[r].dev)
CanMove(r) == pc[r] \notin {"idle"} \cup Ended /\ ~ Waits(r)

\* Nobody waits for somebody who waits: as long as a request is unanswered,
\* some handler can go on (repo.py, get_for_update is the first statement of
\* a transaction, and no handler has two).
SomebodyMoves ==
    (\E r \in Requests : pc[r] \notin {"idle"} \cup Ended)
        => \E r \in Requests : CanMove(r)

\* How far a handler has got.
Rank(label) ==
    CASE label = "idle" -> 0
      [] label \in {"locking", "read"} -> 1
      [] label = "user" -> 2
      [] label \in {"upsert", "nodes"} -> 3
      [] label \in {"save", "reject", "delete"} -> 4
      [] label = "keys" -> 5
      [] label = "expire" -> 6
      [] label = "mint" -> 7
      [] label = "patch" -> 8
      [] label = "commit" -> 9
      [] label = "respond" -> 10
      [] label = "undoKey" -> 11
      [] label = "undoTwin" -> 12
      [] OTHER -> 13

\* No handler does anything twice: whatever fails, it only ever goes further
\* in its code, so that it makes a dozen steps at most.
HandlersAdvance ==
    [][\A r \in Requests :
          pc'[r] = pc[r] \/ Rank(pc[r]) < Rank(pc'[r])]_vars

\* Every request that was accepted is answered: no cycle of row locks, no
\* handler that waits for something only it could do.
HandlersFinish ==
    \A r \in Requests : pc[r] # "idle" ~> pc[r] \in Ended

-----------------------------------------------------------------------------
(* The promise of Admission, read off the registry and Headscale. *)

Phase == [d \in Devices |-> dev[d].state]
Held == [d \in Devices |-> UsableFor(d)]
Online == [d \in Devices |-> OnlineFor(d)]

Adm == INSTANCE Admission WITH
         Keys <- Requests, Nodes <- Requests,
         state <- Phase, credentials <- Held, members <- Online,
         granted <- shown

\* Every interleaving and failure of claim_flow.py is a behaviour of
\* Admission: keys are granted one at a time, once, and to active devices only,
\* a key is spent by one node, and a device is retired when it holds none.
AdmissionHolds == Adm!Spec

\* No step leads back: a revoked device stays revoked and no node of it enters
\* the tailnet any more, and a key that was handed out and can no longer be
\* used never can again (claim_flow.py, revoke and reissue_key; headscale.py,
\* keys are single-use).
NoWayBack ==
    [][/\ \A d \in Devices : dev[d].state = "REVOKED" =>
             /\ dev'[d].state = "REVOKED"
             /\ OnlineFor(d)' \subseteq OnlineFor(d)
       /\ shown \subseteq shown'
       /\ shown \cap Usable' \subseteq Usable]_vars

-----------------------------------------------------------------------------
(* What the documentation says and the code does not keep. *)

\* docs/DEVELOPER_GUIDE.md: "Revoking a device in the page removes its node
\* from the tailnet immediately".
RevokedOffline ==
    \A d \in Devices :
        dev[d].state = "REVOKED" /\ AtRest(d) => OnlineFor(d) = {}

\* README.md: "on claim the module upserts an NGSI-LD entity"; a claimed
\* device whose handlers are done has its twin.
ClaimedHasTwin ==
    \A d \in Devices :
        dev[d].state = "CLAIMED" /\ AtRest(d) => twins[d] # "absent"

\* claim_flow.py, revoke: "If Headscale cannot answer, nothing changes (502)".
FailedRevokeRemovesNothing ==
    \A r \in Requests :
        req[r].op = "revoke" /\ pc[r] = "failed" => ~ req[r].removed
=============================================================================
