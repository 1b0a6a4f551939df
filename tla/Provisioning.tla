---------------------------- MODULE Provisioning ----------------------------
(***************************************************************************)
(* The life of a device in the registry, from services/claim_flow.py and   *)
(* the routes that call it: claim, key reissue, revocation and the read    *)
(* that persists a node the first time it is seen.                         *)
(*                                                                         *)
(* One request runs one handler.  A handler is a sequence of awaits; every *)
(* await that reads or changes something another actor can see is a step,  *)
(* and the steps of all requests, of the devices in the field, of the      *)
(* clock and of failures interleave.  The claim, reissue and revoke        *)
(* handlers keep the device row locked (SELECT ... FOR UPDATE) from their  *)
(* first statement to the end of the transaction; Headscale and Orion are  *)
(* called while the lock is held, and know nothing of it.                  *)
(*                                                                         *)
(* A handler creates at most one pre-auth key and a single-use key admits  *)
(* at most one node, so a key is named by the request that created it and  *)
(* a node by the key that admitted it.                                     *)
(***************************************************************************)
EXTENDS Naturals, FiniteSets

CONSTANTS
    Requests,       \* HTTP requests, each served once
    Devices,
    VpnDevices,     \* rovers and gateways; the others are sensors
    None,
    Operations,     \* which handlers the requests call
    World,          \* what happens outside: join, leave, rename, ttl, typo
    Hostnames,      \* the names a node may go by: see Node
    FaultKinds,     \* error, lostAck, db, commit, crash
    MaxFaults       \* bound on the failures of one behaviour

AllOperations == {"claim", "reissue", "revoke", "view"}

ASSUME ProvisioningAssumption ==
    /\ None \notin Requests
    /\ VpnDevices \subseteq Devices
    /\ Operations \subseteq AllOperations
    /\ World \subseteq {"join", "leave", "rename", "ttl", "typo"}
    /\ Hostnames \subseteq SUBSET Devices
    /\ FaultKinds \subseteq {"error", "lostAck", "db", "commit", "crash"}
    /\ MaxFaults \in Nat

VARIABLES
    dev,            \* devices: the committed row of each device
    lock,           \* the open transactions that have locked the row
    audit,          \* device_events
    keys,           \* Headscale: pre-auth keys
    nodes,          \* Headscale: tailnet nodes
    twins,          \* Orion-LD: deviceState of the device's twin
    shown,          \* keys whose value reached the administrator
    pc, req,        \* where a request is, and what its handler holds
    faults          \* failures so far

vars == <<dev, lock, audit, keys, nodes, twins, shown, pc, req, faults>>

registry == <<dev, lock, audit>>
network == <<keys, nodes, shown>>

RequestOrNone == Requests \cup {None}

Row == [state : {"NONE", "PENDING", "CLAIMED", "REVOKED"},
        key : RequestOrNone,        \* preauth_key_id
        node : RequestOrNone]       \* node_id

NoRow == [state |-> "NONE", key |-> None, node |-> None]

Ended == {"ok", "refused", "failed", "lost"}
InTransaction == {"user", "upsert", "nodes", "delete", "keys", "expire",
                  "mint", "patch", "commit"}
Labels == {"idle", "locking", "read", "save", "reject", "undoKey",
           "undoTwin", "respond"} \cup InTransaction \cup Ended

Handler == [op : Operations \cup {"none"},
            dev : Devices \cup {None},
            row : Row,                  \* the row as the handler read it
            holds : BOOLEAN,            \* preauth is not None
            twin : BOOLEAN,             \* created_twin is not None
            node : RequestOrNone,       \* the node _match_node returned
            removed : BOOLEAN]          \* "node_id" in details

\* A node has a hostname, which the machine chooses, and a given name, which an
\* operator may change.  Of either only this counts: whose UUID it is, if any.
\* Nothing ties it to the device whose key admitted the node.
Node == [status : {"absent", "up", "deleted"},
         names : SUBSET Devices,    \* whose UUIDs it bears
         bore : SUBSET Devices]     \* and ever bore: no handler reads this

NoNode == [status |-> "absent", names |-> {}, bore |-> {}]

Event == [action : {"REGISTERED", "CLAIMED", "CLAIM_REJECTED", "KEY_REISSUED",
                    "REVOKED", "NODE_SEEN"},
          dev : Devices, req : RequestOrNone, about : RequestOrNone]

TypeOK ==
    /\ dev \in [Devices -> Row]
    /\ lock \in [Devices -> SUBSET Requests]
    /\ audit \subseteq Event
    /\ keys \in [Requests -> {"absent", "live", "used", "expired"}]
    /\ nodes \in [Requests -> Node]
    /\ twins \in [Devices -> {"absent", "CLAIMED", "REVOKED"}]
    /\ shown \subseteq Requests
    /\ pc \in [Requests -> Labels]
    /\ req \in [Requests -> Handler]
    /\ \A r \in Requests :
          pc[r] # "idle" => req[r].op \in Operations /\ req[r].dev \in Devices
    /\ faults \in Nat

Init ==
    /\ dev = [d \in Devices |-> NoRow]
    /\ lock = [d \in Devices |-> {}]
    /\ audit = {}
    /\ keys = [k \in Requests |-> "absent"]
    /\ nodes = [n \in Requests |-> NoNode]
    /\ twins = [d \in Devices |-> "absent"]
    /\ shown = {}
    /\ pc = [r \in Requests |-> "idle"]
    /\ req = [r \in Requests |->
                [op |-> "none", dev |-> None, row |-> NoRow, holds |-> FALSE,
                 twin |-> FALSE, node |-> None, removed |-> FALSE]]
    /\ faults = 0

-----------------------------------------------------------------------------
(* Ends of a step. *)

Goto(r, label) == pc' = [pc EXCEPT ![r] = label]

\* A failure is allowed, and counted; a call that goes well is free.
Counted(outcome) ==
    IF outcome = "ok"
    THEN UNCHANGED faults
    ELSE outcome \in FaultKinds /\ faults < MaxFaults /\ faults' = faults + 1

\* A remote call that changes something takes effect even when its answer is
\* lost; the handler sees HeadscaleError or TwinError in both other cases.
Outcomes == {"ok", "error", "lostAck"}
Effective(outcome) == outcome # "error"

\* A transaction that an exception leaves open.
ReleasedNever(r) == lock

\* Leaving `async with tenant_tx` gives the row lock back, if it is still held.
Released(r) == [d \in Devices |-> lock[d] \ {r}]

\* An exception leaves the transaction.  Revocation reports it; claim and
\* reissue first call _undo, by then without the lock.
AfterFailureKeyOnly(r) ==
    IF req[r].op # "revoke" /\ req[r].holds THEN "undoKey" ELSE "failed"

AfterFailure(r) ==
    IF req[r].op = "revoke" THEN "failed"
    ELSE IF req[r].holds THEN "undoKey"
    ELSE IF req[r].twin THEN "undoTwin"
    ELSE "failed"

Raise(r) == lock' = Released(r) /\ Goto(r, AfterFailure(r))

Onward(r, label) == UNCHANGED lock /\ Goto(r, label)

\* An HTTPException raised inside the transaction.
Refuse(r) == lock' = Released(r) /\ Goto(r, "refused")

\* UPDATE devices, INSERT INTO device_events.
WrittenUnlogged(d, row, event) ==
    dev' = [dev EXCEPT ![d] = row] /\ UNCHANGED audit

Written(d, row, event) ==
    dev' = [dev EXCEPT ![d] = row] /\ audit' = audit \cup {event}

\* Both statements and the COMMIT: both rows or neither.  fits is the WHERE
\* clause of the UPDATE.  A transaction whose connection was lost, or a
\* failing statement, changes nothing; a COMMIT whose answer is lost has
\* changed both rows while the handler sees an exception.
Commit(r, fits, row, event, label) ==
    LET d == req[r].dev
        can == r \in lock[d] /\ fits
    IN  \/ /\ can
           /\ Written(d, row, event)
           /\ lock' = Released(r) /\ Goto(r, label)
           /\ UNCHANGED faults
        \/ /\ can /\ Counted("commit")
           /\ Written(d, row, event)
           /\ Raise(r)
        \/ /\ (~ can /\ UNCHANGED faults) \/ Counted("db")
           /\ UNCHANGED <<dev, audit>>
           /\ Raise(r)

\* The COMMIT of a transaction with one step: its answer may be lost too.
Saved(r, label) ==
    \E outcome \in {"ok", "commit"} :
        Counted(outcome) /\ Goto(r, IF outcome = "ok" THEN label ELSE "failed")

-----------------------------------------------------------------------------
(* Requests arrive; the factory registers devices. *)

Register(d) ==
    /\ dev[d].state = "NONE"
    /\ dev' = [dev EXCEPT ![d].state = "PENDING"]
    /\ audit' = audit \cup
         {[action |-> "REGISTERED", dev |-> d, req |-> None, about |-> None]}
    /\ UNCHANGED <<lock, network, twins, pc, req, faults>>

Begin(r, op, d) ==
    /\ pc[r] = "idle"
    /\ op \in Operations
    /\ req' = [req EXCEPT ![r].op = op, ![r].dev = d]
    /\ Goto(r, IF op = "view" THEN "read" ELSE "locking")
    /\ UNCHANGED <<registry, network, twins, faults>>

-----------------------------------------------------------------------------
(* SELECT ... FOR UPDATE, and what each handler decides on the row. *)

OnTailnet(d, row) == row.state = "CLAIMED" /\ d \in VpnDevices

\* A plain SELECT would not wait.
FreeAlways(d) == TRUE

\* FOR UPDATE and UPDATE wait for the holder, then see the committed row.
Free(d) == lock[d] = {}

Lock(r, label) ==
    /\ lock' = [lock EXCEPT ![req[r].dev] = @ \cup {r}]
    /\ req' = [req EXCEPT ![r].row = dev[req[r].dev]]
    /\ Goto(r, label)

Turned(r, label) == UNCHANGED <<lock, req>> /\ Goto(r, label)

ClaimLock(r) ==
    LET d == req[r].dev IN
    /\ pc[r] = "locking" /\ req[r].op = "claim"
    /\ Free(d)
    /\ \/ dev[d].state # "PENDING" /\ Turned(r, "refused")
       \/ dev[d].state = "PENDING" /\ "typo" \in World /\ Turned(r, "reject")
       \/ /\ dev[d].state = "PENDING"
          /\ Lock(r, IF d \in VpnDevices THEN "user" ELSE "upsert")
    /\ UNCHANGED <<dev, audit, network, twins, faults>>

ReissueLock(r) ==
    LET d == req[r].dev IN
    /\ pc[r] = "locking" /\ req[r].op = "reissue"
    /\ Free(d)
    /\ IF OnTailnet(d, dev[d]) THEN Lock(r, "nodes") ELSE Turned(r, "refused")
    /\ UNCHANGED <<dev, audit, network, twins, faults>>

RevokeLock(r) ==
    LET d == req[r].dev IN
    /\ pc[r] = "locking" /\ req[r].op = "revoke"
    /\ Free(d)
    /\ \/ dev[d].state \in {"NONE", "REVOKED"} /\ Turned(r, "refused")
       \/ dev[d].state = "PENDING" /\ Lock(r, "commit")
       \/ OnTailnet(d, dev[d]) /\ Lock(r, "nodes")
       \/ /\ dev[d].state = "CLAIMED" /\ d \notin VpnDevices
          /\ Lock(r, "patch")
    /\ UNCHANGED <<dev, audit, network, twins, faults>>

\* A wrong code: the event is written in a transaction of its own.
Reject(r) ==
    /\ pc[r] = "reject"
    /\ audit' = audit \cup {[action |-> "CLAIM_REJECTED", dev |-> req[r].dev,
                             req |-> r, about |-> None]}
    /\ Saved(r, "refused")
    /\ UNCHANGED <<dev, lock, network, twins, req>>

-----------------------------------------------------------------------------
(* Headscale and Orion, called with the row locked. *)

Owner(k) == req[k].dev

EnsureUser(r) ==
    /\ pc[r] = "user"
    /\ \E outcome \in {"ok", "error"} :
         /\ Counted(outcome)
         /\ IF outcome = "ok" THEN Onward(r, "upsert") ELSE Raise(r)
    /\ UNCHANGED <<dev, audit, network, twins, req>>

UpsertTwin(r) ==
    LET d == req[r].dev IN
    /\ pc[r] = "upsert"
    /\ \E outcome \in Outcomes :
         /\ Counted(outcome)
         /\ twins' = IF Effective(outcome)
                     THEN [twins EXCEPT ![d] = "CLAIMED"] ELSE twins
         /\ IF outcome = "ok"
            THEN /\ req' = [req EXCEPT ![r].twin = TRUE]
                 /\ Onward(r, IF d \in VpnDevices THEN "mint" ELSE "commit")
            ELSE UNCHANGED req /\ Raise(r)
    /\ UNCHANGED <<dev, audit, network>>

\* The last remote call of a claim and of a reissue.
MintKey(r) ==
    /\ pc[r] = "mint"
    /\ \E outcome \in Outcomes :
         /\ Counted(outcome)
         /\ keys' = IF Effective(outcome)
                    THEN [keys EXCEPT ![r] = "live"] ELSE keys
         /\ IF outcome = "ok"
            THEN req' = [req EXCEPT ![r].holds = TRUE] /\ Onward(r, "commit")
            ELSE UNCHANGED req /\ Raise(r)
    /\ UNCHANGED <<dev, audit, nodes, shown, twins>>

\* Names are not compared with the device's UUID.
MatchesAnyName(d, row) ==
    LET up == {n \in Requests : nodes[n].status = "up"}
    IN  IF row.node \in up THEN {row.node}
        ELSE IF row.key \in up THEN {row.key}
        ELSE {n \in up : nodes[n].names # {}}

\* _match_node over a fresh listing: the recorded node, else the one admitted
\* by the recorded key, else the first that bears the device's UUID, whichever
\* key admitted it.
Matches(d, row) ==
    LET up == {n \in Requests : nodes[n].status = "up"}
    IN  IF row.node \in up THEN {row.node}
        ELSE IF row.key \in up THEN {row.key}
        ELSE {n \in up : d \in nodes[n].names}

\* Reissue: a device that has a node needs no key.
ReissueNodes(r) ==
    /\ pc[r] = "nodes" /\ req[r].op = "reissue"
    /\ \/ Counted("error") /\ Raise(r)
       \/ /\ UNCHANGED faults
          /\ IF Matches(req[r].dev, req[r].row) = {}
             THEN Onward(r, "keys") ELSE Refuse(r)
    /\ UNCHANGED <<dev, audit, network, twins, req>>

RevokeNodes(r) ==
    LET found == Matches(req[r].dev, req[r].row) IN
    /\ pc[r] = "nodes" /\ req[r].op = "revoke"
    /\ \/ Counted("error") /\ Raise(r) /\ UNCHANGED req
       \/ /\ UNCHANGED faults
          /\ \/ found = {} /\ Onward(r, "keys") /\ UNCHANGED req
             \/ \E n \in found : /\ req' = [req EXCEPT ![r].node = n]
                                 /\ Onward(r, "delete")
    /\ UNCHANGED <<dev, audit, network, twins>>

\* A node that is gone by now answers 404, which is an error like any other.
DeleteNode(r) ==
    LET n == req[r].node IN
    /\ pc[r] = "delete"
    /\ \E outcome \in Outcomes :
         /\ Counted(outcome)
         /\ nodes' = IF Effective(outcome)
                     THEN [nodes EXCEPT ![n].status = "deleted"] ELSE nodes
         /\ IF outcome = "ok" /\ nodes[n].status = "up"
            THEN req' = [req EXCEPT ![r].removed = TRUE] /\ Onward(r, "keys")
            ELSE UNCHANGED req /\ Raise(r)
    /\ UNCHANGED <<dev, audit, keys, shown, twins>>

\* A reissue that starts over once the old key is dealt with.
AfterKeysAgain(r) == IF req[r].op = "reissue" THEN "nodes" ELSE "patch"

AfterKeys(r) == IF req[r].op = "reissue" THEN "mint" ELSE "patch"

UnusedInverted(k) == k \in Requests /\ keys[k] = "used"

Unused(k) == k \in Requests /\ keys[k] \in {"live", "expired"}

\* expire_unused_key, first call: is the recorded key there and unused?
ListKeys(r) ==
    /\ pc[r] = "keys"
    /\ \/ Counted("error") /\ Raise(r)
       \/ /\ UNCHANGED faults
          /\ IF Unused(req[r].row.key) THEN Onward(r, "expire")
             ELSE Onward(r, AfterKeys(r))
    /\ UNCHANGED <<dev, audit, network, twins, req>>

ExpiredDeleted(k) == [keys EXCEPT ![k] = "deleted"]

Expired(k) == IF keys[k] = "live" THEN [keys EXCEPT ![k] = "expired"] ELSE keys

\* expire_unused_key, second call; the key may have been used meanwhile.
ExpireUnused(r) ==
    /\ pc[r] = "expire"
    /\ \E outcome \in Outcomes :
         /\ Counted(outcome)
         /\ keys' = IF Effective(outcome) THEN Expired(req[r].row.key) ELSE keys
         /\ IF outcome = "ok" THEN Onward(r, AfterKeys(r)) ELSE Raise(r)
    /\ UNCHANGED <<dev, audit, nodes, shown, twins, req>>

\* The twin is patched before the network was dealt with.
PatchTwinEarly(r) ==
    /\ pc[r] \in {"nodes", "patch"} /\ req[r].op = "revoke"
    /\ twins' = [twins EXCEPT ![req[r].dev] = "REVOKED"]
    /\ Onward(r, IF pc[r] = "patch" THEN "commit" ELSE "nodes")
    /\ UNCHANGED <<dev, audit, network, req, faults>>

\* The twin is metadata: revocation does not depend on it.
PatchTwin(r) ==
    LET d == req[r].dev IN
    /\ pc[r] = "patch"
    /\ \E outcome \in Outcomes :
         /\ Counted(outcome)
         /\ twins' = IF Effective(outcome) /\ twins[d] # "absent"
                     THEN [twins EXCEPT ![d] = "REVOKED"] ELSE twins
    /\ Onward(r, "commit")
    /\ UNCHANGED <<dev, audit, network, req>>

-----------------------------------------------------------------------------
(* The end of the transaction, and of the handler. *)

ClaimCommit(r) ==
    LET d == req[r].dev
        key == IF req[r].holds THEN r ELSE None
    IN  /\ pc[r] = "commit" /\ req[r].op = "claim"
        /\ Commit(r, dev[d].state = "PENDING",
                  [dev[d] EXCEPT !.state = "CLAIMED", !.key = key],
                  [action |-> "CLAIMED", dev |-> d, req |-> r, about |-> key],
                  "respond")
        /\ UNCHANGED <<network, twins, req>>

ReissueCommit(r) ==
    LET d == req[r].dev
    IN  /\ pc[r] = "commit" /\ req[r].op = "reissue"
        /\ Commit(r, dev[d].state = "CLAIMED",
                  [dev[d] EXCEPT !.key = r],
                  [action |-> "KEY_REISSUED", dev |-> d, req |-> r,
                   about |-> r],
                  "respond")
        /\ UNCHANGED <<network, twins, req>>

RevokeCommit(r) ==
    LET d == req[r].dev
        gone == IF req[r].removed THEN req[r].node ELSE None
    IN  /\ pc[r] = "commit" /\ req[r].op = "revoke"
        /\ Commit(r, dev[d].state # "REVOKED",
                  [dev[d] EXCEPT !.state = "REVOKED"],
                  [action |-> "REVOKED", dev |-> d, req |-> r, about |-> gone],
                  "ok")
        /\ UNCHANGED <<network, twins, req>>

\* The answer that carries the key: from here on somebody can use it.
Respond(r) ==
    /\ pc[r] = "respond"
    /\ shown' = IF req[r].holds THEN shown \cup {r} ELSE shown
    /\ Goto(r, "ok")
    /\ UNCHANGED <<registry, keys, nodes, twins, req, faults>>

\* _undo: best effort, each half on its own, outside the transaction.
UndoKey(r) ==
    /\ pc[r] = "undoKey"
    /\ \E outcome \in Outcomes :
         /\ Counted(outcome)
         /\ keys' = IF Effective(outcome) THEN Expired(r) ELSE keys
    /\ Goto(r, IF req[r].twin THEN "undoTwin" ELSE "failed")
    /\ UNCHANGED <<registry, nodes, shown, twins, req>>

UndoTwin(r) ==
    /\ pc[r] = "undoTwin"
    /\ \E outcome \in Outcomes :
         /\ Counted(outcome)
         /\ twins' = IF Effective(outcome)
                     THEN [twins EXCEPT ![req[r].dev] = "absent"] ELSE twins
    /\ Goto(r, "failed")
    /\ UNCHANGED <<registry, network, req>>

-----------------------------------------------------------------------------
(* GET: read the row, list the nodes, record one never seen before. *)

ViewRead(r) ==
    LET row == dev[req[r].dev] IN
    /\ pc[r] = "read"
    /\ IF row.state = "NONE" THEN UNCHANGED req /\ Goto(r, "refused")
       ELSE /\ req' = [req EXCEPT ![r].row = row]
            /\ Goto(r, IF OnTailnet(req[r].dev, row) THEN "nodes" ELSE "ok")
    /\ UNCHANGED <<registry, network, twins, faults>>

ViewNodes(r) ==
    LET row == req[r].row
        found == Matches(req[r].dev, row)
    IN  /\ pc[r] = "nodes" /\ req[r].op = "view"
        /\ \/ Counted("error") /\ Goto(r, "ok") /\ UNCHANGED req
           \/ found \subseteq {row.node} /\ Goto(r, "ok")
              /\ UNCHANGED <<req, faults>>
           \/ \E n \in found \ {row.node} :
                 /\ req' = [req EXCEPT ![r].node = n]
                 /\ Goto(r, "save")
                 /\ UNCHANGED faults
        /\ UNCHANGED <<registry, network, twins>>

\* set_node has no condition on the state; it waits for the row lock only.
ViewSave(r) ==
    LET d == req[r].dev IN
    /\ pc[r] = "save"
    /\ Free(d)
    /\ dev' = [dev EXCEPT ![d].node = req[r].node]
    /\ audit' = audit \cup {[action |-> "NODE_SEEN", dev |-> d, req |-> r,
                             about |-> req[r].node]}
    /\ Saved(r, "ok")
    /\ UNCHANGED <<lock, network, twins, req>>

-----------------------------------------------------------------------------
(* Failures of the database and of the process. *)

\* A statement outside the long transactions fails; nothing was done yet.
StatementFails(r) ==
    /\ pc[r] \in {"locking", "read", "save", "reject"}
    /\ Counted("db")
    /\ Goto(r, "failed")
    /\ UNCHANGED <<registry, network, twins, req>>

\* PostgreSQL drops the connection of an open transaction: it is rolled back
\* and the row is free, but the handler finds out at its next statement.
ConnectionLost(r) ==
    /\ pc[r] \in InTransaction
    /\ r \in lock[req[r].dev]
    /\ Counted("db")
    /\ lock' = Released(r)
    /\ UNCHANGED <<dev, audit, network, twins, pc, req>>

\* The process dies: no handler runs its except clauses.
Crash ==
    /\ Counted("crash")
    /\ pc' = [r \in Requests |->
                IF pc[r] \in {"idle"} \cup Ended THEN pc[r] ELSE "lost"]
    /\ lock' = [d \in Devices |-> {}]
    /\ UNCHANGED <<dev, audit, network, twins, req>>

-----------------------------------------------------------------------------
(* The outside: the key's lifetime, the machine in the field, an operator. *)

KeyTimeout(k) ==
    /\ "ttl" \in World
    /\ keys[k] = "live"
    /\ keys' = [keys EXCEPT ![k] = "expired"]
    /\ UNCHANGED <<registry, nodes, shown, twins, pc, req, faults>>

Named(n, names) == [nodes[n] EXCEPT !.names = names, !.bore = @ \cup names]

Join(k, names) ==
    /\ "join" \in World
    /\ k \in shown /\ keys[k] = "live"
    /\ keys' = [keys EXCEPT ![k] = "used"]
    /\ nodes' = [nodes EXCEPT ![k] = [Named(k, names) EXCEPT !.status = "up"]]
    /\ UNCHANGED <<registry, shown, twins, pc, req, faults>>

\* By the machine (its hostname) or by an operator (its given name).
Rename(n, names) ==
    /\ "rename" \in World
    /\ nodes[n].status = "up"
    /\ nodes' = [nodes EXCEPT ![n] = Named(n, names)]
    /\ UNCHANGED <<registry, keys, shown, twins, pc, req, faults>>

Leave(n) ==
    /\ "leave" \in World
    /\ nodes[n].status = "up"
    /\ nodes' = [nodes EXCEPT ![n].status = "deleted"]
    /\ UNCHANGED <<registry, keys, shown, twins, pc, req, faults>>

-----------------------------------------------------------------------------
Step(r) ==
    \/ ClaimLock(r) \/ ReissueLock(r) \/ RevokeLock(r) \/ Reject(r)
    \/ EnsureUser(r) \/ UpsertTwin(r) \/ MintKey(r)
    \/ ReissueNodes(r) \/ RevokeNodes(r) \/ DeleteNode(r)
    \/ ListKeys(r) \/ ExpireUnused(r) \/ PatchTwin(r)
    \/ ClaimCommit(r) \/ ReissueCommit(r) \/ RevokeCommit(r)
    \/ Respond(r) \/ UndoKey(r) \/ UndoTwin(r)
    \/ ViewRead(r) \/ ViewNodes(r) \/ ViewSave(r)

Disturbance ==
    \/ \E r \in Requests : StatementFails(r) \/ ConnectionLost(r)
    \/ Crash

Outside ==
    \E k \in Requests :
        \/ KeyTimeout(k)
        \/ \E names \in Hostnames : Join(k, names) \/ Rename(k, names)
        \/ Leave(k)

\* Every request has been answered: the only way to stand still.
Settled == (\A r \in Requests : pc[r] \in Ended) /\ UNCHANGED vars

Next ==
    \/ \E d \in Devices : Register(d)
    \/ \E r \in Requests, op \in AllOperations, d \in Devices : Begin(r, op, d)
    \/ \E r \in Requests : Step(r)
    \/ Disturbance
    \/ Outside
    \/ Settled

Spec == Init /\ [][Next]_vars

\* The event loop resumes every handler whose await has completed, and every
\* remote call completes or times out (10 s).
Fairness == \A r \in Requests : WF_vars(Step(r))

FairSpec == Spec /\ Fairness
=============================================================================
