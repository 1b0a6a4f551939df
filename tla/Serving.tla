------------------------------ MODULE Serving -------------------------------
(***************************************************************************)
(* How requests share what the registry runs on: a pool of connections     *)
(* (db/session.py), row-level security, the row locks, the Headscale user  *)
(* of an organisation.  Provisioning looks at one device and its key; this *)
(* module looks at who waits for what, whose rows a request reaches, and   *)
(* what the reading routes answer (api/devices.py, api/internal.py).       *)
(*                                                                         *)
(* A request keeps a connection from `async with tenant_tx` to its end,    *)
(* through every remote call in between, and never asks for a second one.  *)
(* Every device here is a rover or a gateway; a sensor has no node.        *)
(***************************************************************************)
EXTENDS Naturals, FiniteSets

CONSTANTS
    Requests,       \* HTTP requests, each served once
    Devices,
    Tenants,        \* X-Tenant-ID of the callers
    TenantOf,       \* devices.tenant_id
    UserOf,         \* headscale_user_for: two tenants may share a user
    Platform,       \* PLATFORM_SCOPE
    None,
    PoolSize,       \* max_size of the pool
    Calls,          \* bound: what each request may ask for
    FaultKinds,     \* headscale, lostAck, db
    MaxFaults,      \* bound on the failures of one behaviour
    MaxJoins        \* bound on the nodes that ever join

Reads == {"list", "listAll", "get", "lookup", "events"}
Operations == Reads \cup {"validate", "claim", "revoke"}

Roles == {"TenantAdmin", "PlatformAdmin", "service", "none"}

\* A route, what the headers say of the caller and the device of the path.
\* Another service has no tenant but a shared secret, and one route.
Call == {c \in [op : Operations, tenant : Tenants \cup {None}, role : Roles,
                dev : Devices \cup {None}] :
            /\ c.tenant = None <=> c.op = "lookup"
            /\ c.role = "service" => c.op = "lookup"
            /\ c.dev = None <=> c.op \in {"list", "listAll"}}

\* An organisation cannot be registered under the name of the platform scope
\* (TENANT_PATTERN), but a caller may come with it.
ASSUME ServingAssumption ==
    /\ TenantOf \in [Devices -> Tenants \ {Platform}]
    /\ None \notin Requests \cup Devices \cup Tenants \cup {Platform}
    /\ PoolSize \in Nat \ {0}
    /\ \A r \in Requests : Calls[r] \subseteq Call
    /\ FaultKinds \subseteq {"headscale", "lostAck", "db"}
    /\ MaxFaults \in Nat /\ MaxJoins \in Nat \ {0}

VARIABLES
    rows,           \* devices: state and node_id of each
    lock,           \* the transaction that has locked the row
    users,          \* Headscale: the users
    nodes,          \* Headscale: the device's node, 0 when there is none
    joins,          \* nodes that ever joined; a node is named by its number
    scope,          \* app.current_tenant_id of the connection a request has
    pc, req,        \* where a request is, and what its handler holds
    calm,           \* reads since whose start no node came or went
    faults

vars == <<rows, lock, users, nodes, joins, scope, pc, req, calm, faults>>
headscale == <<users, nodes, joins>>

Users == {UserOf[t] : t \in Tenants}
NodeIds == 0 .. MaxJoins

Row == [state : {"PENDING", "CLAIMED", "REVOKED"}, node : NodeIds]
NoRow == [state |-> "NONE", node |-> 0]

\* Waiting for a connection; inside a transaction; between two of them.
Waiting == {"open", "openEvents", "openSave", "openReject"}
Remote == {"user", "create", "again", "remote"}
Holding == Remote \cup {"commit"}
Inside == {"read", "events", "save", "log", "lock"} \cup Holding
Ended == {"ok", "refused", "failed"}
Labels == {"idle", "each"} \cup Waiting \cup Inside \cup Ended

Handler == [op : Operations \cup {"none"},
            tenant : Tenants \cup {None},   \* auth.tenant_id
            role : Roles,
            dev : Devices \cup {None},
            rows : [Devices -> Row \cup {NoRow}],   \* as read; the answer
            asked : [Users -> {"no", "yes", "failed"}],     \* nodes_by_user
            listing : [Devices -> NodeIds],
            blame : SUBSET {"headscale", "db", "scope"}]  \* what failed in it

TypeOK ==
    /\ rows \in [Devices -> Row]
    /\ lock \in [Devices -> Requests \cup {None}]
    /\ users \subseteq Users
    /\ nodes \in [Devices -> NodeIds]
    /\ joins \in NodeIds
    /\ scope \in [Requests -> Tenants \cup {Platform, None}]
    /\ pc \in [Requests -> Labels]
    /\ req \in [Requests -> Handler]
    /\ calm \subseteq Requests
    /\ faults \in Nat

Blank == [op |-> "none", tenant |-> None, role |-> "none", dev |-> None,
          rows |-> [d \in Devices |-> NoRow],
          asked |-> [u \in Users |-> "no"],
          listing |-> [d \in Devices |-> 0], blame |-> {}]

\* Any registry: devices wait for their claim, or are claimed; one row may
\* name a node, number 1, that Headscale has no more.
Init ==
    /\ rows \in [Devices -> {row \in Row : row.state # "REVOKED"}]
    /\ \A d \in Devices :
          /\ rows[d].node \in {0, 1}
          /\ rows[d].node = 1 => rows[d].state = "CLAIMED"
          /\ \A e \in Devices : rows[d].node = 1 /\ rows[e].node = 1 => d = e
    /\ lock = [d \in Devices |-> None]
    /\ users = {UserOf[TenantOf[d]] :
                   d \in {e \in Devices : rows[e].state = "CLAIMED"}}
    /\ nodes = [d \in Devices |-> 0]
    /\ joins = 1
    /\ scope = [r \in Requests |-> None]
    /\ pc = [r \in Requests |-> "idle"]
    /\ req = [r \in Requests |-> Blank]
    /\ calm = {}
    /\ faults = 0

-----------------------------------------------------------------------------
(* Ends of a step. *)

Goto(r, label) == pc' = [pc EXCEPT ![r] = label]

\* Leaving the transaction gives connection and row back.
Release(r) ==
    /\ scope' = [scope EXCEPT ![r] = None]
    /\ lock' = [d \in Devices |-> IF lock[d] = r THEN None ELSE lock[d]]

Keep == UNCHANGED <<scope, lock>>

Fault(kind) == kind \in FaultKinds /\ faults < MaxFaults /\ faults' = faults + 1

Blame(r, what) == req' = [req EXCEPT ![r].blame = @ \cup {what}]

\* An exception leaves the transaction and becomes a 500 or a 502.
Fail(r) == Release(r) /\ Goto(r, "failed")

-----------------------------------------------------------------------------
(* The routes, and the connection a request waits for. *)

\* The list of all organisations asks for no more than the other routes.
AllowedAnyAdmin(c) ==
    IF c.op = "lookup" THEN {"service"} ELSE {"TenantAdmin", "PlatformAdmin"}

\* require_roles of every user route, with one more check for the list of all
\* organisations; verify_internal_secret of the lookup.
Allowed(c) ==
    CASE c.op = "lookup" -> {"service"}
      [] c.op = "listAll" -> {"PlatformAdmin"}
      [] OTHER -> {"TenantAdmin", "PlatformAdmin"}

\* tenant_tx refuses the name of the platform scope before it asks for a
\* connection.
Entry(c) ==
    IF c.role \notin Allowed(c) THEN "refused"
    ELSE IF c.op \notin {"listAll", "lookup"} /\ c.tenant = Platform
         THEN "failed"
    ELSE "open"

Begin(r) ==
    /\ pc[r] = "idle"
    /\ \E c \in Calls[r] :
          /\ Goto(r, Entry(c))
          /\ calm' = calm \cup (IF c.op \in Reads THEN {r} ELSE {})
          /\ req' = [req EXCEPT ![r] =
                [Blank EXCEPT !.op = c.op, !.tenant = c.tenant,
                     !.role = c.role, !.dev = c.dev,
                     !.blame = IF Entry(c) = "failed" THEN {"scope"} ELSE {}]]
    /\ Keep /\ UNCHANGED <<rows, headscale, faults>>

\* A node is written in the scope of whoever asked for the list.
ScopeOfCaller(r) ==
    IF req[r].op = "lookup" \/ (req[r].op = "listAll" /\ pc[r] = "open")
    THEN Platform
    ELSE req[r].tenant

\* reconcile_node writes in the scope of the device's organisation, whoever
\* asked; every other transaction has the scope of its route.
ScopeOf(r) ==
    IF pc[r] = "openSave" THEN TenantOf[req[r].dev]
    ELSE IF req[r].op \in {"listAll", "lookup"} THEN Platform
    ELSE req[r].tenant

\* The policies of both tables; platform_scope has no WITH CHECK of its own,
\* so it lets through every command.
Visible(s, d) == s = TenantOf[d] \/ s = Platform

FirstLabel(r) ==
    CASE pc[r] = "open" -> IF req[r].op \in {"claim", "revoke"} THEN "lock"
                           ELSE "read"
      [] pc[r] = "openEvents" -> "events"
      [] pc[r] = "openSave" -> "save"
      [] pc[r] = "openReject" -> "log"

\* acquire, BEGIN and set_config.
Open(r) ==
    /\ pc[r] \in Waiting
    /\ Cardinality({q \in Requests : scope[q] # None}) < PoolSize
    /\ scope' = [scope EXCEPT ![r] = ScopeOf(r)]
    /\ Goto(r, FirstLabel(r))
    /\ UNCHANGED <<rows, lock, headscale, req, calm, faults>>

-----------------------------------------------------------------------------
(* Reading. *)

Wanted(r) == IF req[r].op \in {"list", "listAll"} THEN Devices ELSE {req[r].dev}

\* Where a handler goes with the rows it has read.
AfterRead(r, seen) ==
    IF req[r].op \in {"list", "listAll"} THEN {"each"}
    ELSE IF seen = {} THEN {"refused"}
    ELSE IF req[r].op \in {"get", "lookup"} THEN {"each"}
    ELSE IF req[r].op = "events" THEN {"openEvents"}
    ELSE IF rows[req[r].dev].state # "PENDING" THEN {"refused"}
    ELSE {"ok", "openReject"}           \* validate: the code is right, or not

\* SELECT, and the end of the transaction.
ReadRows(r) ==
    /\ pc[r] = "read"
    /\ LET seen == {d \in Wanted(r) : Visible(scope[r], d)}
       IN  /\ req' = [req EXCEPT ![r].rows =
                        [d \in Devices |-> IF d \in seen THEN rows[d] ELSE NoRow]]
           /\ \E label \in AfterRead(r, seen) : Goto(r, label)
    /\ Release(r)
    /\ UNCHANGED <<rows, headscale, calm, faults>>

\* The second transaction of the events route.
ReadEvents(r) ==
    /\ pc[r] = "events"
    /\ Goto(r, "ok") /\ Release(r)
    /\ UNCHANGED <<rows, headscale, req, calm, faults>>

User(d) == UserOf[TenantOf[d]]

OnTailnet(r) == {d \in Devices : req[r].rows[d].state = "CLAIMED"}

\* list_nodes of one user, as far as it concerns the rows that were read.
Listed(r, u) ==
    [d \in Devices |-> IF d \in OnTailnet(r) /\ User(d) = u THEN nodes[d]
                      ELSE req[r].listing[d]]

\* The answer that did not come is taken for an empty list.
NoListing(r, u) == [req[r] EXCEPT !.asked[u] = "yes"]

\* Without a listing the network state of the user's devices is unknown, and
\* the request goes on.
Unanswered(r, u) ==
    [req[r] EXCEPT !.asked[u] = "failed", !.blame = @ \cup {"headscale"}]

\* One listing per Headscale user and request.
Ask(r) ==
    /\ pc[r] = "each"
    /\ \E u \in {User(d) : d \in OnTailnet(r)} :
          /\ req[r].asked[u] = "no"
          /\ \/ /\ req' = [req EXCEPT ![r].asked[u] = "yes",
                              ![r].listing = Listed(r, u)]
                /\ UNCHANGED faults
             \/ Fault("headscale") /\ req' = [req EXCEPT ![r] = Unanswered(r, u)]
    /\ Keep /\ UNCHANGED <<rows, headscale, pc, calm>>

\* Only a device without a node gets one.
FirstSeen(r) ==
    {d \in OnTailnet(r) : req[r].listing[d] # 0 /\ req[r].rows[d].node = 0}

\* _match_node found a node, and it is not the one of the row.
Unsaved(r) ==
    {d \in OnTailnet(r) : req[r].listing[d] \notin {0, req[r].rows[d].node}}

Persist(r) ==
    /\ pc[r] = "each"
    /\ \E d \in Unsaved(r) : req' = [req EXCEPT ![r].dev = d]
    /\ Goto(r, "openSave")
    /\ Keep /\ UNCHANGED <<rows, headscale, calm, faults>>

Answer(r) ==
    /\ pc[r] = "each"
    /\ Unsaved(r) = {}
    /\ \A d \in OnTailnet(r) : req[r].asked[User(d)] # "no"
    /\ Goto(r, "ok")
    /\ Keep /\ UNCHANGED <<rows, headscale, req, calm, faults>>

\* set_node waits for the row, whatever its state has become, and returns it;
\* a row out of scope is an InvalidTransition.
Save(r) ==
    /\ pc[r] = "save"
    /\ LET d == req[r].dev
           row == [rows[d] EXCEPT !.node = req[r].listing[d]]
       IN  IF Visible(scope[r], d)
           THEN /\ lock[d] = None
                /\ rows' = [rows EXCEPT ![d] = row]
                /\ req' = [req EXCEPT ![r].rows[d] = row]
                /\ calm' = calm \cap {r}
                /\ Goto(r, "each") /\ Release(r)
           ELSE Fail(r) /\ UNCHANGED <<rows, req, calm>>
    /\ UNCHANGED <<headscale, faults>>

-----------------------------------------------------------------------------
(* Claim and revocation: the row is locked first and the connection kept    *)
(* until the last remote call has been answered.                            *)

\* The wrong code is logged while the row is still locked.
KeptForReject(label) == label \in Holding \cup {"openReject"}

\* A refusal gives everything back; so does a wrong code, before it is logged.
Kept(label) == label \in Holding

\* The state is judged first, then the code, right or not.
Judged(r) ==
    LET d == req[r].dev
    IN  IF ~ Visible(scope[r], d) THEN {"refused"}
        ELSE IF req[r].op = "claim"
        THEN IF rows[d].state = "PENDING" THEN {"user", "openReject"}
             ELSE {"refused"}
        ELSE CASE rows[d].state = "PENDING" -> {"commit"}
               [] rows[d].state = "CLAIMED" -> {"remote"}
               [] rows[d].state = "REVOKED" -> {"refused"}

\* SELECT ... FOR UPDATE waits for the row, if it sees one.
Lock(r) ==
    /\ pc[r] = "lock"
    /\ Visible(scope[r], req[r].dev) => lock[req[r].dev] = None
    /\ \E label \in Judged(r) :
          /\ Goto(r, label)
          /\ IF Kept(label)
             THEN lock' = [lock EXCEPT ![req[r].dev] = r] /\ UNCHANGED scope
             ELSE Release(r)
    /\ UNCHANGED <<rows, headscale, req, calm, faults>>

\* _reject: the audit event, in a transaction of its own.
LogRejection(r) ==
    /\ pc[r] = "log"
    /\ Goto(r, "refused") /\ Release(r)
    /\ UNCHANGED <<rows, headscale, req, calm, faults>>

RemoteFails(r) == Fault("headscale") /\ Blame(r, "headscale") /\ Fail(r)

\* ensure_user: look, create, and look again when the creation fails, for
\* another claim may have been faster.
LookForUser(r) ==
    /\ pc[r] \in {"user", "again"}
    /\ LET u == UserOf[req[r].tenant]
       IN  \/ /\ u \in users /\ Goto(r, "remote")
              /\ Keep /\ UNCHANGED <<req, faults>>
           \/ /\ u \notin users /\ pc[r] = "user" /\ Goto(r, "create")
              /\ Keep /\ UNCHANGED <<req, faults>>
           \/ /\ u \notin users /\ pc[r] = "again" /\ Fail(r)
              /\ UNCHANGED <<req, faults>>
           \/ RemoteFails(r)
    /\ UNCHANGED <<rows, headscale, calm>>

\* Any failure of the creation is final.
CreateOnce(r) ==
    /\ pc[r] = "create"
    /\ LET u == UserOf[req[r].tenant]
       IN  \/ /\ u \notin users /\ users' = users \cup {u}
              /\ Goto(r, "remote") /\ Keep /\ UNCHANGED <<req, faults>>
           \/ /\ u \in users /\ Fail(r) /\ UNCHANGED <<users, req, faults>>
    /\ UNCHANGED <<rows, nodes, joins, calm>>

\* Headscale has one user of a name; the call may take effect and its answer
\* be lost.
CreateUser(r) ==
    /\ pc[r] = "create"
    /\ LET u == UserOf[req[r].tenant]
       IN  \/ /\ u \notin users /\ users' = users \cup {u}
              /\ Goto(r, "remote") /\ UNCHANGED <<req, faults>>
           \/ /\ u \in users /\ Goto(r, "again")
              /\ UNCHANGED <<users, req, faults>>
           \/ /\ Fault("headscale") /\ Blame(r, "headscale")
              /\ Goto(r, "again") /\ UNCHANGED users
           \/ /\ Fault("lostAck") /\ Blame(r, "headscale")
              /\ Goto(r, "again") /\ users' = users \cup {u}
    /\ Keep /\ UNCHANGED <<rows, nodes, joins, calm>>

\* The rest of the remote calls, all under the lock: twin and key of a claim;
\* a revocation removes the node, and may fail after it did.
RemoteCalls(r) ==
    /\ pc[r] = "remote"
    /\ \/ Goto(r, "commit") /\ Keep /\ UNCHANGED <<req, faults>>
       \/ RemoteFails(r)
    /\ IF req[r].op = "revoke" /\ nodes[req[r].dev] # 0
       THEN \/ /\ nodes' = [nodes EXCEPT ![req[r].dev] = 0] /\ calm' = {}
            \/ pc'[r] = "failed" /\ UNCHANGED <<nodes, calm>>
       ELSE UNCHANGED <<nodes, calm>>
    /\ UNCHANGED <<rows, users, joins>>

Commit(r) ==
    /\ pc[r] = "commit"
    /\ rows' = [rows EXCEPT ![req[r].dev].state =
                    IF req[r].op = "claim" THEN "CLAIMED" ELSE "REVOKED"]
    /\ Goto(r, "ok") /\ Release(r)
    /\ UNCHANGED <<headscale, req, calm, faults>>

-----------------------------------------------------------------------------
(* What goes wrong, and what happens outside. *)

\* PostgreSQL refuses a connection, a statement or the COMMIT.
StatementFails(r) ==
    /\ pc[r] \in Waiting \cup Inside
    /\ Fault("db") /\ Blame(r, "db") /\ Fail(r)
    /\ UNCHANGED <<rows, headscale, calm>>

\* A device uses its key.
Join(d) ==
    /\ rows[d].state = "CLAIMED" /\ nodes[d] = 0 /\ joins < MaxJoins
    /\ joins' = joins + 1
    /\ nodes' = [nodes EXCEPT ![d] = joins + 1]
    /\ calm' = {}
    /\ UNCHANGED <<rows, lock, users, scope, pc, req, faults>>

\* Its node is removed in Headscale.
Leave(d) ==
    /\ nodes[d] # 0
    /\ nodes' = [nodes EXCEPT ![d] = 0]
    /\ calm' = {}
    /\ UNCHANGED <<rows, lock, users, joins, scope, pc, req, faults>>

Step(r) ==
    \/ Begin(r) \/ Open(r)
    \/ ReadRows(r) \/ ReadEvents(r)
    \/ Ask(r) \/ Persist(r) \/ Save(r) \/ Answer(r)
    \/ Lock(r) \/ LogRejection(r)
    \/ LookForUser(r) \/ CreateUser(r) \/ RemoteCalls(r) \/ Commit(r)

Next ==
    \/ \E r \in Requests : Step(r) \/ StatementFails(r)
    \/ \E d \in Devices : Join(d) \/ Leave(d)

Spec == Init /\ [][Next]_vars

\* asyncpg serves the waiting in order, PostgreSQL gives a row to somebody
\* who waits, httpx gives up after ten seconds: no request stands for ever
\* where it can go on.
FairSpec == Spec /\ \A r \in Requests : WF_vars(Step(r))

-----------------------------------------------------------------------------
(* Properties. *)

\* Who waits for a connection has none and has no row locked: the pool cannot
\* fill up with requests that wait for it (Database._scoped_tx; _reject and
\* reconcile_node open a second transaction in the same request).
HoldAndWaitFree ==
    \A r \in Requests :
        pc[r] \in Waiting =>
            scope[r] = None /\ \A d \in Devices : lock[d] # r

AtWork(r) == pc[r] \notin {"idle"} \cup Ended

\* All connections are taken, or the row is: somebody else has to go first.
WaitsForConnection(r) ==
    /\ pc[r] \in Waiting
    /\ Cardinality({q \in Requests : scope[q] # None}) >= PoolSize
WaitsForRow(r) ==
    /\ pc[r] \in {"lock", "save"} /\ Visible(scope[r], req[r].dev)
    /\ lock[req[r].dev] # None

\* Who waits for a connection may wait for somebody who waits for a row, and
\* that one for a third one, who waits for nobody: as long as a request is at
\* work, some request can go on, with a pool of any size (get_for_update,
\* set_node and the pool of Database.connect).
NeverStuck ==
    (\E r \in Requests : AtWork(r)) =>
        \E r \in Requests :
            AtWork(r) /\ ~ WaitsForConnection(r) /\ ~ WaitsForRow(r)

\* A request reads and locks the rows of its caller's organisation only, and
\* only for an administrator; the exceptions are a PlatformAdmin's list and the
\* lookup of other services (middleware, migrations/001_devices.sql).
OwnRows ==
    \A r \in Requests, d \in Devices :
        req[r].rows[d] # NoRow \/ lock[d] = r =>
            \/ TenantOf[d] = req[r].tenant /\ req[r].role # "none"
            \/ req[r].op = "listAll" /\ req[r].role = "PlatformAdmin"
            \/ req[r].op = "lookup" /\ req[r].role = "service"

\* Every failure has a cause: what only reads survives Headscale's failures
\* ("the registry stays readable", claim_flow.py), the loser of a race for the
\* Headscale user goes on, and a write finds its row whoever asked for it.
FailuresExplained ==
    \A r \in Requests :
        pc[r] = "failed" =>
            IF req[r].op \in {"claim", "revoke"} THEN req[r].blame # {}
            ELSE req[r].blame \cap {"db", "scope"} # {}

\* A node that is shown is there, "no node" that is not called unknown means
\* no node, and the row has the node afterwards: unless nodes came or went, or
\* an older read wrote the row, since the request began (list_devices,
\* get_device, reconcile_node).
ReadTells ==
    \A r \in calm, d \in Devices :
        /\ pc[r] = "ok" /\ req[r].op \in {"list", "listAll", "get"}
        /\ req[r].rows[d].state = "CLAIMED"
        /\ req[r].asked[User(d)] # "failed"
        => /\ req[r].listing[d] = nodes[d]
           /\ nodes[d] # 0 => rows[d].node = nodes[d]

\* Every request is answered, however small the pool (max_size of
\* Database.connect).
RequestsAnswered ==
    \A r \in Requests : (pc[r] # "idle") ~> (pc[r] \in Ended)
=============================================================================
