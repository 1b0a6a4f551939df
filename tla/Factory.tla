------------------------------ MODULE Factory ------------------------------
(***************************************************************************)
(* What happens to a device before a tenant sees it: register_device hands *)
(* out its claim code, sign_csr has its certificate signed by cert-manager *)
(* (api/factory.py, services/pki.py), and flash_tool.py keeps key,         *)
(* certificate and code in one directory per device.                      *)
(*                                                                         *)
(* A run is one use of the factory: of the tool, which registers, signs    *)
(* and writes, or of the web panel, which only registers.  A client that   *)
(* gives up does not stop the handler it was waiting for, so the handlers  *)
(* of an earlier run may still be at work during a later one.              *)
(*                                                                         *)
(* A claim code is HMAC(secret of a version, uuid): here its version.  Key *)
(* pair, CSR and certificate of a run are the run itself.                  *)
(***************************************************************************)
EXTENDS Naturals, FiniteSets

CONSTANTS
    Runs,           \* uses of the factory
    Devices,
    Prefix,         \* the first 12 characters of a uuid: they name a request
    Orders,         \* [tenant, type] a unit can be ordered for
    Versions,       \* factory_secret_current_version of some process
    None,
    SignPolls,      \* polls of a CertificateRequest before sign_csr gives up
    FaultKinds,     \* db, lostCommit, api, network, denied, crash, client
    MaxFaults       \* bound on the failures of one behaviour

ASSUME FactoryAssumption ==
    /\ None \notin Runs \cup Versions
    /\ Prefix \in [Devices -> STRING]
    /\ Versions \subseteq Nat \ {0}
    /\ SignPolls \in Nat
    /\ MaxFaults \in Nat

VARIABLES
    row,            \* devices: order, state, claim_version, cert_fingerprint
    inserting,      \* the run with an uncommitted INSERT of the device
    registered,     \* REGISTERED events of a device
    requests,       \* CertificateRequest of a run: none, pending, signed, denied
    fresh,          \* the runs whose request has the current second in its name
    pc, client,     \* the handler or the tool, and whoever waits for it
    job,            \* what a run was asked and has learnt
    disk,           \* --out-dir of a device
    spent           \* the failures so far, each kind once

vars == <<row, inserting, registered, requests, fresh, pc, client, job, disk,
          spent>>
database == <<row, inserting, registered>>
cluster == <<requests, fresh>>

Row == [order : Orders, state : {"PENDING", "CLAIMED", "REVOKED"},
        version : Versions, cert : Runs \cup {None}]
NoRow == [state |-> "NONE"]

Handling == {"read", "insert", "log", "check", "create", "poll", "cleanup",
             "save"}
Writing == {"writeKey", "writeCert"}

\* name: the run whose request bears the name this run uses.
Job == [tool : BOOLEAN, dev : Devices, order : Orders, version : Versions,
        code : Versions \cup {None}, name : Runs \cup {None},
        polls : 0 .. SignPolls, signed : BOOLEAN]
NoJob == [tool |-> FALSE, dev |-> None, code |-> None]
Disk == [code : Versions \cup {None}, key : Runs \cup {None},
         cert : Runs \cup {None}]

TypeOK ==
    /\ row \in [Devices -> Row \cup {NoRow}]
    /\ inserting \in [Devices -> Runs \cup {None}]
    /\ registered \in [Devices -> Nat]
    /\ requests \in [Runs -> {"none", "pending", "signed", "denied"}]
    /\ fresh \subseteq Runs
    /\ pc \in [Runs -> Handling \cup Writing \cup {"rest"}]
    /\ client \in [Runs -> {"none", "open", "done", "failed"}]
    /\ job \in [Runs -> Job \cup {NoJob}]
    /\ disk \in [Devices -> Disk]
    /\ spent \subseteq FaultKinds

Init ==
    /\ row = [d \in Devices |-> NoRow]
    /\ inserting = [d \in Devices |-> None]
    /\ registered = [d \in Devices |-> 0]
    /\ requests = [r \in Runs |-> "none"]
    /\ fresh = {}
    /\ pc = [r \in Runs |-> "rest"]
    /\ client = [r \in Runs |-> "none"]
    /\ job = [r \in Runs |-> NoJob]
    /\ disk = [d \in Devices |-> [code |-> None, key |-> None, cert |-> None]]
    /\ spent = {}

-----------------------------------------------------------------------------
Dev(r) == job[r].dev

Fault(kind) ==
    /\ kind \in FaultKinds \ spent
    /\ Cardinality(spent) < MaxFaults
    /\ spent' = spent \cup {kind}

Goto(r, label) == pc' = [pc EXCEPT ![r] = label]

\* The run goes on at `label`, whoever waits for it.
Onward(r, label) == Goto(r, label) /\ UNCHANGED <<client, disk>>

\* The answer is an error, and the tool exits with it.
Refuse(r) ==
    /\ Goto(r, "rest")
    /\ client' = [client EXCEPT ![r] = IF @ = "open" THEN "failed" ELSE @]
    /\ UNCHANGED disk

\* As HandOut, with the new key pair on the disk before it is certified.
HandOutKeyFirst(r, version) ==
    /\ job' = [job EXCEPT ![r].code = version]
    /\ IF client[r] = "open" /\ job[r].tool
       THEN /\ Goto(r, "check")
            /\ disk' = [disk EXCEPT ![Dev(r)].code = version, ![Dev(r)].key = r]
            /\ UNCHANGED client
       ELSE /\ Goto(r, "rest")
            /\ client' = [client EXCEPT ![r] = IF @ = "open" THEN "done" ELSE @]
            /\ UNCHANGED disk

\* A claim code is the answer.  The tool writes claim_code.txt, generates a
\* key pair and asks for the certificate; the panel is done.
HandOut(r, version) ==
    /\ job' = [job EXCEPT ![r].code = IF client[r] = "open" THEN version ELSE @]
    /\ IF client[r] = "open" /\ job[r].tool
       THEN /\ Goto(r, "check")
            /\ disk' = [disk EXCEPT ![Dev(r)].code = version]
            /\ UNCHANGED client
       ELSE /\ Goto(r, "rest")
            /\ client' = [client EXCEPT ![r] = IF @ = "open" THEN "done" ELSE @]
            /\ UNCHANGED disk

\* The tool runs once at a time on its station; the panel is used whenever.
Begin(r, tool, d, order, version) ==
    /\ client[r] = "none"
    /\ tool => \A q \in Runs : job[q].tool => client[q] # "open"
    /\ client' = [client EXCEPT ![r] = "open"]
    /\ job' = [job EXCEPT ![r] =
                 [tool |-> tool, dev |-> d, order |-> order, version |-> version,
                  code |-> None, name |-> None, polls |-> 0, signed |-> FALSE]]
    /\ Goto(r, "read")
    /\ UNCHANGED <<database, cluster, disk, spent>>

\* The code of the current version, as for a new device.
CodeCurrent(r, version) == HandOut(r, job[r].version)

\* A device registered before keeps its code, whatever version is current.
CodeAgain(r, version) ==
    IF version <= job[r].version THEN HandOut(r, version)
    ELSE Refuse(r) /\ UNCHANGED job     \* a process that has no such secret

\* register_device looks for the device.
Read(r) ==
    /\ pc[r] = "read"
    /\ LET found == row[Dev(r)] IN
       \/ found = NoRow /\ Onward(r, "insert") /\ UNCHANGED <<job, spent>>
       \/ /\ found # NoRow
          /\ found.state = "PENDING" /\ found.order = job[r].order
          /\ CodeAgain(r, found.version) /\ UNCHANGED spent
       \/ /\ found # NoRow
          /\ found.state # "PENDING" \/ found.order # job[r].order
          /\ Refuse(r) /\ UNCHANGED <<job, spent>>
       \/ Fault("db") /\ Refuse(r) /\ UNCHANGED job
    /\ UNCHANGED <<database, cluster>>

\* INSERT without a primary key to wait for.
UniqueNever(r) == TRUE

\* The primary key makes the second INSERT wait for the end of the first.
Unique(r) == inserting[Dev(r)] = None

Insert(r) ==
    /\ pc[r] = "insert"
    /\ Unique(r)
    /\ \/ /\ row[Dev(r)] = NoRow
          /\ inserting' = [inserting EXCEPT ![Dev(r)] = r]
          /\ Onward(r, "log") /\ UNCHANGED spent
       \/ /\ row[Dev(r)] # NoRow           \* DeviceExists
          /\ Refuse(r) /\ UNCHANGED <<inserting, spent>>
       \/ Fault("db") /\ Refuse(r) /\ UNCHANGED inserting
    /\ UNCHANGED <<row, registered, cluster, job>>

\* Row and event are one transaction.
Committed(r) ==
    /\ row' = [row EXCEPT ![Dev(r)] =
                 [order |-> job[r].order, state |-> "PENDING",
                  version |-> job[r].version, cert |-> None]]
    /\ registered' = [registered EXCEPT ![Dev(r)] = @ + 1]

Log(r) ==
    /\ pc[r] = "log"
    /\ inserting' = [inserting EXCEPT ![Dev(r)] = None]
    /\ \/ Committed(r) /\ HandOut(r, job[r].version) /\ UNCHANGED spent
       \/ Committed(r) /\ Fault("lostCommit") /\ Refuse(r) /\ UNCHANGED job
       \/ UNCHANGED <<row, registered, job>> /\ Fault("db") /\ Refuse(r)
    /\ UNCHANGED cluster

-----------------------------------------------------------------------------
\* sign_csr reads the row in a transaction of its own, then judges the CSR:
\* it must name the device and its type.
Check(r) ==
    /\ pc[r] = "check"
    /\ LET found == row[Dev(r)] IN
       \/ /\ found # NoRow /\ found.state # "REVOKED"
          /\ found.order.type = job[r].order.type
          /\ Onward(r, "create") /\ UNCHANGED spent
       \/ /\ \/ found.state \in {"NONE", "REVOKED"}
             \/ found.order.type # job[r].order.type
          /\ Refuse(r) /\ UNCHANGED spent
       \/ Fault("db") /\ Refuse(r)
    /\ UNCHANGED <<database, cluster, job>>

\* The requests that bear the name r is about to use: same prefix, same second.
Clash(r) ==
    {q \in fresh : requests[q] # "none" /\ Prefix[Dev(q)] = Prefix[Dev(r)]}

\* The create is part of the try, and the request is cleaned up whoever made it.
TakenCleansUp(r) ==
    /\ \E q \in Clash(r) : job' = [job EXCEPT ![r].name = q]
    /\ Onward(r, "cleanup")

\* HTTP 409 from the API server: not ours, nothing to clean up.
Taken(r) == Refuse(r) /\ UNCHANGED job

Created(r) ==
    /\ requests' = [requests EXCEPT ![r] = "pending"]
    /\ fresh' = fresh \cup {r}

\* An answer of the API server is a PkiError; no answer at all is not caught.
Create(r) ==
    /\ pc[r] = "create"
    /\ \/ /\ Clash(r) = {} /\ Created(r)
          /\ job' = [job EXCEPT ![r].name = r, ![r].polls = SignPolls]
          /\ Onward(r, "poll") /\ UNCHANGED spent
       \/ Clash(r) # {} /\ Taken(r) /\ UNCHANGED <<cluster, spent>>
       \/ Fault("api") /\ Refuse(r) /\ UNCHANGED <<cluster, job>>
       \/ /\ Clash(r) = {} /\ Created(r)
          /\ Fault("network") /\ Refuse(r) /\ UNCHANGED job
    /\ UNCHANGED database

\* A refused or late request is left to cert-manager.
CleanUpSigned(r, signed) ==
    /\ job' = [job EXCEPT ![r].signed = signed]
    /\ IF signed THEN Onward(r, "cleanup") ELSE Refuse(r)

\* finally: the request is deleted however the polling ended.
CleanUp(r, signed) ==
    /\ job' = [job EXCEPT ![r].signed = signed]
    /\ Onward(r, "cleanup")

\* The deadline moves with the loop.
LeftForever(r) == job[r].polls

Left(r) == job[r].polls - 1

\* Once per second: look at the request until it is decided or time is up.
Poll(r) ==
    /\ pc[r] = "poll" /\ r \notin fresh
    /\ LET status == requests[job[r].name] IN
       \/ status = "signed" /\ CleanUp(r, TRUE) /\ UNCHANGED spent
       \/ /\ status = "denied" \/ (status = "pending" /\ job[r].polls = 0)
          /\ CleanUp(r, FALSE) /\ UNCHANGED spent
       \/ /\ (status = "pending" /\ UNCHANGED spent) \/ Fault("api")
          /\ job[r].polls > 0
          /\ job' = [job EXCEPT ![r].polls = Left(r)]
          /\ Onward(r, "poll")
       \/ Fault("network") /\ CleanUp(r, FALSE)
    /\ UNCHANGED <<database, cluster>>

\* A failing delete is logged when the API server answers; else it replaces
\* the outcome of the signing.
Cleanup(r) ==
    /\ pc[r] = "cleanup"
    /\ LET gone == requests' = [requests EXCEPT ![job[r].name] = "none"]
           done == IF job[r].signed THEN Onward(r, "save") ELSE Refuse(r) IN
       /\ job' = [job EXCEPT ![r].name = None, ![r].polls = 0,
                             ![r].signed = FALSE]
       /\ \/ gone /\ done /\ UNCHANGED spent
          \/ Fault("api") /\ done /\ UNCHANGED requests
          \/ Fault("network") /\ Refuse(r) /\ UNCHANGED requests
    /\ UNCHANGED <<database, fresh>>

\* The fingerprint of a device that is in use is left alone.
RecordPending(r) ==
    row' = [row EXCEPT ![Dev(r)] = IF @.state = "PENDING"
                                   THEN [@ EXCEPT !.cert = r] ELSE @]

\* As if the whole row were written, as it was when the device was registered.
RecordAnew(r) ==
    row' = [row EXCEPT ![Dev(r)].cert = r, ![Dev(r)].state = "PENDING"]

\* set_cert_fingerprint has no condition on the state.
Record(r) == row' = [row EXCEPT ![Dev(r)].cert = r]

\* Fingerprint and CERT_SIGNED event, then the certificate is the answer.
Save(r) ==
    /\ pc[r] = "save"
    /\ \/ /\ Record(r)
          /\ Onward(r, IF client[r] = "open" THEN "writeKey" ELSE "rest")
          /\ UNCHANGED spent
       \/ Record(r) /\ Fault("lostCommit") /\ Refuse(r)
       \/ UNCHANGED row /\ Fault("db") /\ Refuse(r)
    /\ UNCHANGED <<inserting, registered, cluster, job>>

\* device.key, then device.crt with the files that belong to it.
WriteKey(r) ==
    /\ pc[r] = "writeKey"
    /\ disk' = [disk EXCEPT ![Dev(r)].key = r]
    /\ Goto(r, "writeCert")
    /\ UNCHANGED <<database, cluster, job, client, spent>>

WriteCert(r) ==
    /\ pc[r] = "writeCert"
    /\ disk' = [disk EXCEPT ![Dev(r)].cert = r]
    /\ client' = [client EXCEPT ![r] = "done"]
    /\ Goto(r, "rest")
    /\ UNCHANGED <<database, cluster, job, spent>>

-----------------------------------------------------------------------------
\* The client goes away: killed, or no answer for 60 s.  Its handler goes on.
GiveUp(r) ==
    /\ client[r] = "open"
    /\ Fault("client")
    /\ client' = [client EXCEPT ![r] = "failed"]
    /\ Goto(r, IF pc[r] \in Writing THEN "rest" ELSE pc[r])
    /\ UNCHANGED <<database, cluster, job, disk>>

\* The backend dies: open transactions roll back, no finally runs.
Crash ==
    /\ Fault("crash")
    /\ inserting' = [d \in Devices |-> None]
    /\ LET hit == {r \in Runs : pc[r] \in Handling} IN
       /\ pc' = [r \in Runs |-> IF r \in hit THEN "rest" ELSE pc[r]]
       /\ client' = [r \in Runs |-> IF r \in hit /\ client[r] = "open"
                                    THEN "failed" ELSE client[r]]
    /\ UNCHANGED <<row, registered, cluster, job, disk>>

\* cert-manager decides a request.
Decide(r) ==
    /\ requests[r] = "pending"
    /\ \/ requests' = [requests EXCEPT ![r] = "signed"] /\ UNCHANGED spent
       \/ requests' = [requests EXCEPT ![r] = "denied"] /\ Fault("denied")
    /\ UNCHANGED <<database, fresh, pc, client, job, disk>>

\* A second passes, and the names of the next requests are new.
Tick ==
    /\ fresh # {}
    /\ fresh' = {}
    /\ UNCHANGED <<database, requests, pc, client, job, disk, spent>>

\* The tenant claims the device, or revokes it (module Provisioning).
Transition(d) ==
    /\ row[d] # NoRow
    /\ \/ row[d].state = "PENDING" /\ row' = [row EXCEPT ![d].state = "CLAIMED"]
       \/ row[d].state # "REVOKED" /\ row' = [row EXCEPT ![d].state = "REVOKED"]
    /\ UNCHANGED <<inserting, registered, cluster, pc, client, job, disk, spent>>

Step(r) ==
    \/ Read(r) \/ Insert(r) \/ Log(r)
    \/ Check(r) \/ Create(r) \/ Poll(r) \/ Cleanup(r) \/ Save(r)
    \/ WriteKey(r) \/ WriteCert(r)

Next ==
    \/ \E r \in Runs, tool \in BOOLEAN,
         d \in Devices, order \in Orders, version \in Versions :
            Begin(r, tool, d, order, version)
    \/ \E r \in Runs : Step(r) \/ GiveUp(r) \/ Decide(r)
    \/ \E d \in Devices : Transition(d)
    \/ Tick
    \/ Crash

Spec == Init /\ [][Next]_vars

\* Handlers and threads are scheduled, and seconds pass.
FairSpec == Spec /\ WF_vars(Tick) /\ \A r \in Runs : WF_vars(Step(r))

-----------------------------------------------------------------------------
(* Properties. *)

\* claim_code.py: "devices keep the version they were registered with".  Every
\* code that reached a client, from whichever process and in whatever order,
\* is the code of the committed row, and went to the order of that row.
CodeStands ==
    \A r \in Runs : job[r].code # None =>
        /\ row[Dev(r)] # NoRow
        /\ job[r].code = row[Dev(r)].version
        /\ job[r].order = row[Dev(r)].order

\* One REGISTERED event per row, however many registrations overlap.
RegisteredOnce ==
    \A d \in Devices : registered[d] = IF row[d] = NoRow THEN 0 ELSE 1

\* A signing polls and deletes its own request, never that of another run
\* that used the same name in the same second.
OwnRequest ==
    \A r \in Runs : pc[r] \in {"poll", "cleanup"} =>
        job[r].name = r /\ requests[r] # "none"

\* A handler that ended leaves no CertificateRequest behind unless Kubernetes
\* failed it or the process died.
RequestsCleaned ==
    \A r \in Runs : requests[r] # "none" /\ pc[r] = "rest"
        => spent \cap {"api", "network", "crash"} # {}

\* Key and certificate in the directory belong together, unless the tool was
\* stopped between the two files: a failed signing never touches the pair.
BundleMatches ==
    \A d \in Devices :
        \/ disk[d].key = disk[d].cert
        \/ pc[disk[d].key] = "writeCert"
        \/ "client" \in spent /\ client[disk[d].key] = "failed"

\* The registry has the fingerprint of the certificate that is in the
\* directory, or of one whose client went away or is still at it.
FingerprintKnown ==
    \A d \in Devices : row[d] # NoRow =>
        \/ row[d].cert = disk[d].cert
        \/ row[d].cert # None /\ client[row[d].cert] # "done"

-----------------------------------------------------------------------------
(* The inductive invariant behind the safety properties. *)

Signing == {"check", "create", "poll", "cleanup", "save"} \cup Writing

\* A handler at work has somebody who waits for it, or who gave up; what comes
\* after the registration is the tool's, for a device that is registered.
RunsWaitedFor ==
    \A r \in Runs :
        /\ client[r] # "none" => job[r] \in Job
        /\ pc[r] # "rest" => client[r] \in {"open", "failed"}
        /\ pc[r] \in Signing => job[r].tool /\ row[Dev(r)] # NoRow
        /\ pc[r] \in Writing => client[r] = "open"

OneTool ==
    \A q, r \in Runs :
        /\ job[q].tool /\ client[q] = "open"
        /\ job[r].tool /\ client[r] = "open"
        => q = r

\* The primary key: who is about to commit a row is alone with it.
InsertAlone ==
    \A r \in Runs :
        pc[r] = "log" => inserting[Dev(r)] = r /\ row[Dev(r)] = NoRow

\* A request that is still there, of a run that does not look after it.
RequestsLeft ==
    \A r \in Runs :
        requests[r] # "none" /\ pc[r] \notin {"poll", "cleanup"}
        => spent \cap {"api", "network", "crash"} # {}

\* Where the fingerprint of a row is from, and the key in a directory, and what
\* the tool at work has written of them.
CertOfDevice ==
    /\ \A d \in Devices :
          /\ row[d] = NoRow \/ disk[d].key = None => disk[d].cert = None
          /\ disk[d].key # None =>
                Dev(disk[d].key) = d /\ client[disk[d].key] # "none"
          /\ row[d] # NoRow /\ row[d].cert # None =>
                /\ Dev(row[d].cert) = d /\ client[row[d].cert] # "none"
                /\ pc[row[d].cert] \in Writing \cup {"rest"}
    /\ \A r \in Runs :
          /\ pc[r] \in Writing =>
                /\ row[Dev(r)].cert # None
                /\ row[Dev(r)].cert = r \/ client[row[Dev(r)].cert] = "failed"
          /\ pc[r] = "writeCert" => disk[Dev(r)].key = r

FactoryInv ==
    /\ TypeOK
    /\ RunsWaitedFor
    /\ OneTool
    /\ InsertAlone
    /\ CodeStands
    /\ RegisteredOnce
    /\ OwnRequest
    /\ RequestsLeft
    /\ CertOfDevice
    /\ BundleMatches
    /\ FingerprintKnown

-----------------------------------------------------------------------------
(* The promise of Registration, read off the database, the clients and disks. *)

Entry == [d \in Devices |->
            IF row[d] = NoRow THEN [order |-> None, version |-> None]
            ELSE [order |-> row[d].order, version |-> row[d].version]]
Stage == [d \in Devices |-> row[d].state]
Certificate == [d \in Devices |-> IF row[d] = NoRow THEN None ELSE row[d].cert]
Label == [d \in Devices |-> disk[d].code]

\* The code a client was told, for the order it named.
Told ==
    {[dev |-> Dev(r),
      entry |-> [order |-> job[r].order, version |-> job[r].code]] :
        r \in {q \in Runs : job[q].code # None}}

Reg == INSTANCE Registration WITH
         Certificates <- Runs,
         entry <- Entry, stage <- Stage, certificate <- Certificate,
         told <- Told, label <- Label

\* Whatever overlaps, fails or is repeated, the factory does to a device what
\* Registration does: it registers it once and for good, hands out the code of
\* that registration alone, and leaves alone what the tenant does meanwhile.
RegistrationHolds == Reg!Spec

-----------------------------------------------------------------------------
\* Every handler answers: registrations do not wait for each other for ever,
\* and a signing ends even if cert-manager never decides.
FactoryAnswers == \A r \in Runs : client[r] = "open" ~> client[r] # "open"
=============================================================================
