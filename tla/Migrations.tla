----------------------------- MODULE Migrations -----------------------------
(***************************************************************************)
(* How a pod gets to serve.  Its initContainer runs run_migrations         *)
(* (db/migrate.py): numbered SQL files applied in name order under an      *)
(* advisory lock, each in a transaction with its line in                   *)
(* schema_migrations.  Then the API starts: validate_required (config.py)  *)
(* and build_services (main.py).  Pods of two images do so side by side    *)
(* during a rollout; the files of an image are the first ones of a newer   *)
(* image.                                                                  *)
(***************************************************************************)
EXTENDS Naturals, Sequences, FiniteSets

CONSTANTS
    Pods,
    Image,          \* how many files the image of a pod holds
    Env,            \* the settings that have a value in a pod's environment
    Unsigned,       \* pods with REQUIRE_HMAC_SIGNATURE=false
    None, Dead,     \* no session; a session whose client is gone
    FaultKinds,     \* sql, connection, lostCommit, crash
    MaxFaults       \* bound on the failures of one behaviour

ASSUME MigrationsAssumption ==
    /\ Image \in [Pods -> Nat] /\ Unsigned \subseteq Pods
    /\ None \notin Pods /\ Dead \notin Pods /\ None # Dead
    /\ MaxFaults \in Nat

VARIABLES
    applied,        \* schema_migrations
    executed,       \* the files whose effects were committed, in that order
    lock,           \* the session with the advisory lock
    pc,
    done,           \* the versions a run has read
    file,           \* the file of its open transaction, or its last one
    faults

vars == <<applied, executed, lock, pc, done, file, faults>>
schema == <<applied, executed>>

Files == UNION {1 .. Image[p] : p \in Pods}

\* validate_required.
Required(p) ==
    {"POSTGRES_URL", "HEADSCALE_API_URL", "HEADSCALE_API_KEY",
     "HEADSCALE_PUBLIC_URL", "FACTORY_SECRET_V1", "REDIS_URL",
     "INTERNAL_SERVICE_SECRET"}
    \cup IF p \in Unsigned THEN {} ELSE {"HMAC_SECRET"}

Configured(p) == Required(p) \subseteq Env[p]

TypeOK ==
    /\ applied \subseteq Files
    /\ executed \in Seq(Files)
    /\ lock \in Pods \cup {None, Dead}
    /\ pc \in [Pods -> {"start", "lock", "read", "next", "commit", "unlock",
                        "failed", "starting", "exited", "serving"}]
    /\ done \in [Pods -> SUBSET Files]
    /\ file \in [Pods -> Files \cup {0}]
    /\ faults \in Nat

Init ==
    /\ applied = {}
    /\ executed = <<>>
    /\ lock = None
    /\ pc = [p \in Pods |-> "start"]
    /\ done = [p \in Pods |-> {}]
    /\ file = [p \in Pods |-> 0]
    /\ faults = 0

-----------------------------------------------------------------------------
Goto(p, label) == pc' = [pc EXCEPT ![p] = label]

Fault(kind) == kind \in FaultKinds /\ faults < MaxFaults /\ faults' = faults + 1

\* Only a run that succeeds gives the lock back.
ReleasedNever(p) == UNCHANGED lock

\* The advisory lock goes with the session that holds it.
Released(p) == lock' = IF lock = p THEN None ELSE lock

\* main reports the exception and exits with 0.
FailQuietly(p) ==
    /\ Goto(p, "starting")
    /\ Released(p)
    /\ done' = [done EXCEPT ![p] = {}]
    /\ file' = [file EXCEPT ![p] = 0]

\* An exception: the open transaction rolls back, both finally clauses run, and
\* the initContainer exits with 1.
Fail(p) ==
    /\ Goto(p, "failed")
    /\ Released(p)
    /\ done' = [done EXCEPT ![p] = {}]
    /\ file' = [file EXCEPT ![p] = 0]

Connect(p) ==
    /\ pc[p] = "start"
    /\ IF "POSTGRES_URL" \in Env[p]
       THEN \/ Goto(p, "lock") /\ UNCHANGED <<lock, done, file, faults>>
            \/ Fault("connection") /\ Fail(p)
       ELSE Fail(p) /\ UNCHANGED faults
    /\ UNCHANGED schema

\* Nobody waits for anybody.
UnlockedAlways == TRUE

Unlocked == lock = None

\* pg_advisory_lock waits.
Lock(p) ==
    /\ pc[p] = "lock"
    /\ \/ /\ Unlocked
          /\ lock' = p
          /\ Goto(p, "read") /\ UNCHANGED <<done, file, faults>>
       \/ Fault("connection") /\ Fail(p)
    /\ UNCHANGED schema

\* CREATE TABLE IF NOT EXISTS, then the versions that are there.
Read(p) ==
    /\ pc[p] = "read"
    /\ \/ /\ done' = [done EXCEPT ![p] = applied]
          /\ Goto(p, "next") /\ UNCHANGED <<lock, file, faults>>
       \/ Fault("connection") /\ Fail(p)
    /\ UNCHANGED schema

\* The files of the image that come after the last one and are not applied.
Missing(p) == {f \in 1 .. Image[p] : f > file[p] /\ f \notin done[p]}

\* BEGIN, and the statements of the next file.
Execute(p) ==
    /\ pc[p] = "next" /\ Missing(p) # {}
    /\ \/ /\ \E f \in Missing(p) :
                /\ \A g \in Missing(p) : f <= g
                /\ file' = [file EXCEPT ![p] = f]
          /\ Goto(p, "commit") /\ UNCHANGED <<lock, done, faults>>
       \/ Fault("sql") /\ Fail(p)
    /\ UNCHANGED schema

\* The file in a transaction of its own, its version in another.
CommittedApart(p) ==
    /\ executed' = Append(executed, file[p])
    /\ \/ applied' = applied \cup {file[p]}
       \/ UNCHANGED applied

Committed(p) ==
    /\ executed' = Append(executed, file[p])
    /\ applied' = applied \cup {file[p]}

\* INSERT of the version, a primary key, and COMMIT.
Commit(p) ==
    /\ pc[p] = "commit"
    /\ \/ IF file[p] \in applied THEN Fail(p) /\ UNCHANGED <<schema, faults>>
          ELSE /\ Committed(p)
               /\ Goto(p, "next") /\ UNCHANGED <<lock, done, file, faults>>
       \/ /\ file[p] \notin applied /\ Committed(p)
          /\ Fault("lostCommit") /\ Fail(p)
       \/ Fault("connection") /\ Fail(p) /\ UNCHANGED schema

NothingLeft(p) ==
    /\ pc[p] = "next" /\ Missing(p) = {}
    /\ Goto(p, "unlock")
    /\ UNCHANGED <<schema, lock, done, file, faults>>

\* The lock is given back, and the initContainer exits with 0.
Unlock(p) ==
    /\ pc[p] = "unlock"
    /\ \/ /\ Goto(p, "starting") /\ Released(p)
          /\ done' = [done EXCEPT ![p] = {}]
          /\ file' = [file EXCEPT ![p] = 0]
          /\ UNCHANGED faults
       \/ Fault("connection") /\ Fail(p)
    /\ UNCHANGED schema

\* The API goes on with what it has.
StartUnchecked(p) ==
    /\ pc[p] = "starting"
    /\ Goto(p, "serving")
    /\ UNCHANGED <<schema, lock, done, file, faults>>

\* The lifespan of the API: a missing value raises, and so does a pool that
\* cannot open its first connection.
Start(p) ==
    /\ pc[p] = "starting"
    /\ \/ Configured(p) /\ Goto(p, "serving") /\ UNCHANGED faults
       \/ Configured(p) /\ Fault("connection") /\ Goto(p, "exited")
       \/ ~ Configured(p) /\ Goto(p, "exited") /\ UNCHANGED faults
    /\ UNCHANGED <<schema, lock, done, file>>

\* The process of the API dies, and nothing else of the pod.
Exit(p) ==
    /\ pc[p] = "serving"
    /\ Fault("crash") /\ Goto(p, "exited")
    /\ UNCHANGED <<schema, lock, done, file>>

\* The pod dies without a word: PostgreSQL keeps its session until it notices.
Crash(p) ==
    /\ pc[p] # "failed"
    /\ Fault("crash")
    /\ Goto(p, "failed")
    /\ lock' = IF lock = p THEN Dead ELSE lock
    /\ done' = [done EXCEPT ![p] = {}]
    /\ file' = [file EXCEPT ![p] = 0]
    /\ UNCHANGED schema

Notice ==
    /\ lock = Dead
    /\ lock' = None
    /\ UNCHANGED <<schema, pc, done, file, faults>>

\* The kubelet starts again what has failed: the initContainer, or the API
\* alone.
Restart(p) ==
    /\ \/ pc[p] = "failed" /\ Goto(p, "start")
       \/ pc[p] = "exited" /\ Goto(p, "starting")
    /\ UNCHANGED <<schema, lock, done, file, faults>>

Step(p) ==
    \/ Connect(p) \/ Lock(p) \/ Read(p) \/ Execute(p) \/ Commit(p)
    \/ NothingLeft(p) \/ Unlock(p) \/ Start(p) \/ Restart(p)

Next == Notice \/ \E p \in Pods : Step(p) \/ Exit(p) \/ Crash(p)

Spec == Init /\ [][Next]_vars

\* Runs are scheduled, and PostgreSQL notices dead sessions.
FairSpec == Spec /\ WF_vars(Notice) /\ \A p \in Pods : WF_vars(Step(p))

-----------------------------------------------------------------------------
(* Properties. *)

\* migrate.py: "Idempotent and safe against concurrent runs": the effects of
\* the files are committed in name order, each once and together with its
\* version, whatever died and whoever else was running.
AppliedInOrder ==
    /\ executed = [i \in 1 .. Len(executed) |-> i]
    /\ applied = 1 .. Len(executed)

\* "Run before the API starts", "refuse to run half-configured": no API serves
\* without all files of its image and a value for each setting that
\* validate_required asks for.
ServedAfterMigrations ==
    \A p \in Pods :
        pc[p] = "serving" => 1 .. Image[p] \subseteq applied /\ Configured(p)

\* No run fails because of another one: only a failure of its own stops it, or
\* an environment without a database.
NoConflict ==
    \A p \in Pods :
        pc[p] = "failed" => faults > 0 \/ "POSTGRES_URL" \notin Env[p]

\* Every pod with a complete environment serves in the end, whatever died with
\* the lock in its hands, and though others start in vain for ever.
EveryPodServes ==
    \A p \in Pods : Configured(p) => []<>(pc[p] = "serving")

-----------------------------------------------------------------------------
(* The promise of Rollout, read off the database and the pods. *)

Rol == INSTANCE Rollout WITH
         Complete <- {p \in Pods : Configured(p)},
         serving <- {p \in Pods : pc[p] = "serving"}

\* Whatever starts together, dies or is started again, migrate.py and the start
\* of the API do to schema and pods what Rollout allows: files one by one and
\* never back, and no pod that serves too early.
RolloutHolds == Rol!Spec
=============================================================================
