# Verification of the device management (VPN) module

TLA+ models of this repository's backend, factory tool and Devices page, the TLC
configurations that check them, and proofs for TLAPS. Paths are relative to the
repository; `claim_flow.py` is `backend/app/services/claim_flow.py`, and so on.

To run one check: `tlc -config Failures.cfg MCProvisioning.tla`. To check the proofs
of a module: `tlapm ProvisioningProofs.tla`.

## 1. The system and what can go wrong in it

A field device is registered and certified at the factory, claimed by a tenant with
the code printed on it, joined to a Headscale tailnet with a key that is shown once,
and revoked in the end. One FastAPI process per pod serves everything; every handler
is a coroutine, so handlers interleave at each `await`.

| Component | State it keeps | Operations | Talks to |
|---|---|---|---|
| Claim, reissue, revoke, view (`claim_flow.py`, `api/devices.py`) | none between requests; locals over `await`s | `validate`, `claim`, `reissue_key`, `revoke`, `reconcile_node` | all stores below |
| Registry (`db/repo.py`, `migrations/001_devices.sql`) | `devices`, `device_events` | `get_for_update`, `mark_claimed`, `mark_revoked`, `set_node`, `set_preauth`, `add_event` | PostgreSQL |
| Transactions (`db/session.py`) | pool of 5, tenant scope | `tenant_tx`, `platform_tx` | PostgreSQL |
| Who may call what (`middleware`) | none | `require_roles`, `verify_internal_secret` | - |
| Lookup of other services (`api/internal.py`) | none | `get_device` | registry, Headscale |
| Headscale client (`headscale.py`) | users, keys, nodes (remote) | `ensure_user`, `create_preauth_key`, `expire_unused_key`, `list_nodes`, `delete_node` | Headscale |
| Twin writer (`twin.py`) | NGSI-LD entity (remote) | `upsert`, `mark_revoked`, `delete` | Orion-LD |
| Claim rate limiter (`ratelimit.py`) | counters with a window | `blocked`, `hit` | Redis |
| Factory routes (`api/factory.py`) | rows in PENDING, fingerprints | `register_device`, `sign_csr` | registry, certificates |
| Certificates (`pki.py`) | CertificateRequests (remote) | create, poll, clean up | Kubernetes |
| Factory tool (`factory-tool/flash_tool.py`) | one directory per device | `provision` | factory routes |
| Claim codes (`claim_code.py`) | none: HMAC of uuid and version | `generate`, `validate` | - |
| Migrations (`db/migrate.py`) | `schema_migrations`, advisory lock | `run_migrations` | PostgreSQL |
| Start-up (`main.py`, `config.py`) | the pool's first connection | `validate_required`, `build_services` | PostgreSQL |
| Devices page (`src/hooks`, `src/pages`, `src/components`) | listing, open cards, selection | reload, open, confirm, register, select | the API |

What makes it hard:

- **A lock that covers one store of three.** Claim, reissue and revoke keep the row
  locked (`SELECT ... FOR UPDATE`) while they call Headscale and Orion, which know
  nothing of the lock: a device may join, a key may lapse and a node may leave between
  any two calls.
- **Effects without answers.** Each remote call, and the `COMMIT`, can take effect
  although the handler sees an exception. Compensation (`_undo`) runs after the
  transaction, without the lock.
- **Check, then act.** The limiter is asked before the code is judged and told after;
  `sign_csr` reads the state up to half a minute before it answers; the page applies
  answers that come in any order.
- **One pool under everything.** A claim keeps one of five connections through up to
  four remote calls, and some requests need a connection twice.
- **A scope per transaction.** What a request sees of the two tables, and what it can
  write, depends on the organisation its transaction was opened for, which is not
  always the one that asked.
- **Processes that die** with remote effects made and nothing committed.

What would make each part right: one usable key per device and none after revocation;
decisions that still hold when they are committed; an audit trail that accounts for the
rows; nodes attributed by id, key or name and nothing else; compensation that is complete;
wrong codes bounded by the limit and right ones never throttled; answers that say what is
so, or that it is unknown; rows of one's own organisation only; a pool that nobody waits for
with a connection in hand; one code per device for ever; a bundle whose files belong
together; migrations applied in order and once; a page that never settles on an old answer.
`PROJECT.json` lists every hazard at its line, with the properties that would catch it.

## 2. Modules

| Module | Models |
|---|---|
| `Provisioning` | the handlers of `claim_flow.py`, the rows, Headscale, Orion, the field |
| `ProvisioningProperties` | its properties, its inductive invariant `IInv`, the mapping to `Admission` |
| `Admission` | the promise: who may enter the tailnet, without requests, locks or failures |
| `Serving` | the pool, row-level security, the Headscale user, the reading routes |
| `ClaimLimit` | the limiter and the two handlers that judge a code |
| `ClaimCode` | a claim code as it is printed, typed and read |
| `Factory` | registration, certificates, the factory tool and its files |
| `Registration` | the promise: what the factory gives a device, without runs, processes or failures |
| `Migrations` | initContainers that migrate one database side by side, and the start of the API |
| `Rollout` | the promise: how a schema grows and when a pod serves, without runs, locks or failures |
| `DevicesPage` | the page's listing, cards and context panel |
| `MC*` | instances for TLC; `MCClaimLimit` is also one of `ClaimCode` |
| `*Proofs`, `ProvisioningRefinement` | theorems and proofs |

### Provisioning

A request `r` runs one handler. `pc[r]` is the `await` it is at, `req[r]` its local
variables: `row` is `device`, `holds` says that `preauth` is not `None`, `twin` that
`created_twin` is not `None`, `node` is what `_match_node` returned, `removed` that
`"node_id"` is in `details`. `dev` is the committed table, `lock` the open
transactions that hold the row, `audit` is `device_events`. A handler creates at most
one key and a single-use key admits one node, so a key is named by the request that
created it and a node by its key.

A node has a hostname, which its machine chooses, and a given name, which an operator
may change. `names` has the devices whose UUIDs they are, of whatever device the key was
that admitted the node; `_match_node` looks at nothing else once id and key have failed
(`Matches`). `bore` adds up the names over time; no handler reads it.

| Action | Code |
|---|---|
| `ClaimLock`, `ReissueLock`, `RevokeLock` | `get_for_update` and the checks on the row it returns |
| `EnsureUser`, `UpsertTwin`, `MintKey` | the remote calls of `claim`, in this order; `MintKey` also in `reissue_key` |
| `ReissueNodes`, `RevokeNodes`, `ViewNodes` | `list_nodes` and `_match_node` |
| `DeleteNode` | `delete_node` in `revoke` |
| `ListKeys`, `ExpireUnused` | the two calls of `expire_unused_key` |
| `PatchTwin` | `mark_revoked` of the twin |
| `ClaimCommit`, `ReissueCommit`, `RevokeCommit` | `UPDATE`, event and `COMMIT` |
| `UndoKey`, `UndoTwin` | `_undo` |
| `Reject` | `_reject` (its counters are in `ClaimLimit`) |
| `ViewRead`, `ViewSave` | `get` and `set_node` of `reconcile_node` |
| `StatementFails`, `ConnectionLost`, `Crash` | the database and the process |
| `KeyTimeout`, `Join`, `Leave`, `Rename` | the key's lifetime, the machine in the field, an operator |

A call ends `ok`, with an `error` and no effect, or as `lostAck`, with its effect and
an exception. `commit` is a `COMMIT` whose answer is lost, `db` a failed statement or a
connection that PostgreSQL dropped, which rolls back and frees the row while the
handler still thinks it has it.

### Serving

`Provisioning` looks at one device and what becomes of its key; `Serving` at what all
requests share. A request has a connection while `scope[r] # None`, and the scope is
`app.current_tenant_id` of that connection; the policies of `001_devices.sql` are
`Visible`. `pc[r]` is a label in `Waiting` (for a connection), `Inside` (a transaction)
or between two transactions.

| Action | Code |
|---|---|
| `Begin` | the roles of the route, `tenant_tx`'s refusal of the platform scope |
| `Open` | `pool.acquire`, `BEGIN`, `set_config` in `_scoped_tx` |
| `ReadRows`, `ReadEvents` | the `SELECT`s of list, get, audit, validate and lookup |
| `Ask` | `nodes_by_user` in `list_devices`, `list_nodes` in `reconcile_node` |
| `Persist`, `Save` | `set_node` in `reconcile_node`, in the scope of the row's organisation |
| `Answer` | the end of a reading route |
| `Lock` | `get_for_update`, the checks on the row, the code |
| `LogRejection` | `_reject`, in a transaction of its own |
| `LookForUser`, `CreateUser` | the three calls of `ensure_user` |
| `RemoteCalls`, `Commit` | the other calls under the lock (in detail in `Provisioning`); the end |
| `StatementFails`, `Join`, `Leave` | PostgreSQL; the field |

`blame` collects what failed in a request and `calm` the reads since whose start no node
has come or gone and no other read has written a row; both exist for properties only.
The pods of `Serving` have the secret of every version; a pod that lacks one answers a
claim or a validation with an error, which `Judge` of `ClaimLimit` has.

### ClaimLimit

A worker is a handler of `validate` or `claim`, reused for one attempt after another:
`CheckDevice`, `CheckTenant` (`ensure_not_blocked`), `Judge`, `LogRejection`,
`HitDevice`, `HitTenant` (`_reject`, `record_rejection`), with `Tick` for Redis's clock.
A counter is `hits` and `ttl`; `SET NX EX` and `INCR` are one step because they are one
`MULTI`. What comes after a right code is `Provisioning`.

### ClaimCode

No state: `Printed`, `Normalize` (`normalize_claim_code`) and `Submitted` (the wizard) over
sequences of symbols, with one symbol for white space. `Compact`, which drops it, is a
recursive function over the text. `Reading` is the reference definition: what one may
take a printed symbol for.

### Factory

A run is one use of the factory: the tool (register, sign, write) or the web panel
(register only). `Read`, `Insert`, `Log` are the statements of `register_device`, with
the primary key making the second `INSERT` wait (`inserting`); `Check`, `Create`, `Poll`,
`Cleanup`, `Save` are `sign_csr` and `_sign_blocking`; `WriteKey` and `WriteCert` are the
files. A code is the version whose secret made it; key, CSR and certificate of a run
are the run. A client that gives up (`GiveUp`, 60 s) leaves its handler running.
`fresh` holds the runs whose request was named in the current second: only then can two
names collide. `Transition` is the tenant, whose handlers are in `Provisioning`.

`Registration` knows of a device its entry (order and version), its place in life, the
certificate last recorded and the codes handed out; `Entry`, `Stage`, `Certificate` and
`Told` compute them from the rows and the runs of `Factory`.

### Migrations

Pods of two images run `run_migrations` over one database. `executed` is what really
happened to the schema and `applied` what `schema_migrations` says. A pod that dies
leaves its session, and with it the advisory lock, to PostgreSQL (`Dead`) until that
notices. After the initContainer comes the API: `Start` is `validate_required` (`Required`,
`Configured`; `Env` is what the pod's environment has, `Unsigned` the pods without
signatures) and the first connection of the pool. `Restart` is the kubelet, which starts
the initContainer of a pod that died, and the API alone when only that has ended.

`Rollout` has the schema (`executed`, `applied`) and the pods that serve. The mapping takes
the first two as they are and reads the third off the pods' states.

### DevicesPage

`fetches[g]` is the listing that run `g` of the `useEffect` in `useDevices` asked for
and `effect` the current run: `cancelled` is `g # effect`. A card is a React component
without a key, so `Opened` keeps what an open card holds. `factory` is the card of a
PlatformAdmin, which registers a device and shows its code. `known` records what answers
have told the page and exists only for `ListingFresh`.

## 3. Runs

| Run | Module / cfg | Shows |
|---|---|---|
| `failures` | `MCProvisioning` / `Failures` | `OneUsableKey`, `RowUnderLock`, `AuditAccounts`, `TwinNotAheadOfRow`, `NoWayBack`; every behaviour is one of `Admission` |
| `fleet` | `MCProvisioning` / `Fleet` | `NodeAttribution` among devices of one tenant whose nodes bear any names; `FailureCompensated` |
| `finish` | `MCProvisioning` / `Finish` | `HandlersFinish` under fairness; `HandlersAdvance`, `SomebodyMoves` |
| `serving` | `MCServing` / `Serving` | `HoldAndWaitFree`, `NeverStuck`, `OwnRows`, `FailuresExplained`, `ReadTells`, `RequestsAnswered` |
| `claim_limit` | `MCClaimLimit` / `Limit` | `OvershootBounded`, `SuccessNeverThrottled`, `Unblocked`; `CodesReadBack` of `ClaimCode` |
| `factory` | `MCFactory` / `Factory` | `CodeStands`, `RegisteredOnce`, `OwnRequest`, `RequestsCleaned`, `BundleMatches`, `FingerprintKnown`, `FactoryAnswers`; every behaviour is one of `Registration` |
| `migrations` | `MCMigrations` / `Migrations` | `AppliedInOrder`, `ServedAfterMigrations`, `NoConflict`, `EveryPodServes`; every behaviour is one of `Rollout` |
| `devices_page` | `MCDevicesPage` / `DevicesPage` | `ListingFresh`, `PanelMatches` |
| `revoke_join_race` | `MCProvisioning` / `RevokeJoinRace` | violated: `RevokedOffline` |
| `undo_after_unlock` | `MCProvisioning` / `UndoAfterUnlock` | violated: `ClaimedHasTwin` |
| `half_revoked` | `MCProvisioning` / `HalfRevoked` | violated: `FailedRevokeRemovesNothing` |
| `key_under_other_device` | `MCDevicesPage` / `KeyUnderOtherDevice` | violated: `KeyForDevice` |

### Bounds, and why they are enough

- `failures`: one rover, four requests of any kind, one failure of any kind. A key has
  to be made, replaced and withdrawn while something else runs, which takes four
  handlers; devices share nothing but the listing of nodes, so one is enough here.
- `fleet`: a rover, a gateway and a sensor with three requests. `_match_node` compares
  a device with the nodes of its siblings; three requests put up two nodes and look. A
  node joins as, or is renamed to, the rover, the gateway, both or neither, so a sibling's
  node is taken, recorded and deleted in this run; that the row keeps it once it is renamed
  back, and a later request acts on it, takes a fourth request and is left to the theorem.
  `FailureCompensated` allows one failure because `_undo` is best effort: a second
  failure may defeat it, by design.
- `finish`: three requests on one rover, without symmetry (it is unsound for liveness).
- `serving`: three requests, each one of a menu of three to five calls: a claim or a
  revocation that keeps row and connection, a list or an audit read that crosses it, a
  claim, a read or a lookup for the second device. Two devices of two organisations whose
  names give the same Headscale user, two
  connections, so that the third request waits, one failure of any kind, two nodes, of
  which the first may be gone and still be in a row. `ServingProofs` has the safety
  properties for any numbers; `TypeOK` is proved there and not checked again.
- `CodesReadBack`: a body of one symbol out of two (one has a lookalike, one has none), and
  every text of up to six of seven symbols: the four of a code and two spaces, or two too
  many. The symbols of a body are treated alike, so a longer body adds no case; the
  theorem is for every alphabet and length.
- `claim_limit`: two workers, two devices, limits 2 and 3, window 2, one failure.
  `OvershootBounded` is proved for any numbers; so is `TypeOK` (`LimitTypes`), which is
  not checked again.
- `factory`: two runs for one device that two organisations order, two versions of the
  secret, two failures. Two runs are two clients, two pods or a client and the handler
  it left behind; failures are spent once per kind, so that two different ones combine.
- `migrations`: a pod of an old image (one file), two of a new one (three files), one of
  them with a setting missing and the other without signatures, and a pod that knows no
  database; three failures.
- `devices_page`: an own and a foreign device, four actions of the administrator, any
  order of service and answers. Four actions are: open, confirm, reload, reload.
- `HistoryInv`, `FactoryInv`, `PageInv`, `TypeOK` of `Migrations` and `RevokedKeyless`, which
  the runs checked before they were proved, hold for every value of the constants and
  are not checked again.
- `MaxFaults`, `MaxActions` and `SignPolls` (polls before the deadline of 30 s) bound the
  models only; the theorems hold for every value of them.

`CHECK_DEADLOCK FALSE` is used where everybody may be done: all requests of `serving` are
answered (`RequestsAnswered` says that they are), all runs of the factory have ended, all
pods serve, the administrator does nothing more. `Provisioning` has
`Settled` for that instead, so that a handler that waits for ever is a deadlock.

### Fairness

`WF_vars(Step(r))` for each handler: the event loop resumes a coroutine whose `await`
has completed, and every remote call completes or times out (10 s for Headscale, 2 s for
Redis). Nothing is assumed of the field, of an operator or of failures. Row locks
need no strong fairness: the holder finishes, and the requests of a model are finite.
In `Serving` the same holds for the pool: asyncpg serves who waits in order, PostgreSQL
gives a row to somebody who waits for it, and no request is served twice.
`Tick` is fair because time passes; cert-manager (`Decide`) is not, so `FactoryAnswers`
holds although it may never decide. In `Migrations` a restart is part of `Step` (the
kubelet), and PostgreSQL notices dead sessions (`Notice`).

## 4. Findings

1. **A device that joins during its revocation stays** (`claim_flow.py:256`). `revoke`
   lists the nodes, then looks at the key. A device that joins in between has used
   the key and was not listed.
2. **A failed claim removes the twin of the next one** (`claim_flow.py:136`). `_undo`
   runs after the lock is gone.
3. **A failed revocation has removed the node** (`claim_flow.py:258`); the documentation
   says that nothing changes.
4. **The New key card shows another device's command** (`DevicesPage.tsx:58`). It has no
   `key` prop, so it keeps its state when it is opened for another device.

Seen in the models, without a run of their own: a node that bears a sibling's UUID is
taken for the sibling's (`claim_flow.py:171`), is recorded in its row, from where on the
recorded id keeps it there under any name, refuses the sibling a new key, and is deleted
by the sibling's revocation. `docs/DEVELOPER_GUIDE.md` asks for the device's own UUID as
`--hostname`, so this is a duty of the operator that the code relies on and does not
check; `NodeAttribution` says that nothing else leads there. A claim can fail and stand
(`claim_flow.py:139`), when the answer of the `COMMIT` is lost: key and twin are undone,
the row is CLAIMED; a reissue repairs the key, nothing writes the twin again; a device
that joins during a reissue gets a second key although it is online
(`claim_flow.py:220`); a reissue that fails after `expire_unused_key` has changed
something, where `claim_flow.py:209` says "nothing changes"; a key whose creation is
answered by a timeout stays live, unknown to everybody (`claim_flow.py:122`); two
overlapping reads both log `NODE_SEEN`, and the one with the older listing may write
last (`claim_flow.py:195`); the lookup of other services answers `node: null` when
Headscale is down (`internal.py:43`), where `claim_flow.py:178` has "unknown" for that;
"refuse to run half-configured" (`main.py:61`) asks for `FACTORY_SECRET_V1` only,
whatever the current version is; the fields of the factory card can be changed while the
code of another UUID is shown (`FactoryPanel.tsx:51`); `POST /devices/validate` writes
`CLAIM_REJECTED` and counts, where `README.md:54` says "without side effects".

## 5. Proofs

| Theorem | Module | Says |
|---|---|---|
| `TypeCorrect` | `ProvisioningProofs` | `Spec => []TypeOK` |
| `Invariance` | `ProvisioningProofs` | `Spec => []IInv` |
| `OneUsableKeyHolds`, `RevokedKeylessHolds`, `RowUnderLockHolds` | `ProvisioningProofs` | the three invariants |
| `HandlersAdvanceHolds`, `SomebodyMovesHolds` | `ProvisioningProofs` | the safety part of `HandlersFinish` |
| `Implements` | `ProvisioningRefinement` | `Spec => AdmissionHolds` |
| `NoWayBackHolds` | `ProvisioningRefinement` | `Spec => NoWayBack`, from `Implements` |
| `HistoryInvHolds` | `ProvisioningHistoryProofs` | `Spec => []HistoryInv` |
| `AuditAccountsHolds`, `NodeAttributionHolds`, `TwinNotAheadOfRowHolds` | `ProvisioningHistoryProofs` | the three invariants |
| `FailureCompensatedHolds` | `ProvisioningHistoryProofs` | `Spec => [](OneFailure => FailureCompensated)` |
| `ServingTypes` | `ServingProofs` | `Spec => []TypeOK` |
| `NoHoldAndWait`, `NeverStuckHolds`, `RowsAreOwn`, `FailuresHaveCauses`, `ReadsTellTruth` | `ServingProofs` | the five invariants of `Serving` |
| `LimitTypes`, `OvershootHolds` | `ClaimLimitProofs` | types and the bound of the overshoot |
| `SuccessHolds` | `ClaimLimitProofs` | `Spec => SuccessNeverThrottled` |
| `ReadingsReadBack` | `ClaimLimitProofs` | what `normalize_claim_code` makes of any text without spaces |
| `WizardHarmless`, `AcceptsReadingsHold` | `ClaimLimitProofs` | the same for any text, and for what the wizard sends |
| `CodesReadBackHolds` | `ClaimLimitProofs` | `Spec => []CodesReadBack` |
| `FactoryInvHolds`, `FactoryTypes` | `FactoryProofs` | `Spec => []FactoryInv`, and its first conjunct |
| `CodeStandsHolds`, `RegisteredOnceHolds`, `OwnRequestHolds` | `FactoryProofs` | the invariants of registration and signing |
| `RequestsCleanedHolds`, `BundleMatchesHolds`, `FingerprintKnownHolds` | `FactoryProofs` | the invariants of what a run leaves behind |
| `RegistrationImplemented` | `FactoryProofs` | `Spec => RegistrationHolds` |
| `PageInvHolds` | `DevicesPageProofs` | `Spec => []PageInv` |
| `ListingFreshHolds`, `PanelMatchesHolds` | `DevicesPageProofs` | the two invariants of the page |
| `MigrationTypes` | `MigrationsProofs` | `Spec => []TypeOK` |
| `AppliedInOrderHolds`, `ServedAfterMigrationsHolds`, `NoConflictHolds` | `MigrationsProofs` | the safety of migrations |
| `RolloutImplemented` | `MigrationsProofs` | `Spec => RolloutHolds` |

They rest on the named assumptions of the modules (`ProvisioningAssumption`,
`ServingAssumption`, `ClaimLimitAssumption`, `ClaimCodeAssumption`, `FactoryAssumption`,
`MigrationsAssumption`, `DevicesPageAssumption`) and on nothing else. One theorem has a
hypothesis besides, in its statement: `OneFailure`.

**Provisioning.** `OneUsableKey` alone is not inductive: a commit that replaces the
recorded key has to know that the old one is dead. `IInv` adds the argument. A locked row
is the row its handler read, with one holder (`LockedRow`); a handler is past
`expire_unused_key` only with the recorded key dead, and it stays dead (`OldKeyDead`);
keys exist from the last remote call on, get into a row only by a commit (`MintedOnce`,
`KeysForVpnOnly`), and out by an answer (`ShownAnswered`); so a live key that is out is
the one in its device's CLAIMED row (`LiveKeyOnRow`). There is one lemma per conjunct.
`IInv` is a conjunct of `HistoryInv`.

**History.** The rows, the trail and the twin have to be traced back to what handlers did
long ago. `HistoryInv` adds to `IInv`: a key in a row or in a handler's variables is of a
request of the same device that has begun, and a node there, or in the trail, was admitted
by such a key or has borne the device's UUID (`Origin`, from which `NodeAttribution`
follows: `_match_node` takes the node the row has, or the one of the recorded key, or one
that bears the UUID now, and `bore` never shrinks); the trail has one CLAIMED and one
REVOKED event at most, and the one of the row's state (`TrailOfState`); each name the row
has, and each key that is out or about to be, is in an event (`TrailOfNames`). What makes
these inductive is that a row and its events are written by one `COMMIT`, or by none.
`TwinNotAheadOfRow` is inductive beside `IInv`: only a revocation about to commit marks the
twin, and from there it commits, or fails and stays where it failed.

`FailureCompensated` is not a theorem of `Spec` alone. `_undo` is best effort, so a
second failure may defeat it, and a commit that stands without its answer makes it undo
what is not to be undone (finding 2). `OneFailure` says that calls and statements are
what fails, once, without effect; the run `fleet` has just these constants. Its
invariant is `Undoing`: a handler gets to the compensation by a failure only
(`UndoAfterFailure`), so that what follows succeeds (`FailsOnce`); and a live key or a
twin of a PENDING device has a claim that will commit it or undo it (`KeyToUndo`,
`TwinToUndo`).

**Refinement.** `Admission` has a state per device, the credentials somebody could use,
the nodes, and every key ever handed out (`granted`). The mapping reads them off:
`Phase`, `Held` (keys shown and live), `Online`, `shown`. A commit of a claim is `Activate`
and its answer is `Grant`, or `GrantLate` if the key lapsed before the answer; a
revocation's commit is `Retire`; a key that lapses or is expired is `Withdraw`; all else
stutters. That `Grant` finds no other credential is `LiveKeyOnRow`; that `Retire` finds
none is `OldKeyDead`; that no key is handed out twice is `ShownAnswered`.

`NoWayBack` says what no step does: take a device out of REVOKED, let a node in for it,
take back that a key was shown, or revive one that was shown and is dead. It is an action
property of `Admission`, so it is proved there, step by step (`AdmissionForward`), and
carried over by `Implements`.

**Progress.** `HandlersFinish` itself needs fairness, but what it rests on does not. Each
step takes a handler forward in its own order of labels (`Rank`, `HandlersAdvance`), so
a handler has no more than thirteen steps, whatever fails; and while anybody is at work
somebody does not wait for a row (`SomebodyMoves`), because who holds a row is past its
locking step and asks for no other one. Left to TLC is that a handler which does not wait
has a step to take, which is `ENABLED`, and that fairness makes it take one.

**Serving.** Four of the five invariants come out of one induction (`IInv`), with a lemma
per action: where a request may be for its operation (`Path`), that its tenant, role and
device are those of a call that was let in (`Caller`), which scope it has where
(`Scoped`), whose rows it has read or locked (`Own`) and what failed in it (`Caused`). A
claim that finds no user at its second look has lost an answer, because users stay:
that is in `Caused`. `NeverStuck` is the safety part of `RequestsAnswered`: a full pool has
somebody in it, who waits for a row at most, and who has the row (`HolderWorks`) waits
for nothing. `ReadTells` needs more (`RInv`): for a calm read, what it has listed is
still there (`Fresh`) and what it was told is what the row says now (`Told`).

**ClaimLimit.** An attempt that may still add to a counter has seen it below its limit
(`Pending`), so a hit trades one pending attempt for one hit, and only a check that still
finds the counter below its limit adds a pending one. `SuccessNeverThrottled` says of a
whole behaviour that without a rejection nobody is throttled: while nothing is
rejected no counter has a hit (`NothingCounted`), and every check passes.

**ClaimCode.** A printed code has its first dash in the third place, and so has every
text that is read as it: a dash before would be left in the result, one after would
leave no dash in the third place. Behind it each symbol is read on its own (`Symbol`).
`ClaimCodeAssumption` is what the comment in `claim_code.py` says of Base32: no 0, 1 or
8, and no small letters.

Spaces are an induction over the text. `NaturalsInduction` cannot be instantiated here, so
`Induction` is proved from the least number that would be a counterexample (`Least`,
from the well-foundedness of the naturals). `CompactDefined` shows that the recursion of
`Compact` has a value, prefix by prefix; `TrimmedInk` compares what is left of a text
with what is left of its trimmed capitals: nothing before the first ink, the same symbol
by symbol up to the last, nothing after.

**Factory.** `FactoryInv` has the whole argument; its lemmas go by what a step does to
one part of the state (`StepFrame` the other runs, `StepRow` the row, `StepSettled` what
is over, `StepDisk` the files), then one per conjunct. The primary key lets one `INSERT`
of a device be open (`InsertAlone`), so a row has one writer of its code and one
REGISTERED event. A request of cert-manager belongs to the run that made it, and a run
that polls or deletes has made its own: the loser of a clash of names never gets that
far (`OwnRequest`, `RequestsLeft`). One station flashes, so one tool at a time writes
files (`OneTool`), and the certificate in a handler, an answer or a row is one of the
same device (`CertOfDevice`); that the key on the disk is of a run of that device is
needed only with several devices, where it was found by the proof and not by the run
`factory`, which has one.

`Registration` has, per device, the order and version it is registered with, its stage,
its certificate, the codes handed out and the one in its directory. The mapping reads
them off the row, the clients and the disks (`Entry`, `Stage`, `Certificate`, `Told`,
`Label`). A commit of `register_device` is `Register`, with or without somebody told;
the answer to a second registration is `TellAgain`; a saved signing is `Certify`, which
leaves stage and entry alone although its handler read the row long before; claim and
revocation are the tenant's. That no code is told twice differently is `CodeStands`,
that a registration finds no entry is `InsertAlone`.

**DevicesPage.** Devices go one way (`Rank`): an answer, once served, is never ahead of the
state, and what the page knows is neither (`AnswersTrue`). The listing that counts was asked
for by the current run of the effect; each answer that tells the page something starts a new
run, so the current one was served after all of them (`CurrentFetch`), provided the number
of runs is not exhausted, which is `RunsOwed`: a run is owed to an action, or to the answer
of a call that an action began. A card that is open, and each call, carry the number of the
opening (`OpenCards`); the factory card takes one answer at most (`FactoryCall`), and a
selection the answer to its own question (`SelectedAsk`).

**Migrations.** A run between its first read and its end has the lock (`LockHeld`), so
what it has read, with what it has applied itself, is what is applied (`NextKnows`,
`CommitKnows`); the file it commits is the next one. A pod that has finished stays so
(`Finished`), through restarts of the API alone, because `applied` only grows. A committed
file is `Apply` of `Rollout` (`CommitApplies`: it is the next one of an image that a pod
has), a pod that starts is `Serve` (`StartServes`), one that exits or crashes is `Stop`; all
else stutters.

**Model-checked only:** liveness (`HandlersFinish`, `Unblocked`, `FactoryAnswers`,
`EveryPodServes`, `RequestsAnswered`), because the prover reaches neither fairness nor
`ENABLED`; and the four properties that the code violates, which TLC refutes. Every
invariant and every action property that a passing run checks is a theorem, with
`FailureCompensated` under the hypothesis named above.

## 6. Not modelled

- The HMAC of a claim code (any body may be printed; a code is known by its version) and
  what a CSR must contain (one comparison in `pki.py`).
- The headers of a caller and their signature: the platform SDK checks them, and it is
  not in this repository. `Serving` has what each route asks of the result.
- `find_node` and `raw`, which no code calls.
- The attributes of the twin other than its state: they are written once.
- Closing the clients at shutdown, CORS, logging, texts, badges, packaging: no state the
  models tell apart.

## 7. Plan

Done, in this order: `Provisioning`, its proofs and the refinement; `ClaimLimit` and its
proofs; `Factory`; `Migrations` and its proofs; `DevicesPage`; `Serving` and its proofs;
`ClaimCode`; the start of the API in `Migrations`; the factory card in `DevicesPage`; the
history of `Provisioning`; the proofs of `Factory` and `DevicesPage`; `Registration`, and
`Factory` as its implementation; the reading of codes and its proof; `Rollout`, and
`Migrations` as its implementation; `NoWayBack` and the safety part of progress.
To come:

1. The four hazards that have no property yet (`claim_flow.py:78`, `claim_flow.py:122`,
   `claim_flow.py:195`, `FactoryPanel.tsx:51`), where the code turns out to promise something.
2. What `SomebodyMoves` and `NeverStuck` say of `Provisioning` and `Serving`, for `Factory`,
   where the second `INSERT` of a device waits for the first; and `HandlersAdvance` for
   both, with a measure for the reads, whose labels come round once per listing and node.
