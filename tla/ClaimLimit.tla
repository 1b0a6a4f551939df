----------------------------- MODULE ClaimLimit -----------------------------
(***************************************************************************)
(* Wrong claim codes are counted in Redis, per device and per organisation *)
(* (services/ratelimit.py), by the two handlers that judge a code: validate *)
(* and claim (services/claim_flow.py).                                     *)
(*                                                                         *)
(* A handler looks at both counters, judges the code, writes the audit     *)
(* event and only then counts: a check and an act with three awaits in     *)
(* between, so several handlers pass the check on the same count.  Between *)
(* two requests a worker is free; there is no end to the requests.  The    *)
(* organisation is one: counters of different tenants share nothing.       *)
(***************************************************************************)
EXTENDS Naturals, FiniteSets

CONSTANTS
    Workers,        \* handlers that may run at the same time
    Devices,        \* devices of the organisation
    Tenant,         \* the organisation's own counter
    None,
    DeviceLimit, TenantLimit,   \* claim_limit_per_device, _per_tenant
    Window,         \* claim_window_seconds, in ticks of the clock
    FaultKinds,     \* redis, lostAck, db, crash
    MaxFaults       \* bound on the failures of one behaviour

ASSUME ClaimLimitAssumption ==
    /\ IsFiniteSet(Workers)
    /\ Tenant \notin Devices /\ None \notin Devices
    /\ DeviceLimit \in Nat \ {0} /\ TenantLimit \in Nat \ {0}
    /\ Window \in Nat \ {0}
    /\ FaultKinds \subseteq {"redis", "lostAck", "db", "crash"}
    /\ MaxFaults \in Nat

VARIABLES
    hits,           \* rate:claim:{scope}:{key}; 0 when there is no such key
    ttl,            \* its time to live; 0 when there is none
    pc, attempt,    \* where a worker is, and what it was asked
    faults

vars == <<hits, ttl, pc, attempt, faults>>
counters == <<hits, ttl>>

Scopes == Devices \cup {Tenant}
Limit(s) == IF s = Tenant THEN TenantLimit ELSE DeviceLimit

\* Answers: 200, 404/409/410, 429, 400, 503, 500.
Answers == {"accepted", "refused", "throttled", "rejected", "unavailable",
            "failed"}
Labels == {"device", "tenant", "judge", "event", "hitDevice", "hitTenant"}

Attempt == [dev : Devices \cup {None}, right : BOOLEAN]
NoAttempt == [dev |-> None, right |-> FALSE]

TypeOK ==
    /\ hits \in [Scopes -> Nat]
    /\ ttl \in [Scopes -> 0 .. Window]
    /\ pc \in [Workers -> Labels \cup Answers \cup {"idle"}]
    /\ attempt \in [Workers -> Attempt]
    /\ \A w \in Workers : pc[w] \in Labels => attempt[w].dev \in Devices
    /\ \A s \in Scopes : hits[s] > 0 <=> ttl[s] > 0
    /\ faults \in Nat

Init ==
    /\ hits = [s \in Scopes |-> 0]
    /\ ttl = [s \in Scopes |-> 0]
    /\ pc = [w \in Workers |-> "idle"]
    /\ attempt = [w \in Workers |-> NoAttempt]
    /\ faults = 0

-----------------------------------------------------------------------------
Goto(w, label) == pc' = [pc EXCEPT ![w] = label]

\* The answer is sent; nothing of the request is left.
Answer(w, answer) ==
    Goto(w, answer) /\ attempt' = [attempt EXCEPT ![w] = NoAttempt]

Onward(w, label) == Goto(w, label) /\ UNCHANGED attempt

Fault(kind) == kind \in FaultKinds /\ faults < MaxFaults /\ faults' = faults + 1

\* POST /devices/validate or /devices/claim.
Begin(w, d, right) ==
    /\ pc[w] \in Answers \cup {"idle"}
    /\ attempt' = [attempt EXCEPT ![w] = [dev |-> d, right |-> right]]
    /\ Goto(w, "device")
    /\ UNCHANGED <<counters, faults>>

\* One rejection more than the limit lets through.
BlockedLate(s) == hits[s] > Limit(s)

Blocked(s) == hits[s] >= Limit(s)

\* ensure_not_blocked reads one counter, then the other; Redis out of reach
\* refuses the request.
Check(w, s, next) ==
    /\ \/ Blocked(s) /\ Answer(w, "throttled") /\ UNCHANGED faults
       \/ ~ Blocked(s) /\ Onward(w, next) /\ UNCHANGED faults
       \/ Fault("redis") /\ Answer(w, "unavailable")
    /\ UNCHANGED counters

CheckDevice(w) == pc[w] = "device" /\ Check(w, attempt[w].dev, "tenant")

CheckTenant(w) == pc[w] = "tenant" /\ Check(w, Tenant, "judge")

\* Every attempt is counted, as if the code were still unknown.
JudgeCounted(w) ==
    /\ pc[w] = "judge"
    /\ Onward(w, "hitDevice")
    /\ UNCHANGED <<counters, faults>>

\* The row is read, the state comes first, then the code: only a PENDING
\* device has a code to guess.  A pod without the secret of the row's version
\* fails without judging.
Judge(w) ==
    /\ pc[w] = "judge"
    /\ \/ \E answer \in {"refused", "failed"} : Answer(w, answer) /\ UNCHANGED faults
       \/ attempt[w].right /\ Answer(w, "accepted") /\ UNCHANGED faults
       \/ ~ attempt[w].right /\ Onward(w, "event") /\ UNCHANGED faults
       \/ Fault("db") /\ Answer(w, "failed")
    /\ UNCHANGED counters

\* _reject: the audit event in a transaction of its own; if that fails the
\* rejection is not counted.
LogRejection(w) ==
    /\ pc[w] = "event"
    /\ \/ Onward(w, "hitDevice") /\ UNCHANGED faults
       \/ Fault("db") /\ Answer(w, "failed")
    /\ UNCHANGED counters

\* INCR, then EXPIRE in a call of its own that may never be made.
HitThenExpire(s) ==
    /\ hits' = [hits EXCEPT ![s] = @ + 1]
    /\ \/ ttl' = [ttl EXCEPT ![s] = IF hits[s] = 0 THEN Window ELSE @]
       \/ UNCHANGED ttl

\* SET NX EX and INCR in one MULTI: the window starts at the first rejection.
Hit(s) ==
    /\ hits' = [hits EXCEPT ![s] = @ + 1]
    /\ ttl' = [ttl EXCEPT ![s] = IF hits[s] = 0 THEN Window ELSE @]

\* Redis fails before or after the MULTI took effect.
Record(w, s, done) ==
    \/ Hit(s) /\ done /\ UNCHANGED faults
    \/ Hit(s) /\ Fault("lostAck") /\ Answer(w, "unavailable")
    \/ UNCHANGED counters /\ Fault("redis") /\ Answer(w, "unavailable")

HitDevice(w) ==
    /\ pc[w] = "hitDevice"
    /\ Record(w, attempt[w].dev, Onward(w, "hitTenant"))

HitTenant(w) ==
    /\ pc[w] = "hitTenant"
    /\ Record(w, Tenant, Answer(w, "rejected"))

\* The clock of Redis; a counter that has lived its window is gone.
Tick ==
    /\ \E s \in Scopes : ttl[s] > 0
    /\ ttl' = [s \in Scopes |-> IF ttl[s] > 0 THEN ttl[s] - 1 ELSE 0]
    /\ hits' = [s \in Scopes |-> IF ttl[s] = 1 THEN 0 ELSE hits[s]]
    /\ UNCHANGED <<pc, attempt, faults>>

\* The process dies with its handlers.
Crash ==
    /\ Fault("crash")
    /\ pc' = [w \in Workers |-> IF pc[w] \in Labels THEN "failed" ELSE pc[w]]
    /\ attempt' = [w \in Workers |-> NoAttempt]
    /\ UNCHANGED counters

Step(w) ==
    \/ CheckDevice(w) \/ CheckTenant(w) \/ Judge(w) \/ LogRejection(w)
    \/ HitDevice(w) \/ HitTenant(w)

Next ==
    \/ \E w \in Workers, d \in Devices, right \in BOOLEAN : Begin(w, d, right)
    \/ \E w \in Workers : Step(w)
    \/ Tick
    \/ Crash

Spec == Init /\ [][Next]_vars

\* The event loop resumes every handler (Redis calls time out after 2 s), and
\* time passes.
FairSpec == Spec /\ WF_vars(Tick) /\ \A w \in Workers : WF_vars(Step(w))

-----------------------------------------------------------------------------
(* Properties. *)

\* Workers that have seen counter s below its limit and may still add to it.
DeviceStages == {"tenant", "judge", "event", "hitDevice"}
TenantStages == {"judge", "event", "hitDevice", "hitTenant"}

Pending(s) ==
    {w \in Workers :
        IF s = Tenant THEN pc[w] \in TenantStages
        ELSE pc[w] \in DeviceStages /\ attempt[w].dev = s}

\* The check and the count are not atomic, and this is all that it costs: a
\* window never holds more wrong codes than the limit and the handlers that
\* run at the same time (less one), whatever fails and wherever windows end.
OvershootBounded ==
    \A s \in Scopes :
        hits[s] + Cardinality(Pending(s)) < Limit(s) + Cardinality(Workers)

\* ratelimit.py: "an organisation activating many devices in a row must not be
\* throttled": where no code is wrong, nobody is told to wait.
SuccessNeverThrottled ==
    [](\A w \in Workers : pc[w] # "event")
        => [](\A w \in Workers : pc[w] # "throttled")

\* A blocked device or organisation is served again, even if the attempts
\* never stop and whatever failed: every counter dies with its window.
Unblocked == \A s \in Scopes : []<>(~ Blocked(s))
=============================================================================
