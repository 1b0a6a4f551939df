--------------------------- MODULE ServingProofs ----------------------------
(***************************************************************************)
(* For any number of requests, devices and organisations, any pool and any *)
(* number of failures: types, HoldAndWaitFree, NeverStuck, OwnRows,        *)
(* FailuresExplained and ReadTells.                                        *)
(*                                                                         *)
(* All but the last are one induction.  What a request may hold, see       *)
(* and wait for depends on where it is (Path), on who called (Caller), and *)
(* on the scope of its transaction (Scoped); the lock it has is of a row   *)
(* that scope showed (Own), and a failure has left its cause behind        *)
(* (Caused).                                                               *)
(***************************************************************************)
EXTENDS Serving, FiniteSetTheorems, TLAPS

Reconciling == {"each", "openSave", "save"}
Broad == {"listAll", "lookup"}

\* The handlers a label belongs to.
Path(r) ==
    /\ pc[r] # "idle" => req[r].op \in Operations
    /\ pc[r] \in Reconciling => req[r].op \in {"list", "listAll", "get", "lookup"}
    /\ pc[r] \in {"openEvents", "events"} => req[r].op = "events"
    /\ pc[r] \in {"openReject", "log"} => req[r].op \in {"claim", "validate"}
    /\ pc[r] \in {"lock"} \cup Holding => req[r].op \in {"claim", "revoke"}
    /\ pc[r] \in {"user", "create", "again"} => req[r].op = "claim"
    /\ pc[r] = "read" => req[r].op \notin {"claim", "revoke"}

\* A request that got past its route has a caller with a name of its own, or
\* needs none, and a device, unless it lists.
Caller(r) ==
    pc[r] \notin {"idle"} \cup Ended =>
        /\ req[r].op # "lookup" => req[r].tenant \in Tenants
        /\ req[r].op \notin Broad => req[r].tenant # Platform
        /\ req[r].role \in Allowed(req[r])
        /\ req[r].op \notin {"list", "listAll"} => req[r].dev \in Devices
        /\ pc[r] \in {"openSave", "save"} =>
              /\ req[r].dev \in Devices
              /\ req[r].rows[req[r].dev].state = "CLAIMED"

Scoped(r) ==
    /\ pc[r] \notin Inside => scope[r] = None
    /\ pc[r] = "save" => scope[r] = TenantOf[req[r].dev]
    /\ pc[r] \in {"read", "lock"} =>
          scope[r] = IF req[r].op \in Broad THEN Platform ELSE req[r].tenant

\* A row may be known to the request.
Permitted(r, d) ==
    \/ TenantOf[d] = req[r].tenant /\ req[r].role # "none"
    \/ req[r].op = "listAll" /\ req[r].role = "PlatformAdmin"
    \/ req[r].op = "lookup" /\ req[r].role = "service"

Own(r) ==
    /\ \A d \in Devices : lock[d] = r => pc[r] \in Holding /\ req[r].dev = d
    /\ pc[r] \in Holding => TenantOf[req[r].dev] = req[r].tenant
    /\ \A d \in Devices : req[r].rows[d] # NoRow => Permitted(r, d)

Caused(r) ==
    /\ pc[r] = "failed" =>
          IF req[r].op \in {"claim", "revoke"} THEN req[r].blame # {}
          ELSE req[r].blame \cap {"db", "scope"} # {}
    /\ pc[r] = "again" =>
          UserOf[req[r].tenant] \in users \/ "headscale" \in req[r].blame

Good(r) == Path(r) /\ Caller(r) /\ Scoped(r) /\ Own(r) /\ Caused(r)

IInv == TypeOK /\ \A r \in Requests : Good(r)

-----------------------------------------------------------------------------
\* NoRow is no row, and the sets of labels are disjoint where it matters.
LEMMA Shapes ==
    /\ NoRow \notin Row
    /\ Waiting \cap Inside = {} /\ Waiting \cap Holding = {}
    /\ Ended \cap Inside = {} /\ Ended \cap Waiting = {}
    /\ \A t \in Tenants \cup {Platform} : t # None
    /\ None \notin Requests
    /\ \A d \in Devices : TenantOf[d] \in Tenants /\ TenantOf[d] # Platform
<1>1. NoRow \notin Row
  <2>1. \A row \in Row : row.state # "NONE"
    BY DEF Row
  <2>2. NoRow.state = "NONE"
    BY DEF NoRow
  <2> QED BY <2>1, <2>2
<1>2. /\ Waiting \cap Inside = {} /\ Waiting \cap Holding = {}
      /\ Ended \cap Inside = {} /\ Ended \cap Waiting = {}
  BY DEF Waiting, Inside, Holding, Remote, Ended
<1>3. /\ \A t \in Tenants \cup {Platform} : t # None
      /\ None \notin Requests
      /\ \A d \in Devices : TenantOf[d] \in Tenants /\ TenantOf[d] # Platform
  BY ServingAssumption
<1> QED BY <1>1, <1>2, <1>3

\* What a step of one request leaves alone.
Frame(r) ==
    /\ \A q \in Requests \ {r} :
          /\ pc'[q] = pc[q] /\ req'[q] = req[q] /\ scope'[q] = scope[q]
          /\ \A d \in Devices : lock'[d] = q => lock[d] = q
    /\ users \subseteq users'

\* What one request does leaves the others as good as they were: it writes
\* nothing of theirs, gives back its own lock only or takes a free one, and
\* Headscale's users are never removed.
LEMMA Others ==
    ASSUME IInv, NEW r \in Requests, NEW q \in Requests, q # r, Frame(r)
    PROVE  Good(q)'
BY DEF IInv, Frame, Good, Path, Caller, Scoped, Own, Permitted, Caused

-----------------------------------------------------------------------------
(* Types. *)

\* Connection and lock after a transaction.
LEMMA ReleaseTypes ==
    ASSUME TypeOK, NEW r \in Requests, Release(r)
    PROVE  /\ scope' \in [Requests -> Tenants \cup {Platform, None}]
           /\ lock' \in [Devices -> Requests \cup {None}]
           /\ scope'[r] = None
           /\ \A q \in Requests \ {r} : scope'[q] = scope[q]
           /\ \A d \in Devices : lock'[d] # r
           /\ \A q \in Requests, d \in Devices : lock'[d] = q => lock[d] = q
BY Shapes DEF TypeOK, Release

\* A request goes to a label.
LEMMA GotoTypes ==
    ASSUME TypeOK, NEW r \in Requests, NEW label \in Labels, Goto(r, label)
    PROVE  /\ pc' \in [Requests -> Labels]
           /\ pc'[r] = label
           /\ \A q \in Requests \ {r} : pc'[q] = pc[q]
BY DEF TypeOK, Goto

\* A failure is blamed on something, and nothing else of the request changes.
LEMMA BlameTypes ==
    ASSUME TypeOK, NEW r \in Requests,
           NEW what \in {"headscale", "db", "scope"}, Blame(r, what)
    PROVE  /\ req' \in [Requests -> Handler]
           /\ \A q \in Requests \ {r} : req'[q] = req[q]
           /\ req'[r].op = req[r].op /\ req'[r].tenant = req[r].tenant
           /\ req'[r].role = req[r].role /\ req'[r].dev = req[r].dev
           /\ req'[r].rows = req[r].rows
           /\ req'[r].blame = req[r].blame \cup {what}
<1>1. req[r] \in Handler
  BY DEF TypeOK
<1>2. [req[r] EXCEPT !.blame = @ \cup {what}] \in Handler
  BY <1>1 DEF Handler
<1>3. req' = [req EXCEPT ![r] = [req[r] EXCEPT !.blame = @ \cup {what}]]
  BY <1>1 DEF TypeOK, Blame, Handler
<1> QED BY <1>1, <1>2, <1>3 DEF TypeOK, Handler

\* The labels a step goes to are labels.
LEMMA LabelTypes ==
    /\ Waiting \cup Inside \cup Ended \cup Holding \cup {"idle", "each"}
          \subseteq Labels
    /\ \A c \in Call : Entry(c) \in {"open", "refused", "failed"}
BY DEF Labels, Waiting, Inside, Ended, Holding, Remote, Entry

\* Every request starts with a blank handler.
LEMMA BlankTypes == Blank \in Handler
<1>1. [d \in Devices |-> NoRow] \in [Devices -> Row \cup {NoRow}]
  OBVIOUS
<1>2. [d \in Devices |-> 0] \in [Devices -> NodeIds]
  BY ServingAssumption DEF NodeIds
<1> QED BY <1>1, <1>2 DEF Blank, Handler, Roles

-----------------------------------------------------------------------------
(* The steps of a request.  Each keeps the types, makes the request good    *)
(* where it now is, and leaves the others alone.                            *)

\* A failure ends the request, gives everything back and is explained.
LEMMA FailGood ==
    ASSUME IInv, NEW r \in Requests, Fail(r), NEW what \in {"headscale", "db"},
           Blame(r, what), pc[r] # "idle",
           what = "headscale" => req[r].op \in {"claim", "revoke"},
           UNCHANGED users
    PROVE  /\ pc' \in [Requests -> Labels]
           /\ req' \in [Requests -> Handler]
           /\ scope' \in [Requests -> Tenants \cup {Platform, None}]
           /\ lock' \in [Devices -> Requests \cup {None}]
           /\ pc'[r] = "failed"
           /\ Good(r)' /\ Frame(r)
<1>1. TypeOK /\ Good(r)
  BY DEF IInv
<1>2. "failed" \in Labels /\ "failed" \notin Inside
  BY DEF Labels, Ended, Inside, Holding, Remote
<1>3. /\ pc' \in [Requests -> Labels] /\ pc'[r] = "failed"
      /\ \A q \in Requests \ {r} : pc'[q] = pc[q]
  BY <1>1, <1>2, GotoTypes DEF Fail
<1>4. /\ scope' \in [Requests -> Tenants \cup {Platform, None}]
      /\ lock' \in [Devices -> Requests \cup {None}]
      /\ scope'[r] = None
      /\ \A q \in Requests \ {r} : scope'[q] = scope[q]
      /\ \A d \in Devices : lock'[d] # r
      /\ \A q \in Requests, d \in Devices : lock'[d] = q => lock[d] = q
  BY <1>1, ReleaseTypes DEF Fail
<1>5. /\ req' \in [Requests -> Handler]
      /\ \A q \in Requests \ {r} : req'[q] = req[q]
      /\ req'[r].op = req[r].op /\ req'[r].tenant = req[r].tenant
      /\ req'[r].role = req[r].role /\ req'[r].dev = req[r].dev
      /\ req'[r].rows = req[r].rows
      /\ req'[r].blame = req[r].blame \cup {what}
  BY <1>1, BlameTypes
<1>6. Path(r)' /\ Caller(r)' /\ Scoped(r)'
  BY <1>1, <1>2, <1>3, <1>4, <1>5
  DEF Good, Path, Caller, Scoped, Reconciling, Inside, Holding, Remote, Ended
<1>7. Own(r)'
  BY <1>1, <1>3, <1>4, <1>5 DEF Good, Own, Permitted, Holding, Remote
<1>8. Caused(r)'
  BY <1>1, <1>3, <1>5 DEF Caused
<1>9. Frame(r)
  BY <1>3, <1>4, <1>5 DEF Frame
<1> QED BY <1>3, <1>4, <1>5, <1>6, <1>7, <1>8, <1>9 DEF Good

\* A failing statement explains itself.
LEMMA StatementFailsGood ==
    ASSUME IInv, NEW r \in Requests, StatementFails(r)
    PROVE  TypeOK' /\ Good(r)' /\ Frame(r)
<1>1. pc[r] # "idle" /\ Fault("db") /\ Blame(r, "db") /\ Fail(r)
  BY DEF StatementFails, Waiting, Inside, Holding, Remote
<1>2. UNCHANGED <<rows, users, nodes, joins, calm>>
  BY DEF StatementFails, headscale
<1>3. faults' \in Nat
  BY <1>1 DEF IInv, TypeOK, Fault
<1>4. /\ pc' \in [Requests -> Labels]
      /\ req' \in [Requests -> Handler]
      /\ scope' \in [Requests -> Tenants \cup {Platform, None}]
      /\ lock' \in [Devices -> Requests \cup {None}]
      /\ Good(r)' /\ Frame(r)
  BY <1>1, <1>2, FailGood
<1> QED BY <1>2, <1>3, <1>4 DEF IInv, TypeOK

\* The route.
LEMMA BeginGood ==
    ASSUME IInv, NEW r \in Requests, Begin(r)
    PROVE  TypeOK' /\ Good(r)' /\ Frame(r)
<1>1. TypeOK /\ Good(r) /\ pc[r] = "idle"
  BY DEF IInv, Begin
<1>2. PICK c \in Calls[r] :
          /\ Goto(r, Entry(c))
          /\ calm' = calm \cup (IF c.op \in Reads THEN {r} ELSE {})
          /\ req' = [req EXCEPT ![r] =
                [Blank EXCEPT !.op = c.op, !.tenant = c.tenant,
                     !.role = c.role, !.dev = c.dev,
                     !.blame = IF Entry(c) = "failed" THEN {"scope"} ELSE {}]]
  BY DEF Begin
<1> DEFINE x == [Blank EXCEPT !.op = c.op, !.tenant = c.tenant,
                     !.role = c.role, !.dev = c.dev,
                     !.blame = IF Entry(c) = "failed" THEN {"scope"} ELSE {}]
<1>3. c \in Call
  BY ServingAssumption
<1>4. /\ c.op \in Operations /\ c.tenant \in Tenants \cup {None}
      /\ c.role \in Roles /\ c.dev \in Devices \cup {None}
      /\ c.tenant = None <=> c.op = "lookup"
      /\ c.dev = None <=> c.op \in {"list", "listAll"}
  BY <1>3 DEF Call
<1>5. /\ x \in Handler /\ x.op = c.op /\ x.tenant = c.tenant
      /\ x.role = c.role /\ x.dev = c.dev
      /\ x.rows = [d \in Devices |-> NoRow]
      /\ x.blame = IF Entry(c) = "failed" THEN {"scope"} ELSE {}
  BY <1>4, BlankTypes DEF Blank, Handler
<1>6. /\ req' \in [Requests -> Handler] /\ req'[r] = x
      /\ \A q \in Requests \ {r} : req'[q] = req[q]
  BY <1>1, <1>2, <1>5 DEF TypeOK
<1>7. Entry(c) \in {"open", "refused", "failed"} /\ Entry(c) \in Labels
  BY <1>3, LabelTypes DEF Waiting, Ended
<1>8. /\ pc' \in [Requests -> Labels] /\ pc'[r] = Entry(c)
      /\ \A q \in Requests \ {r} : pc'[q] = pc[q]
  BY <1>1, <1>2, <1>7, GotoTypes
<1>9. UNCHANGED <<scope, lock, rows, users, nodes, joins, faults>>
  BY DEF Begin, Keep, headscale
<1>10. calm' \subseteq Requests
  BY <1>1, <1>2 DEF TypeOK
<1>11. TypeOK'
  BY <1>1, <1>6, <1>8, <1>9, <1>10 DEF TypeOK
<1>12. Path(r)'
  BY <1>4, <1>5, <1>6, <1>7, <1>8 DEF Path, Reconciling, Holding, Remote
<1>13. Caller(r)'
  BY <1>4, <1>5, <1>6, <1>7, <1>8 DEF Caller, Entry, Allowed, Ended, Broad
<1>14. Scoped(r)'
  BY <1>1, <1>7, <1>8, <1>9 DEF Good, Scoped, Inside, Holding, Remote
<1>15. Own(r)'
  BY <1>1, <1>5, <1>6, <1>7, <1>8, <1>9 DEF Good, Own, Holding, Remote
<1>16. Caused(r)'
  BY <1>5, <1>6, <1>7, <1>8, <1>4 DEF Caused, Entry
<1> QED BY <1>6, <1>8, <1>9, <1>11, <1>12, <1>13, <1>14, <1>15, <1>16
        DEF Good, Frame

\* The labels a request may go to when it gives everything back.
Outer == {"each", "openEvents", "openSave", "openReject", "ok", "refused"}

\* A request that leaves its transaction with the handler as it was.
LEMMA LeaveGood ==
    ASSUME IInv, NEW r \in Requests, NEW label \in Outer, Goto(r, label),
           Release(r), UNCHANGED <<req, users>>,
           pc[r] \in Inside,
           label = "openReject" => req[r].op \in {"claim", "validate"},
           label \notin {"each", "openEvents", "openSave"}
    PROVE  /\ pc' \in [Requests -> Labels]
           /\ scope' \in [Requests -> Tenants \cup {Platform, None}]
           /\ lock' \in [Devices -> Requests \cup {None}]
           /\ Good(r)' /\ Frame(r)
<1>1. TypeOK /\ Good(r)
  BY DEF IInv
<1>2. label \in Labels /\ label \notin Inside
  BY DEF Outer, Labels, Waiting, Ended, Inside, Holding, Remote
<1>3. /\ pc' \in [Requests -> Labels] /\ pc'[r] = label
      /\ \A q \in Requests \ {r} : pc'[q] = pc[q]
  BY <1>1, <1>2, GotoTypes
<1>4. /\ scope' \in [Requests -> Tenants \cup {Platform, None}]
      /\ lock' \in [Devices -> Requests \cup {None}]
      /\ scope'[r] = None
      /\ \A q \in Requests \ {r} : scope'[q] = scope[q]
      /\ \A d \in Devices : lock'[d] # r
      /\ \A q \in Requests, d \in Devices : lock'[d] = q => lock[d] = q
  BY <1>1, ReleaseTypes
<1>5. Path(r)' /\ Caller(r)'
  BY <1>1, <1>3
  DEF Good, Path, Caller, Allowed, Reconciling, Outer, Inside, Holding, Remote, Ended
<1>6. Scoped(r)'
  BY <1>2, <1>3, <1>4 DEF Scoped, Inside
<1>7. Own(r)'
  BY <1>1, <1>2, <1>3, <1>4 DEF Good, Own, Permitted, Inside
<1>8. Caused(r)'
  BY <1>3 DEF Caused, Outer
<1> QED BY <1>3, <1>4, <1>5, <1>6, <1>7, <1>8 DEF Good, Frame

\* A connection, in the scope of the transaction that waited for it.
LEMMA OpenGood ==
    ASSUME IInv, NEW r \in Requests, Open(r)
    PROVE  TypeOK' /\ Good(r)' /\ Frame(r)
<1>1. /\ TypeOK /\ Good(r) /\ pc[r] \in Waiting
      /\ Goto(r, FirstLabel(r))
      /\ scope' = [scope EXCEPT ![r] = ScopeOf(r)]
      /\ UNCHANGED <<rows, lock, users, nodes, joins, req, calm, faults>>
  BY DEF IInv, Open, headscale
<1>2. /\ pc[r] = "open" => FirstLabel(r) = IF req[r].op \in {"claim", "revoke"}
                                           THEN "lock" ELSE "read"
      /\ pc[r] = "openEvents" => FirstLabel(r) = "events"
      /\ pc[r] = "openSave" => FirstLabel(r) = "save"
      /\ pc[r] = "openReject" => FirstLabel(r) = "log"
  BY DEF FirstLabel
<1>3. FirstLabel(r) \in {"lock", "read", "events", "save", "log"}
  BY <1>1, <1>2 DEF Waiting
<1>4. /\ pc' \in [Requests -> Labels] /\ pc'[r] = FirstLabel(r)
      /\ \A q \in Requests \ {r} : pc'[q] = pc[q]
  BY <1>1, <1>3, GotoTypes DEF Labels, Inside
<1>5. ScopeOf(r) \in Tenants \cup {Platform}
  BY <1>1, Shapes DEF Good, Caller, ScopeOf, Waiting, Ended, Broad
<1>6. /\ scope' \in [Requests -> Tenants \cup {Platform, None}]
      /\ scope'[r] = ScopeOf(r)
      /\ \A q \in Requests \ {r} : scope'[q] = scope[q]
  BY <1>1, <1>5 DEF TypeOK
<1>7. TypeOK'
  BY <1>1, <1>4, <1>6 DEF TypeOK
<1>8. Path(r)'
  BY <1>1, <1>2, <1>3, <1>4
  DEF Good, Path, Reconciling, Waiting, Holding, Remote
<1>9. Caller(r)'
  BY <1>1, <1>2, <1>3, <1>4 DEF Good, Caller, Waiting, Ended
<1>10. Scoped(r)'
  BY <1>1, <1>2, <1>3, <1>4, <1>6 DEF Scoped, ScopeOf, Broad, Inside, Waiting
<1>11. Own(r)'
  BY <1>1, <1>3, <1>4, Shapes DEF Good, Own, Permitted, Holding, Remote
<1>12. Caused(r)'
  BY <1>3, <1>4 DEF Caused
<1> QED BY <1>1, <1>4, <1>6, <1>7, <1>8, <1>9, <1>10, <1>11, <1>12
        DEF Good, Frame

\* What the scope shows is the caller's, or the caller may see everything.
LEMMA ScopeShows ==
    ASSUME IInv, NEW r \in Requests, pc[r] \in {"read", "lock"},
           NEW d \in Devices, Visible(scope[r], d)
    PROVE  Permitted(r, d)
<1>1. Good(r) /\ pc[r] \notin {"idle"} \cup Ended
  BY DEF IInv, Ended
<1>2. scope[r] = IF req[r].op \in Broad THEN Platform ELSE req[r].tenant
  BY <1>1 DEF Good, Scoped
<1> QED BY <1>1, <1>2, Shapes DEF Good, Caller, Allowed, Visible, Permitted, Broad

LEMMA ReadRowsGood ==
    ASSUME IInv, NEW r \in Requests, ReadRows(r)
    PROVE  TypeOK' /\ Good(r)' /\ Frame(r)
<1> DEFINE seen == {d \in Wanted(r) : Visible(scope[r], d)}
           read == [d \in Devices |-> IF d \in seen THEN rows[d] ELSE NoRow]
<1>1. /\ TypeOK /\ Good(r) /\ pc[r] = "read" /\ Release(r)
      /\ UNCHANGED <<rows, users, nodes, joins, calm, faults>>
      /\ req' = [req EXCEPT ![r].rows = read]
  BY DEF IInv, ReadRows, headscale
<1>2. PICK label \in AfterRead(r, seen) : Goto(r, label)
  BY DEF ReadRows
<1>3. /\ label \in Outer \ {"openSave"}
      /\ label = "each" => req[r].op \in {"list", "listAll", "get", "lookup"}
      /\ label = "openEvents" => req[r].op = "events"
      /\ label \in {"ok", "openReject"} => req[r].op = "validate"
  BY <1>1 DEF AfterRead, Outer, Good, Path, Operations, Reads
<1>4. label \in Labels /\ label \notin Inside
  BY <1>3 DEF Outer, Labels, Waiting, Ended, Inside, Holding, Remote
<1>5. /\ pc' \in [Requests -> Labels] /\ pc'[r] = label
      /\ \A q \in Requests \ {r} : pc'[q] = pc[q]
  BY <1>1, <1>2, <1>4, GotoTypes
<1>6. /\ scope' \in [Requests -> Tenants \cup {Platform, None}]
      /\ lock' \in [Devices -> Requests \cup {None}]
      /\ scope'[r] = None
      /\ \A q \in Requests \ {r} : scope'[q] = scope[q]
      /\ \A d \in Devices : lock'[d] # r
      /\ \A q \in Requests, d \in Devices : lock'[d] = q => lock[d] = q
  BY <1>1, ReleaseTypes
<1>7. read \in [Devices -> Row \cup {NoRow}]
  BY <1>1 DEF TypeOK
<1> DEFINE x == [req[r] EXCEPT !.rows = read]
<1>a. req[r] \in Handler
  BY <1>1 DEF TypeOK
<1>b. x \in Handler
  <2> HIDE DEF read
  <2> QED BY <1>a, <1>7 DEF Handler
<1>c. req' = [req EXCEPT ![r] = x]
  <2> HIDE DEF read
  <2> QED BY <1>1, <1>a DEF TypeOK, Handler
<1>8. /\ req' \in [Requests -> Handler] /\ req'[r] = x
      /\ \A q \in Requests \ {r} : req'[q] = req[q]
  BY <1>1, <1>b, <1>c DEF TypeOK
<1>9. /\ req'[r].op = req[r].op /\ req'[r].tenant = req[r].tenant
      /\ req'[r].role = req[r].role /\ req'[r].dev = req[r].dev
      /\ req'[r].rows = read
  BY <1>1, <1>8 DEF TypeOK, Handler
<1>10. TypeOK'
  BY <1>1, <1>5, <1>6, <1>8 DEF TypeOK
<1>11. Path(r)' /\ Caller(r)'
  BY <1>1, <1>3, <1>5, <1>9
  DEF Good, Path, Caller, Allowed, Reconciling, Outer, Holding, Remote,
      Ended
<1>12. Scoped(r)'
  BY <1>4, <1>5, <1>6 DEF Scoped, Inside
<1>13. Own(r)'
  <2>1. ASSUME NEW d \in Devices, read[d] # NoRow
        PROVE  Permitted(r, d)
    BY <1>1, <2>1, ScopeShows
  <2> QED BY <1>4, <1>5, <1>6, <1>9, <2>1 DEF Own, Permitted, Inside
<1>14. Caused(r)'
  BY <1>3, <1>5 DEF Caused, Outer
<1> QED BY <1>1, <1>5, <1>6, <1>8, <1>10, <1>11, <1>12, <1>13, <1>14
        DEF Good, Frame

LEMMA ReadEventsGood ==
    ASSUME IInv, NEW r \in Requests, ReadEvents(r)
    PROVE  TypeOK' /\ Good(r)' /\ Frame(r)
<1>1. /\ pc[r] = "events" /\ Goto(r, "ok") /\ Release(r)
      /\ UNCHANGED <<rows, users, nodes, joins, req, calm, faults>>
  BY DEF ReadEvents, headscale
<1>2. /\ pc' \in [Requests -> Labels]
      /\ scope' \in [Requests -> Tenants \cup {Platform, None}]
      /\ lock' \in [Devices -> Requests \cup {None}]
      /\ Good(r)' /\ Frame(r)
  BY <1>1, LeaveGood DEF Outer, Inside
<1> QED BY <1>1, <1>2 DEF IInv, TypeOK

LEMMA LogRejectionGood ==
    ASSUME IInv, NEW r \in Requests, LogRejection(r)
    PROVE  TypeOK' /\ Good(r)' /\ Frame(r)
<1>1. /\ pc[r] = "log" /\ Goto(r, "refused") /\ Release(r)
      /\ UNCHANGED <<rows, users, nodes, joins, req, calm, faults>>
  BY DEF LogRejection, headscale
<1>2. /\ pc' \in [Requests -> Labels]
      /\ scope' \in [Requests -> Tenants \cup {Platform, None}]
      /\ lock' \in [Devices -> Requests \cup {None}]
      /\ Good(r)' /\ Frame(r)
  BY <1>1, LeaveGood DEF Outer, Inside
<1> QED BY <1>1, <1>2 DEF IInv, TypeOK

\* A request between two transactions, whose handler becomes x.
LEMMA EachGood ==
    ASSUME IInv, NEW r \in Requests, pc[r] = "each",
           NEW x \in Handler, req' = [req EXCEPT ![r] = x],
           x.op = req[r].op, x.tenant = req[r].tenant,
           x.role = req[r].role, x.rows = req[r].rows,
           x.op \notin {"list", "listAll"} => x.dev \in Devices,
           \/ pc' = pc
           \/ /\ Goto(r, "openSave")
              /\ x.dev \in Devices /\ x.rows[x.dev].state = "CLAIMED",
           UNCHANGED <<scope, lock, users>>
    PROVE  /\ pc' \in [Requests -> Labels]
           /\ req' \in [Requests -> Handler]
           /\ Good(r)' /\ Frame(r)
<1>1. TypeOK /\ Good(r)
  BY DEF IInv
<1>2. /\ pc' \in [Requests -> Labels]
      /\ pc'[r] = "each" \/ /\ pc'[r] = "openSave" /\ x.dev \in Devices
                            /\ x.rows[x.dev].state = "CLAIMED"
      /\ \A q \in Requests \ {r} : pc'[q] = pc[q]
  BY <1>1, GotoTypes DEF TypeOK, Labels, Waiting
<1>3. /\ req' \in [Requests -> Handler] /\ req'[r] = x
      /\ \A q \in Requests \ {r} : req'[q] = req[q]
  BY <1>1 DEF TypeOK
<1>4. Path(r)' /\ Caller(r)'
  BY <1>1, <1>2, <1>3
  DEF Good, Path, Caller, Allowed, Reconciling, Holding, Remote, Ended
<1>5. Scoped(r)'
  BY <1>1, <1>2 DEF Good, Scoped, Inside, Holding, Remote
<1>6. Own(r)'
  BY <1>1, <1>2, <1>3 DEF Good, Own, Permitted, Holding, Remote
<1>7. Caused(r)'
  BY <1>2 DEF Caused
<1> QED BY <1>2, <1>3, <1>4, <1>5, <1>6, <1>7 DEF Good, Frame

LEMMA AskGood ==
    ASSUME IInv, NEW r \in Requests, Ask(r)
    PROVE  TypeOK' /\ Good(r)' /\ Frame(r)
<1>1. /\ TypeOK /\ Good(r) /\ pc[r] = "each" /\ req[r] \in Handler
      /\ UNCHANGED <<rows, users, nodes, joins, pc, calm, scope, lock>>
  BY DEF IInv, TypeOK, Ask, Keep, headscale
<1>2. PICK u \in {User(d) : d \in OnTailnet(r)} :
          \/ /\ req' = [req EXCEPT ![r].asked[u] = "yes",
                                   ![r].listing = Listed(r, u)]
             /\ UNCHANGED faults
          \/ Fault("headscale") /\ req' = [req EXCEPT ![r] = Unanswered(r, u)]
  BY DEF Ask
<1>3. u \in Users
  BY Shapes DEF User, Users, OnTailnet
<1>4. Listed(r, u) \in [Devices -> NodeIds]
  BY <1>1 DEF Listed, TypeOK, Handler
<1>5. faults' \in Nat
  BY <1>1, <1>2 DEF TypeOK, Fault
<1>6. req[r].op \notin {"list", "listAll"} => req[r].dev \in Devices
  BY <1>1 DEF Good, Caller, Ended
<1>7. /\ pc' \in [Requests -> Labels] /\ req' \in [Requests -> Handler]
      /\ Good(r)' /\ Frame(r)
  <2>1. CASE req' = [req EXCEPT ![r].asked[u] = "yes",
                                ![r].listing = Listed(r, u)]
    <3> DEFINE x == [req[r] EXCEPT !.asked = [@ EXCEPT ![u] = "yes"],
                                   !.listing = Listed(r, u)]
    <3>1. /\ x \in Handler /\ x.op = req[r].op /\ x.tenant = req[r].tenant
          /\ x.role = req[r].role /\ x.rows = req[r].rows
          /\ x.dev = req[r].dev
      BY <1>1, <1>3, <1>4 DEF Handler
    <3>2. req' = [req EXCEPT ![r] = x]
      BY <2>1, <1>1, <1>3 DEF TypeOK, Handler
    <3> HIDE DEF x
    <3> QED BY <1>1, <1>6, <3>1, <3>2, EachGood
  <2>2. CASE req' = [req EXCEPT ![r] = Unanswered(r, u)]
    <3> DEFINE x == Unanswered(r, u)
    <3>1. /\ x \in Handler /\ x.op = req[r].op /\ x.tenant = req[r].tenant
          /\ x.role = req[r].role /\ x.rows = req[r].rows
          /\ x.dev = req[r].dev
      BY <1>1, <1>3 DEF Unanswered, Handler
    <3> HIDE DEF x
    <3> QED BY <1>1, <1>6, <2>2, <3>1, EachGood DEF x
  <2> QED BY <1>2, <2>1, <2>2
<1> QED BY <1>1, <1>5, <1>7 DEF TypeOK

LEMMA PersistGood ==
    ASSUME IInv, NEW r \in Requests, Persist(r)
    PROVE  TypeOK' /\ Good(r)' /\ Frame(r)
<1>1. /\ TypeOK /\ pc[r] = "each" /\ Goto(r, "openSave") /\ req[r] \in Handler
      /\ UNCHANGED <<rows, users, nodes, joins, calm, faults, scope, lock>>
  BY DEF IInv, TypeOK, Persist, Keep, headscale
<1>2. PICK d \in Unsaved(r) : req' = [req EXCEPT ![r].dev = d]
  BY DEF Persist
<1>3. d \in Devices /\ req[r].rows[d].state = "CLAIMED"
  BY DEF Unsaved, OnTailnet
<1> DEFINE x == [req[r] EXCEPT !.dev = d]
<1>4. /\ x \in Handler /\ x.op = req[r].op /\ x.tenant = req[r].tenant
      /\ x.role = req[r].role /\ x.rows = req[r].rows /\ x.dev = d
  BY <1>1, <1>3 DEF Handler
<1>5. req' = [req EXCEPT ![r] = x]
  BY <1>1, <1>2 DEF TypeOK, Handler
<1>6. /\ pc' \in [Requests -> Labels] /\ req' \in [Requests -> Handler]
      /\ Good(r)' /\ Frame(r)
  <2> HIDE DEF x
  <2> QED BY <1>1, <1>3, <1>4, <1>5, EachGood
<1> QED BY <1>1, <1>6 DEF TypeOK

LEMMA AnswerGood ==
    ASSUME IInv, NEW r \in Requests, Answer(r)
    PROVE  TypeOK' /\ Good(r)' /\ Frame(r)
<1>1. /\ TypeOK /\ Good(r) /\ pc[r] = "each" /\ Goto(r, "ok")
      /\ UNCHANGED <<rows, users, nodes, joins, req, calm, faults, scope, lock>>
  BY DEF IInv, Answer, Keep, headscale
<1>2. /\ pc' \in [Requests -> Labels] /\ pc'[r] = "ok"
      /\ \A q \in Requests \ {r} : pc'[q] = pc[q]
  BY <1>1, GotoTypes DEF Labels, Ended
<1>3. Path(r)' /\ Caller(r)' /\ Scoped(r)' /\ Own(r)' /\ Caused(r)'
  BY <1>1, <1>2 DEF Good, Path, Caller, Scoped, Own, Permitted, Caused,
                    Reconciling, Holding, Remote, Inside, Ended
<1> QED BY <1>1, <1>2, <1>3 DEF TypeOK, Good, Frame

\* The row of the device is in the scope of its own organisation.
LEMMA SaveGood ==
    ASSUME IInv, NEW r \in Requests, Save(r)
    PROVE  TypeOK' /\ Good(r)' /\ Frame(r)
<1> DEFINE d == req[r].dev
           row == [rows[d] EXCEPT !.node = req[r].listing[d]]
<1>1. /\ TypeOK /\ Good(r) /\ pc[r] = "save" /\ req[r] \in Handler
      /\ UNCHANGED <<users, nodes, joins, faults>>
  BY DEF IInv, TypeOK, Save, headscale
<1>2. /\ d \in Devices /\ req[r].rows[d].state = "CLAIMED"
      /\ Visible(scope[r], d)
  BY <1>1 DEF Good, Caller, Scoped, Visible, Ended
<1>3. /\ rows' = [rows EXCEPT ![d] = row]
      /\ req' = [req EXCEPT ![r].rows[d] = row]
      /\ calm' = calm \cap {r}
      /\ Goto(r, "each") /\ Release(r)
  BY <1>2 DEF Save
<1>4. row \in Row /\ row # NoRow
  <2>1. rows[d] \in Row /\ req[r].listing[d] \in NodeIds
    BY <1>1, <1>2 DEF TypeOK, Handler
  <2>2. row \in Row
    BY <2>1 DEF Row
  <2> QED BY <2>2, Shapes
<1>5. rows' \in [Devices -> Row] /\ calm' \subseteq Requests
  BY <1>1, <1>2, <1>3, <1>4 DEF TypeOK
<1> DEFINE x == [req[r] EXCEPT !.rows = [@ EXCEPT ![d] = row]]
<1>6. /\ x \in Handler /\ x.op = req[r].op /\ x.tenant = req[r].tenant
      /\ x.role = req[r].role /\ x.dev = d
      /\ \A e \in Devices : x.rows[e] # NoRow => req[r].rows[e] # NoRow
  <2> HIDE DEF row
  <2>1. req[r].rows[d] # NoRow
    BY <1>2 DEF NoRow
  <2> QED BY <1>1, <1>2, <1>4, <2>1 DEF Handler
<1>7. req' = [req EXCEPT ![r] = x]
  <2> HIDE DEF row
  <2> QED BY <1>1, <1>2, <1>3 DEF TypeOK, Handler
<1> HIDE DEF x, row
<1>8. /\ req' \in [Requests -> Handler] /\ req'[r] = x
      /\ \A q \in Requests \ {r} : req'[q] = req[q]
  BY <1>1, <1>6, <1>7 DEF TypeOK
<1>9. /\ pc' \in [Requests -> Labels] /\ pc'[r] = "each"
      /\ \A q \in Requests \ {r} : pc'[q] = pc[q]
  BY <1>1, <1>3, GotoTypes DEF Labels
<1>10. /\ scope' \in [Requests -> Tenants \cup {Platform, None}]
       /\ lock' \in [Devices -> Requests \cup {None}]
       /\ scope'[r] = None
       /\ \A q \in Requests \ {r} : scope'[q] = scope[q]
       /\ \A e \in Devices : lock'[e] # r
       /\ \A q \in Requests, e \in Devices : lock'[e] = q => lock[e] = q
  BY <1>1, <1>3, ReleaseTypes
<1>11. Path(r)' /\ Caller(r)'
  BY <1>1, <1>2, <1>6, <1>8, <1>9
  DEF Good, Path, Caller, Allowed, Reconciling, Holding, Remote, Ended
<1>12. Scoped(r)' /\ Caused(r)'
  BY <1>9, <1>10 DEF Scoped, Caused, Inside, Holding, Remote
<1>13. Own(r)'
  BY <1>1, <1>6, <1>8, <1>9, <1>10 DEF Good, Own, Permitted, Holding, Remote
<1> QED BY <1>1, <1>5, <1>8, <1>9, <1>10, <1>11, <1>12, <1>13
        DEF TypeOK, Good, Frame

\* The row is taken, or the request leaves.
LEMMA LockGood ==
    ASSUME IInv, NEW r \in Requests, Lock(r)
    PROVE  TypeOK' /\ Good(r)' /\ Frame(r)
<1> DEFINE d == req[r].dev
<1>1. /\ TypeOK /\ Good(r) /\ pc[r] = "lock"
      /\ Visible(scope[r], d) => lock[d] = None
      /\ UNCHANGED <<rows, users, nodes, joins, req, calm, faults>>
  BY DEF IInv, Lock, headscale
<1>2. req[r].op \in {"claim", "revoke"} /\ d \in Devices
  BY <1>1 DEF Good, Path, Caller, Ended
<1>3. PICK label \in Judged(r) :
          /\ Goto(r, label)
          /\ IF Kept(label)
             THEN lock' = [lock EXCEPT ![d] = r] /\ UNCHANGED scope
             ELSE Release(r)
  BY DEF Lock
<1>4. rows[d].state \in {"PENDING", "CLAIMED", "REVOKED"}
  BY <1>1, <1>2 DEF TypeOK, Row
<1>5. /\ label \in {"user", "commit", "remote", "openReject", "refused"}
      /\ label \in {"user", "openReject"} => req[r].op = "claim"
      /\ label # "refused" => Visible(scope[r], d)
  BY <1>2, <1>4 DEF Judged
<1>6. CASE label \in {"openReject", "refused"}
  <2>1. Release(r)
    BY <1>3, <1>6 DEF Kept, Holding, Remote
  <2>2. /\ pc' \in [Requests -> Labels]
        /\ scope' \in [Requests -> Tenants \cup {Platform, None}]
        /\ lock' \in [Devices -> Requests \cup {None}]
        /\ Good(r)' /\ Frame(r)
    BY <1>1, <1>3, <1>5, <1>6, <2>1, LeaveGood DEF Outer, Inside
  <2> QED BY <1>1, <2>2 DEF TypeOK
<1>7. CASE label \in {"user", "commit", "remote"}
  <2>1. /\ lock' = [lock EXCEPT ![d] = r] /\ UNCHANGED scope
        /\ lock[d] = None
    BY <1>1, <1>3, <1>5, <1>7 DEF Kept, Holding, Remote
  <2>2. /\ pc' \in [Requests -> Labels] /\ pc'[r] = label
        /\ \A q \in Requests \ {r} : pc'[q] = pc[q]
    BY <1>1, <1>3, <1>7, GotoTypes DEF Labels, Inside, Holding, Remote
  <2>3. /\ lock' \in [Devices -> Requests \cup {None}]
        /\ \A e \in Devices : lock'[e] = r => e = d
        /\ \A q \in Requests \ {r}, e \in Devices :
              lock'[e] = q => lock[e] = q
    BY <1>1, <1>2, <2>1, Shapes DEF TypeOK, Good, Own, Holding, Remote
  <2>4. Permitted(r, d)
    BY <1>1, <1>2, <1>5, <1>7, ScopeShows
  <2>5. TypeOK'
    BY <1>1, <2>1, <2>2, <2>3 DEF TypeOK
  <2>6. Path(r)' /\ Caller(r)'
    BY <1>1, <1>2, <1>5, <1>7, <2>2
    DEF Good, Path, Caller, Allowed, Reconciling, Holding, Remote, Ended
  <2>7. Scoped(r)'
    BY <1>1, <1>7, <2>1, <2>2 DEF Good, Scoped, Inside, Holding, Remote
  <2>8. Own(r)'
    BY <1>1, <1>2, <1>7, <2>2, <2>3, <2>4
    DEF Good, Own, Permitted, Holding, Remote
  <2>9. Caused(r)'
    BY <1>7, <2>2 DEF Caused
  <2> QED BY <1>1, <2>1, <2>2, <2>3, <2>5, <2>6, <2>7, <2>8, <2>9
          DEF Good, Frame
<1> QED BY <1>5, <1>6, <1>7

\* Under the lock a claim or a revocation goes on to its next remote call.
LEMMA OnwardGood ==
    ASSUME IInv, NEW r \in Requests, pc[r] \in Remote,
           NEW label \in {"create", "again", "remote", "commit"},
           Goto(r, label), UNCHANGED <<scope, lock>>, users \subseteq users',
           label \in {"create", "again"} => req[r].op = "claim",
           \/ req' = req
           \/ Blame(r, "headscale"),
           label = "again" =>
              UserOf[req[r].tenant] \in users' \/ Blame(r, "headscale")
    PROVE  /\ pc' \in [Requests -> Labels] /\ req' \in [Requests -> Handler]
           /\ Good(r)' /\ Frame(r)
<1>1. TypeOK /\ Good(r)
  BY DEF IInv
<1>2. /\ pc' \in [Requests -> Labels] /\ pc'[r] = label
      /\ \A q \in Requests \ {r} : pc'[q] = pc[q]
  BY <1>1, GotoTypes DEF Labels, Inside, Holding, Remote
<1>3. /\ req' \in [Requests -> Handler]
      /\ \A q \in Requests \ {r} : req'[q] = req[q]
      /\ req'[r].op = req[r].op /\ req'[r].tenant = req[r].tenant
      /\ req'[r].role = req[r].role /\ req'[r].dev = req[r].dev
      /\ req'[r].rows = req[r].rows
      /\ Blame(r, "headscale") => "headscale" \in req'[r].blame
  BY <1>1, BlameTypes DEF TypeOK
<1>4. Path(r)' /\ Caller(r)'
  BY <1>1, <1>2, <1>3
  DEF Good, Path, Caller, Allowed, Reconciling, Holding, Remote, Ended
<1>5. Scoped(r)'
  BY <1>2, <1>3 DEF Scoped, Inside, Holding, Remote
<1>6. Own(r)'
  BY <1>1, <1>2, <1>3 DEF Good, Own, Permitted, Holding, Remote
<1>7. Caused(r)'
  BY <1>2, <1>3 DEF Caused
<1> QED BY <1>2, <1>3, <1>4, <1>5, <1>6, <1>7 DEF Good, Frame

\* What a request that goes on or fails keeps typed.
MoveOK(r) ==
    /\ pc' \in [Requests -> Labels]
    /\ req' \in [Requests -> Handler]
    /\ scope' \in [Requests -> Tenants \cup {Platform, None}]
    /\ lock' \in [Devices -> Requests \cup {None}]
    /\ faults' \in Nat
    /\ Good(r)' /\ Frame(r)

\* Headscale fails, and the request with it.
LEMMA RemoteFailsGood ==
    ASSUME IInv, NEW r \in Requests, pc[r] \in Remote, RemoteFails(r),
           UNCHANGED users
    PROVE  MoveOK(r) /\ pc'[r] = "failed"
<1>1. /\ Blame(r, "headscale") /\ Fail(r) /\ faults' \in Nat
      /\ pc[r] # "idle" /\ req[r].op \in {"claim", "revoke"}
  BY DEF IInv, TypeOK, Good, Path, RemoteFails, Fault, Holding, Remote
<1> QED BY <1>1, FailGood DEF MoveOK

\* The second look fails only after a failure of Headscale: its users stay.
LEMMA LookForUserGood ==
    ASSUME IInv, NEW r \in Requests, LookForUser(r)
    PROVE  TypeOK' /\ Good(r)' /\ Frame(r)
<1> DEFINE u == UserOf[req[r].tenant]
<1>1. /\ TypeOK /\ Good(r) /\ pc[r] \in {"user", "again"}
      /\ UNCHANGED <<rows, users, nodes, joins, calm>>
  BY DEF IInv, LookForUser, headscale
<1>2. req[r].op = "claim" /\ pc[r] \in Remote
  BY <1>1 DEF Good, Path, Remote
<1>3. MoveOK(r)
  <2>1. CASE /\ u \in users /\ Goto(r, "remote")
             /\ Keep /\ UNCHANGED <<req, faults>>
    BY <1>1, <1>2, <2>1, OnwardGood DEF Keep, MoveOK, TypeOK
  <2>2. CASE /\ u \notin users /\ pc[r] = "user" /\ Goto(r, "create")
             /\ Keep /\ UNCHANGED <<req, faults>>
    BY <1>1, <1>2, <2>2, OnwardGood DEF Keep, MoveOK, TypeOK
  <2>3. CASE /\ u \notin users /\ pc[r] = "again" /\ Fail(r)
             /\ UNCHANGED <<req, faults>>
    <3>1. "headscale" \in req[r].blame
      BY <1>1, <2>3 DEF Good, Caused
    <3>2. Blame(r, "headscale")
      <4>1. req[r] \in Handler
        BY <1>1 DEF TypeOK
      <4>2. [req[r] EXCEPT !.blame = @ \cup {"headscale"}] = req[r]
        BY <3>1, <4>1 DEF Handler
      <4> QED BY <1>1, <2>3, <4>1, <4>2 DEF Blame, TypeOK
    <3> QED BY <1>1, <1>2, <2>3, <3>2, FailGood DEF MoveOK, TypeOK
  <2>4. CASE RemoteFails(r)
    BY <1>1, <1>2, <2>4, RemoteFailsGood
  <2> QED BY <2>1, <2>2, <2>3, <2>4 DEF LookForUser
<1> QED BY <1>1, <1>3 DEF TypeOK, MoveOK

LEMMA CreateUserGood ==
    ASSUME IInv, NEW r \in Requests, CreateUser(r)
    PROVE  TypeOK' /\ Good(r)' /\ Frame(r)
<1> DEFINE u == UserOf[req[r].tenant]
<1>1. /\ TypeOK /\ Good(r) /\ pc[r] = "create"
      /\ UNCHANGED <<rows, nodes, joins, calm, scope, lock>>
  BY DEF IInv, CreateUser, Keep
<1>2. req[r].op = "claim" /\ pc[r] \in Remote /\ u \in Users
  BY <1>1 DEF Good, Path, Caller, Remote, Users, Ended
<1>3. MoveOK(r) /\ users' \subseteq Users
  <2>1. CASE /\ users' = users \cup {u} /\ Goto(r, "remote")
             /\ UNCHANGED <<req, faults>>
    BY <1>1, <1>2, <2>1, OnwardGood DEF MoveOK, TypeOK
  <2>2. CASE /\ u \in users /\ Goto(r, "again")
             /\ UNCHANGED <<users, req, faults>>
    BY <1>1, <1>2, <2>2, OnwardGood DEF MoveOK, TypeOK
  <2>3. CASE /\ Fault("headscale") /\ Blame(r, "headscale")
             /\ Goto(r, "again") /\ UNCHANGED users
    BY <1>1, <1>2, <2>3, OnwardGood DEF MoveOK, TypeOK, Fault
  <2>4. CASE /\ Fault("lostAck") /\ Blame(r, "headscale")
             /\ Goto(r, "again") /\ users' = users \cup {u}
    BY <1>1, <1>2, <2>4, OnwardGood DEF MoveOK, TypeOK, Fault
  <2> QED BY <2>1, <2>2, <2>3, <2>4 DEF CreateUser
<1> QED BY <1>1, <1>3 DEF TypeOK, MoveOK

LEMMA RemoteCallsGood ==
    ASSUME IInv, NEW r \in Requests, RemoteCalls(r)
    PROVE  TypeOK' /\ Good(r)' /\ Frame(r)
<1>1. /\ TypeOK /\ Good(r) /\ pc[r] = "remote" /\ pc[r] \in Remote
      /\ UNCHANGED <<rows, users, joins>>
  BY DEF IInv, RemoteCalls, Remote
<1>2. MoveOK(r)
  <2>1. CASE Goto(r, "commit") /\ Keep /\ UNCHANGED <<req, faults>>
    BY <1>1, <2>1, OnwardGood DEF Keep, MoveOK, TypeOK
  <2>2. CASE RemoteFails(r)
    BY <1>1, <2>2, RemoteFailsGood
  <2> QED BY <2>1, <2>2 DEF RemoteCalls
<1>3. nodes' \in [Devices -> NodeIds] /\ calm' \subseteq Requests
  BY <1>1, ServingAssumption DEF RemoteCalls, TypeOK, NodeIds
<1> QED BY <1>1, <1>2, <1>3 DEF TypeOK, MoveOK

LEMMA CommitGood ==
    ASSUME IInv, NEW r \in Requests, Commit(r)
    PROVE  TypeOK' /\ Good(r)' /\ Frame(r)
<1> DEFINE d == req[r].dev
           state == IF req[r].op = "claim" THEN "CLAIMED" ELSE "REVOKED"
<1>1. /\ TypeOK /\ Good(r) /\ pc[r] = "commit" /\ Goto(r, "ok") /\ Release(r)
      /\ rows' = [rows EXCEPT ![d].state = state]
      /\ UNCHANGED <<users, nodes, joins, req, calm, faults>>
  BY DEF IInv, Commit, headscale
<1>2. rows' \in [Devices -> Row]
  <2>1. \A e \in Devices : [rows[e] EXCEPT !.state = state] \in Row
    BY <1>1 DEF TypeOK, Row
  <2>2. d \in Devices
    BY <1>1 DEF Good, Path, Caller, Holding, Ended
  <2> DEFINE row == [rows[d] EXCEPT !.state = state]
  <2>3. rows' = [rows EXCEPT ![d] = row]
    BY <1>1
  <2>4. row \in Row
    BY <2>1, <2>2
  <2> HIDE DEF row
  <2> QED BY <1>1, <2>3, <2>4 DEF TypeOK
<1>3. /\ pc' \in [Requests -> Labels]
      /\ scope' \in [Requests -> Tenants \cup {Platform, None}]
      /\ lock' \in [Devices -> Requests \cup {None}]
      /\ Good(r)' /\ Frame(r)
  BY <1>1, LeaveGood DEF Outer, Inside, Holding
<1> QED BY <1>1, <1>2, <1>3 DEF TypeOK

-----------------------------------------------------------------------------
\* Every step of a request keeps the invariant.
LEMMA StepGood ==
    ASSUME IInv, NEW r \in Requests, Step(r) \/ StatementFails(r)
    PROVE  IInv'
<1>1. TypeOK' /\ Good(r)' /\ Frame(r)
  BY BeginGood, OpenGood, ReadRowsGood, ReadEventsGood, AskGood, PersistGood,
     SaveGood, AnswerGood, LockGood, LogRejectionGood, LookForUserGood,
     CreateUserGood, RemoteCallsGood, CommitGood, StatementFailsGood DEF Step
<1>2. ASSUME NEW q \in Requests PROVE Good(q)'
  BY <1>1, Others
<1> QED BY <1>1, <1>2 DEF IInv

\* Nodes come and go without the backend.
LEMMA OutsideGood ==
    ASSUME IInv, NEW d \in Devices, Join(d) \/ Leave(d)
    PROVE  IInv'
<1>1. TypeOK
  BY DEF IInv
<1>2. nodes' \in [Devices -> NodeIds] /\ joins' \in NodeIds /\ calm' = {}
  BY <1>1, ServingAssumption DEF TypeOK, Join, Leave, NodeIds
<1>3. UNCHANGED <<rows, lock, users, scope, pc, req, faults>>
  BY DEF Join, Leave
<1>4. TypeOK'
  BY <1>1, <1>2, <1>3 DEF TypeOK
<1>5. \A q \in Requests : Good(q)'
  BY <1>3 DEF IInv, Good, Path, Caller, Scoped, Own, Permitted, Caused
<1> QED BY <1>4, <1>5 DEF IInv

LEMMA InitGood == Init => IInv
<1> SUFFICES ASSUME Init PROVE IInv
  OBVIOUS
<1>1. TypeOK
  <2>1. /\ rows \in [Devices -> Row]
        /\ nodes \in [Devices -> NodeIds] /\ joins \in NodeIds
    BY ServingAssumption DEF Init, NodeIds
  <2>2. users \subseteq Users
    BY Shapes DEF Init, Users
  <2>3. req \in [Requests -> Handler]
    BY BlankTypes DEF Init
  <2> QED BY <2>1, <2>2, <2>3 DEF Init, TypeOK, Labels
<1>2. ASSUME NEW r \in Requests PROVE Good(r)
  <2>1. /\ pc[r] = "idle" /\ scope[r] = None
        /\ \A d \in Devices : lock[d] # r /\ req[r].rows[d] = NoRow
    BY Shapes DEF Init, Blank
  <2> QED BY <2>1 DEF Good, Path, Caller, Scoped, Own, Caused, Reconciling,
                      Inside, Holding, Remote
<1> QED BY <1>1, <1>2 DEF IInv

LEMMA NextGood == IInv /\ [Next]_vars => IInv'
<1> SUFFICES ASSUME IInv, [Next]_vars PROVE IInv'
  OBVIOUS
<1>1. CASE UNCHANGED vars
  BY <1>1 DEF vars, IInv, TypeOK, Good, Path, Caller, Scoped, Own, Permitted,
              Caused
<1>2. CASE Next
  BY <1>2, StepGood, OutsideGood DEF Next
<1> QED BY <1>1, <1>2

\* The inductive invariant.
THEOREM Inductive == Spec => []IInv
BY InitGood, NextGood, PTL DEF Spec

\* Types.
THEOREM ServingTypes == Spec => []TypeOK
<1>1. IInv => TypeOK
  BY DEF IInv
<1> QED BY <1>1, Inductive, PTL

\* Whoever waits for a connection has none and keeps no row locked, for any
\* size of the pool: _reject and reconcile_node open their transaction after
\* the first one has ended.
THEOREM NoHoldAndWait == Spec => []HoldAndWaitFree
<1>1. IInv => HoldAndWaitFree
  BY Shapes DEF IInv, Good, Scoped, Own, HoldAndWaitFree
<1> QED BY <1>1, Inductive, PTL

\* Who has a row is in its remote calls or about to commit, and waits for
\* nothing.
LEMMA HolderWorks ==
    ASSUME IInv, NEW d \in Devices, lock[d] # None
    PROVE  \E r \in Requests :
              AtWork(r) /\ ~ WaitsForConnection(r) /\ ~ WaitsForRow(r)
<1>1. lock[d] \in Requests
  BY DEF IInv, TypeOK
<1>2. pc[lock[d]] \in Holding
  BY <1>1 DEF IInv, Good, Own
<1> QED BY <1>1, <1>2
        DEF AtWork, WaitsForConnection, WaitsForRow, Holding, Remote, Waiting,
            Ended

\* The waiting for connections and rows has no circle, for any number of
\* requests and any size of the pool: a full pool has somebody in it, who is
\* in a transaction and waits for a row at most, and who has the row waits for
\* nothing.
THEOREM NeverStuckHolds == Spec => []NeverStuck
<1> DEFINE Goes(r) == AtWork(r) /\ ~ WaitsForConnection(r) /\ ~ WaitsForRow(r)
<1>1. IInv => NeverStuck
  <2> SUFFICES ASSUME IInv, NEW r \in Requests, AtWork(r)
               PROVE  \E q \in Requests : Goes(q)
    BY DEF NeverStuck
  <2>1. ASSUME NEW q \in Requests, pc[q] \notin Waiting, AtWork(q)
        PROVE  \E h \in Requests : Goes(h)
    <3>1. CASE WaitsForRow(q)
      <4>1. req[q].dev \in Devices
        BY <2>1, <3>1 DEF IInv, Good, Path, Caller, WaitsForRow, Reconciling,
           Holding, Ended
      <4> QED BY <3>1, <4>1, HolderWorks DEF WaitsForRow
    <3>2. CASE ~ WaitsForRow(q)
      BY <2>1, <3>2 DEF WaitsForConnection
    <3> QED BY <3>1, <3>2
  <2>2. CASE pc[r] \notin Waiting
    BY <2>1, <2>2
  <2>3. CASE WaitsForConnection(r)
    <3>1. {q \in Requests : scope[q] # None} # {}
      BY <2>3, FS_EmptySet, ServingAssumption DEF WaitsForConnection
    <3>2. PICK q \in Requests : scope[q] # None
      BY <3>1
    <3>3. pc[q] \in Inside
      BY <3>2 DEF IInv, Good, Scoped
    <3>4. pc[q] \notin Waiting /\ AtWork(q)
      BY <3>3 DEF Waiting, AtWork, Inside, Holding, Remote, Ended
    <3> QED BY <2>1, <3>4
  <2>4. CASE pc[r] \in Waiting /\ ~ WaitsForConnection(r)
    BY <2>4 DEF WaitsForRow, Waiting
  <2> QED BY <2>2, <2>3, <2>4
<1> QED BY <1>1, Inductive, PTL

\* No request sees or locks a row of another organisation, except a
\* PlatformAdmin's list and the lookup of other services.
THEOREM RowsAreOwn == Spec => []OwnRows
<1>1. IInv => OwnRows
  <2> SUFFICES ASSUME IInv, NEW r \in Requests, NEW d \in Devices,
                      req[r].rows[d] # NoRow \/ lock[d] = r
               PROVE  Permitted(r, d)
    BY DEF OwnRows, Permitted
  <2>1. Good(r)
    BY DEF IInv
  <2>2. CASE req[r].rows[d] # NoRow
    BY <2>1, <2>2 DEF Good, Own
  <2>3. CASE lock[d] = r
    <3>1. pc[r] \in Holding /\ TenantOf[d] = req[r].tenant
      BY <2>1, <2>3 DEF Good, Own
    <3>2. req[r].role # "none"
      BY <2>1, <3>1
      DEF Good, Path, Caller, Allowed, Holding, Remote, Ended
    <3> QED BY <3>1, <3>2 DEF Permitted
  <2> QED BY <2>2, <2>3
<1> QED BY <1>1, Inductive, PTL

\* A failure always has a cause; a read does not fail for Headscale, nor a
\* claim for having lost the race for the Headscale user.
THEOREM FailuresHaveCauses == Spec => []FailuresExplained
<1>1. IInv => FailuresExplained
  BY DEF IInv, Good, Caused, FailuresExplained
<1> QED BY <1>1, Inductive, PTL

-----------------------------------------------------------------------------
(* What the reading routes answer.                                          *)

\* As long as it is calm, what a request has read of a device that is on the
\* tailnet is still so.
Fresh(r) ==
    r \in calm =>
        \A d \in Devices :
            req[r].rows[d].state = "CLAIMED" =>
                /\ rows[d].node = req[r].rows[d].node
                /\ req[r].asked[User(d)] = "yes" =>
                      req[r].listing[d] = nodes[d]

\* Nothing is asked before the rows are read; everything has been asked, and
\* saved, before the answer.
Told(r) ==
    /\ pc[r] \in {"open", "read"} => \A u \in Users : req[r].asked[u] = "no"
    /\ pc[r] = "ok" /\ req[r].op \in {"list", "listAll", "get"} =>
          /\ Unsaved(r) = {}
          /\ \A d \in OnTailnet(r) : req[r].asked[User(d)] # "no"

RInv == IInv /\ \A r \in Requests : Fresh(r) /\ Told(r)

\* What was fresh stays so while rows, nodes and handler keep what it is about.
LEMMA FreshKept ==
    ASSUME NEW q \in Requests, Fresh(q),
           req'[q].rows = req[q].rows, req'[q].asked = req[q].asked,
           req'[q].listing = req[q].listing,
           q \in calm' => /\ q \in calm /\ nodes' = nodes
                          /\ \A d \in Devices : rows'[d].node = rows[d].node
    PROVE  Fresh(q)'
BY DEF Fresh, User

\* A request that ends, or goes on elsewhere, has told nothing.
LEMMA ToldElsewhere ==
    ASSUME NEW q \in Requests, pc'[q] \notin {"open", "read"},
           pc'[q] # "ok" \/ req'[q].op \notin {"list", "listAll", "get"}
    PROVE  Told(q)'
BY DEF Told

\* A step of one request leaves what the others have told.
LEMMA ToldOthers ==
    ASSUME NEW r \in Requests, NEW q \in Requests, q # r, Frame(r), Told(q)
    PROVE  Told(q)'
BY DEF Frame, Told, Unsaved, OnTailnet, User

\* Steps that neither read, ask nor write a node: the handler keeps its
\* tables, and whoever is calm afterwards was so before.
Aside(r) ==
    \/ Open(r) \/ ReadEvents(r) \/ Persist(r) \/ Answer(r) \/ Lock(r)
    \/ LogRejection(r) \/ LookForUser(r) \/ CreateUser(r) \/ RemoteCalls(r)
    \/ Commit(r) \/ StatementFails(r)

LEMMA TablesKept ==
    ASSUME TypeOK, NEW r \in Requests,
           \/ req' = req
           \/ Blame(r, "headscale") \/ Blame(r, "db")
           \/ \E d \in Devices : req' = [req EXCEPT ![r].dev = d],
           NEW q \in Requests
    PROVE  /\ req'[q].rows = req[q].rows /\ req'[q].asked = req[q].asked
           /\ req'[q].listing = req[q].listing /\ req'[q].op = req[q].op
<1>1. req[q] \in Handler /\ req[r] \in Handler
  BY DEF TypeOK
<1>2. CASE Blame(r, "headscale")
  BY <1>1, <1>2 DEF TypeOK, Blame, Handler
<1>3. CASE Blame(r, "db")
  BY <1>1, <1>3 DEF TypeOK, Blame, Handler
<1>4. CASE \E d \in Devices : req' = [req EXCEPT ![r].dev = d]
  BY <1>1, <1>4 DEF TypeOK, Handler
<1> QED BY <1>2, <1>3, <1>4

LEMMA AsideFresh ==
    ASSUME RInv, NEW r \in Requests, Aside(r), NEW q \in Requests
    PROVE  Fresh(q)'
<1>1. TypeOK /\ Fresh(q)
  BY DEF RInv, IInv
<1>2. \/ req' = req
      \/ Blame(r, "headscale") \/ Blame(r, "db")
      \/ \E d \in Devices : req' = [req EXCEPT ![r].dev = d]
  BY DEF Aside, Open, ReadEvents, Persist, Unsaved, OnTailnet, Answer, Lock,
         LogRejection, LookForUser, CreateUser, RemoteCalls, Commit,
         StatementFails, RemoteFails
<1>3. q \in calm' => /\ q \in calm /\ nodes' = nodes
                     /\ \A d \in Devices : rows'[d].node = rows[d].node
  <2>1. CASE Commit(r)
    <3>1. UNCHANGED <<nodes, calm>>
      BY <2>1 DEF Commit, headscale
    <3>2. ASSUME NEW d \in Devices PROVE rows'[d].node = rows[d].node
      BY <1>1, <2>1 DEF Commit, TypeOK, Row
    <3> QED BY <3>1, <3>2
  <2>2. CASE RemoteCalls(r)
    BY <2>2 DEF RemoteCalls
  <2>3. CASE Aside(r) /\ ~ Commit(r) /\ ~ RemoteCalls(r)
    BY <2>3 DEF Aside, Open, ReadEvents, Persist, Answer, Lock, LogRejection,
                LookForUser, CreateUser, StatementFails, headscale
  <2> QED BY <2>1, <2>2, <2>3
<1> QED BY <1>1, <1>2, <1>3, TablesKept, FreshKept

LEMMA AsideTold ==
    ASSUME RInv, NEW r \in Requests, Aside(r), IInv'
    PROVE  Told(r)'
<1>1. TypeOK /\ TypeOK' /\ Good(r) /\ Told(r)
  BY DEF RInv, IInv
<1>2. req'[r].op = req[r].op
  BY <1>1, TablesKept
  DEF Aside, Open, ReadEvents, Persist, Unsaved, OnTailnet, Answer, Lock,
      LogRejection, LookForUser, CreateUser, RemoteCalls, Commit,
      StatementFails, RemoteFails
<1>3. CASE Answer(r)
  BY <1>1, <1>3 DEF Answer, Goto, TypeOK, Told, Unsaved, OnTailnet, User
<1>4. CASE Open(r)
  <2>1. UNCHANGED req /\ pc'[r] = FirstLabel(r) /\ pc[r] \in Waiting
    BY <1>1, <1>4 DEF Open, Goto, TypeOK
  <2>2. FirstLabel(r) # "ok" /\ FirstLabel(r) # "open"
        /\ (FirstLabel(r) = "read" => pc[r] = "open")
    BY <2>1 DEF FirstLabel, Waiting
  <2> QED BY <1>1, <2>1, <2>2 DEF Told
<1>5. CASE Aside(r) /\ ~ Answer(r) /\ ~ Open(r)
  <2>1. \/ pc'[r] \notin {"open", "read", "ok"}
        \/ pc'[r] = "ok" /\ req[r].op \in {"events", "claim", "revoke"}
    <3>1. CASE ReadEvents(r)
      BY <1>1, <3>1 DEF ReadEvents, Goto, TypeOK, Good, Path
    <3>2. CASE Commit(r)
      BY <1>1, <3>2 DEF Commit, Goto, TypeOK, Good, Path, Holding
    <3>3. CASE Lock(r)
      <4>1. Judged(r) \subseteq {"user", "commit", "remote", "openReject",
                                 "refused"}
        <5>1. req[r].op \in {"claim", "revoke"} /\ req[r].dev \in Devices
          BY <1>1, <3>3 DEF Lock, Good, Path, Caller, Ended
        <5>2. rows[req[r].dev].state \in {"PENDING", "CLAIMED", "REVOKED"}
          BY <1>1, <5>1 DEF TypeOK, Row
        <5> QED BY <5>1, <5>2 DEF Judged
      <4> QED BY <1>1, <3>3, <4>1 DEF Lock, Goto, TypeOK
    <3>4. CASE Persist(r) \/ LogRejection(r) \/ LookForUser(r)
               \/ CreateUser(r) \/ RemoteCalls(r) \/ StatementFails(r)
      BY <1>1, <3>4 DEF Persist, LogRejection, LookForUser, CreateUser,
                        RemoteCalls, StatementFails, RemoteFails, Fail, Goto,
                        TypeOK
    <3> QED BY <1>5, <3>1, <3>2, <3>3, <3>4 DEF Aside
  <2> QED BY <1>2, <2>1, ToldElsewhere
<1> QED BY <1>3, <1>4, <1>5

\* A new request knows nothing.
LEMMA BeginFresh ==
    ASSUME RInv, NEW r \in Requests, Begin(r)
    PROVE  Told(r)' /\ \A q \in Requests : Fresh(q)'
<1>1. /\ TypeOK /\ UNCHANGED <<rows, nodes>>
      /\ calm' \subseteq calm \cup {r}
      /\ \A q \in Requests : Fresh(q)
  BY DEF RInv, IInv, Begin, headscale
<1>2. PICK c \in Calls[r] :
          /\ Goto(r, Entry(c))
          /\ req' = [req EXCEPT ![r] =
                [Blank EXCEPT !.op = c.op, !.tenant = c.tenant,
                     !.role = c.role, !.dev = c.dev,
                     !.blame = IF Entry(c) = "failed" THEN {"scope"} ELSE {}]]
  BY DEF Begin
<1>3. /\ req'[r].rows = [d \in Devices |-> NoRow]
      /\ req'[r].asked = [u \in Users |-> "no"]
      /\ \A q \in Requests \ {r} : req'[q] = req[q]
  BY <1>1, <1>2 DEF TypeOK, Blank
<1>4. pc'[r] \in {"open", "refused", "failed"}
  BY <1>1, <1>2, LabelTypes, ServingAssumption DEF TypeOK, Goto
<1>5. Told(r)'
  BY <1>3, <1>4 DEF Told
<1>6. Fresh(r)'
  BY <1>3 DEF Fresh, NoRow
<1>7. ASSUME NEW q \in Requests \ {r} PROVE Fresh(q)'
  BY <1>1, <1>3, FreshKept
<1> QED BY <1>5, <1>6, <1>7

\* The rows as they are, before anything is asked.
LEMMA ReadFresh ==
    ASSUME RInv, NEW r \in Requests, ReadRows(r)
    PROVE  Told(r)' /\ \A q \in Requests : Fresh(q)'
<1> DEFINE seen == {d \in Wanted(r) : Visible(scope[r], d)}
           read == [d \in Devices |-> IF d \in seen THEN rows[d] ELSE NoRow]
           x == [req[r] EXCEPT !.rows = read]
<1>1. /\ TypeOK /\ Good(r) /\ pc[r] = "read" /\ req[r] \in Handler
      /\ UNCHANGED <<rows, nodes, calm>>
      /\ req' = [req EXCEPT ![r].rows = read]
      /\ Told(r) /\ \A q \in Requests : Fresh(q)
  BY DEF RInv, IInv, TypeOK, ReadRows, headscale
<1>2. /\ x.rows = read /\ x.asked = req[r].asked /\ x.op = req[r].op
  BY <1>1 DEF Handler
<1>3. req'[r] = x /\ \A q \in Requests \ {r} : req'[q] = req[q]
  <2> HIDE DEF read
  <2> QED BY <1>1 DEF TypeOK, Handler
<1>4. \A d \in Devices : req'[r].asked[User(d)] = "no"
  BY <1>1, <1>2, <1>3, Shapes DEF Told, User, Users
<1>5. Fresh(r)'
  <2>1. ASSUME NEW d \in Devices, read[d].state = "CLAIMED"
        PROVE  read[d] = rows[d]
    BY <2>1 DEF NoRow
  <2> QED BY <1>1, <1>2, <1>3, <1>4, <2>1 DEF Fresh, User
<1>6. ASSUME NEW q \in Requests \ {r} PROVE Fresh(q)'
  BY <1>1, <1>3, FreshKept
<1>7. Told(r)'
  <2>1. PICK label \in AfterRead(r, seen) : Goto(r, label)
    BY DEF ReadRows
  <2>2. /\ label \notin {"open", "read"}
        /\ label = "ok" => req[r].op \notin {"list", "listAll", "get"}
    BY DEF AfterRead
  <2> QED BY <1>1, <1>2, <1>3, <2>1, <2>2, ToldElsewhere DEF TypeOK, Goto
<1> QED BY <1>5, <1>6, <1>7

\* The listing as it is.
LEMMA AskFresh ==
    ASSUME RInv, NEW r \in Requests, Ask(r)
    PROVE  Told(r)' /\ \A q \in Requests : Fresh(q)'
<1>1. /\ TypeOK /\ pc[r] = "each" /\ req[r] \in Handler
      /\ UNCHANGED <<rows, nodes, pc, calm>>
      /\ \A q \in Requests : Fresh(q)
  BY DEF RInv, IInv, TypeOK, Ask, headscale
<1>2. Told(r)'
  BY <1>1, ToldElsewhere
<1>3. PICK u \in {User(d) : d \in OnTailnet(r)} :
          \/ req' = [req EXCEPT ![r].asked[u] = "yes",
                                ![r].listing = Listed(r, u)]
          \/ req' = [req EXCEPT ![r] = Unanswered(r, u)]
  BY DEF Ask
<1>4. u \in Users
  BY Shapes DEF User, Users, OnTailnet
<1>5. \A q \in Requests \ {r} : req'[q] = req[q]
  BY <1>1, <1>3 DEF TypeOK
<1>6. ASSUME NEW q \in Requests \ {r} PROVE Fresh(q)'
  BY <1>1, <1>5, FreshKept
<1>7. Fresh(r)'
  <2>1. CASE req' = [req EXCEPT ![r].asked[u] = "yes",
                                ![r].listing = Listed(r, u)]
    <3>1. /\ req'[r].rows = req[r].rows
          /\ req'[r].listing = Listed(r, u)
          /\ \A v \in Users : v # u => req'[r].asked[v] = req[r].asked[v]
      BY <1>1, <1>4, <2>1 DEF TypeOK, Handler
    <3>2. \A d \in Devices : User(d) \in Users
      BY Shapes DEF User, Users
    <3> QED BY <1>1, <3>1, <3>2 DEF Fresh, Listed, OnTailnet, User
  <2>2. CASE req' = [req EXCEPT ![r] = Unanswered(r, u)]
    <3>1. /\ req'[r].rows = req[r].rows /\ req'[r].listing = req[r].listing
          /\ \A v \in Users : req'[r].asked[v] = "yes" =>
                                 req[r].asked[v] = "yes"
      BY <1>1, <1>4, <2>2 DEF Unanswered, TypeOK, Handler
    <3>2. \A d \in Devices : User(d) \in Users
      BY Shapes DEF User, Users
    <3> QED BY <1>1, <3>1, <3>2 DEF Fresh, User
  <2> QED BY <1>3, <2>1, <2>2
<1> QED BY <1>2, <1>6, <1>7

\* The row as it was written; nobody else is calm after that.
LEMMA SaveFresh ==
    ASSUME RInv, NEW r \in Requests, Save(r)
    PROVE  Told(r)' /\ \A q \in Requests : Fresh(q)'
<1> DEFINE d == req[r].dev
           row == [rows[d] EXCEPT !.node = req[r].listing[d]]
<1>1. /\ TypeOK /\ Good(r) /\ pc[r] = "save" /\ req[r] \in Handler
      /\ UNCHANGED nodes /\ Fresh(r)
  BY DEF RInv, IInv, TypeOK, Save, headscale
<1>2. /\ d \in Devices /\ req[r].rows[d].state = "CLAIMED"
      /\ Visible(scope[r], d)
  BY <1>1 DEF Good, Caller, Scoped, Visible, Ended
<1>3. /\ rows' = [rows EXCEPT ![d] = row]
      /\ req' = [req EXCEPT ![r].rows[d] = row]
      /\ calm' = calm \cap {r} /\ Goto(r, "each")
  BY <1>2 DEF Save
<1> DEFINE x == [req[r] EXCEPT !.rows = [@ EXCEPT ![d] = row]]
<1> HIDE DEF row
<1>4. /\ x.asked = req[r].asked /\ x.listing = req[r].listing
      /\ x.rows = [req[r].rows EXCEPT ![d] = row]
  BY <1>1 DEF Handler
<1>5. req'[r] = x
  BY <1>1, <1>2, <1>3 DEF TypeOK, Handler
<1>6. Told(r)'
  BY <1>1, <1>3, ToldElsewhere DEF TypeOK, Goto
<1>7. ASSUME NEW q \in Requests, q # r PROVE Fresh(q)'
  BY <1>3, <1>7 DEF Fresh
<1>8. Fresh(r)'
  <2> SUFFICES ASSUME r \in calm, NEW e \in Devices,
                      x.rows[e].state = "CLAIMED"
               PROVE  /\ rows'[e].node = x.rows[e].node
                      /\ x.asked[User(e)] = "yes" => x.listing[e] = nodes[e]
    BY <1>1, <1>3, <1>5 DEF Fresh, User
  <2> HIDE DEF x
  <2>1. CASE e = d
    <3>1. rows'[e] = row /\ x.rows[e] = row
      BY <1>1, <1>2, <1>3, <1>4, <2>1 DEF TypeOK, Handler
    <3> QED BY <1>1, <1>2, <1>4, <2>1, <3>1 DEF Fresh
  <2>2. CASE e # d
    <3>1. rows'[e] = rows[e] /\ x.rows[e] = req[r].rows[e]
      BY <1>1, <1>2, <1>3, <1>4, <2>2 DEF TypeOK, Handler
    <3> QED BY <1>1, <1>4, <3>1 DEF Fresh
  <2> QED BY <2>1, <2>2
<1> QED BY <1>6, <1>7, <1>8

LEMMA ReadsInit == Init => RInv
<1> SUFFICES ASSUME Init PROVE RInv
  OBVIOUS
<1>1. ASSUME NEW r \in Requests PROVE Fresh(r) /\ Told(r)
  BY DEF Init, Fresh, Told
<1> QED BY <1>1, InitGood DEF RInv

LEMMA ReadsNext == RInv /\ [Next]_vars => RInv'
<1> SUFFICES ASSUME RInv, [Next]_vars PROVE RInv'
  OBVIOUS
<1>1. IInv /\ IInv'
  BY NextGood DEF RInv
<1>2. ASSUME NEW r \in Requests, Step(r) \/ StatementFails(r)
      PROVE  RInv'
  <2>1. Frame(r)
    BY <1>1, <1>2, BeginGood, OpenGood, ReadRowsGood, ReadEventsGood, AskGood,
       PersistGood, SaveGood, AnswerGood, LockGood, LogRejectionGood,
       LookForUserGood, CreateUserGood, RemoteCallsGood, CommitGood,
       StatementFailsGood DEF Step
  <2>2. Aside(r) \/ Begin(r) \/ ReadRows(r) \/ Ask(r) \/ Save(r)
    BY <1>2 DEF Step, Aside
  <2>3. Told(r)' /\ \A q \in Requests : Fresh(q)'
    BY <1>1, <2>2, AsideFresh, AsideTold, BeginFresh, ReadFresh, AskFresh,
       SaveFresh
  <2>4. ASSUME NEW q \in Requests, q # r PROVE Told(q)'
    BY <2>1, <2>4, ToldOthers DEF RInv
  <2> QED BY <1>1, <2>3, <2>4 DEF RInv
<1>3. ASSUME NEW d \in Devices, Join(d) \/ Leave(d) PROVE RInv'
  <2>1. calm' = {} /\ UNCHANGED <<pc, req>>
    BY <1>3 DEF Join, Leave
  <2>2. ASSUME NEW q \in Requests PROVE Fresh(q)' /\ Told(q)'
    BY <2>1 DEF RInv, Fresh, Told, Unsaved, OnTailnet, User
  <2> QED BY <1>1, <2>2 DEF RInv
<1>4. CASE UNCHANGED vars
  <2>1. ASSUME NEW q \in Requests PROVE Fresh(q)' /\ Told(q)'
    BY <1>4 DEF vars, RInv, Fresh, Told, Unsaved, OnTailnet, User
  <2> QED BY <1>1, <2>1 DEF RInv
<1> QED BY <1>2, <1>3, <1>4 DEF Next

\* A read that nobody disturbs tells the truth: the node it shows is the one
\* in Headscale, none is shown only if there is none or the state is called
\* unknown, and the row has the node afterwards.
THEOREM ReadsTellTruth == Spec => []ReadTells
<1>1. RInv => ReadTells
  <2> SUFFICES ASSUME RInv, NEW r \in calm, NEW d \in Devices,
                      pc[r] = "ok", req[r].op \in {"list", "listAll", "get"},
                      req[r].rows[d].state = "CLAIMED",
                      req[r].asked[User(d)] # "failed"
               PROVE  /\ req[r].listing[d] = nodes[d]
                      /\ nodes[d] # 0 => rows[d].node = nodes[d]
    BY DEF ReadTells
  <2>1. /\ r \in Requests /\ req[r] \in Handler /\ Fresh(r) /\ Told(r)
    BY DEF RInv, IInv, TypeOK
  <2>2. User(d) \in Users /\ d \in OnTailnet(r)
    BY Shapes DEF User, Users, OnTailnet
  <2>3. req[r].asked[User(d)] = "yes"
    <3>1. req[r].asked[User(d)] \in {"no", "yes", "failed"}
      BY <2>1, <2>2 DEF Handler
    <3> QED BY <2>1, <2>2, <3>1 DEF Told
  <2>4. /\ rows[d].node = req[r].rows[d].node
        /\ req[r].listing[d] = nodes[d]
    BY <2>1, <2>3 DEF Fresh
  <2>5. req[r].listing[d] \in {0, req[r].rows[d].node}
    BY <2>1, <2>2 DEF Told, Unsaved
  <2> QED BY <2>4, <2>5
<1> QED BY <1>1, ReadsInit, ReadsNext, PTL DEF Spec
=============================================================================
