------------------------- MODULE ProvisioningProofs -------------------------
(***************************************************************************)
(* The types of Provisioning, with one lemma for each piece a step is      *)
(* built from, and then its safety, from the inductive invariant IInv.     *)
(*                                                                         *)
(* The argument: a locked row is the row its handler read (LockedRow); a   *)
(* handler gets past expire_unused_key only with the recorded key dead     *)
(* (OldKeyDead); so when a commit replaces the recorded key or revokes the *)
(* device, no other live key is out, and every live key that is out is the *)
(* one in its device's row (LiveKeyOnRow).  There is one lemma for each    *)
(* conjunct of IInv, with one case for each group of actions.              *)
(***************************************************************************)
EXTENDS ProvisioningProperties, TLAPS

\* The program points of the handlers are labels.
LEMMA LabelTypes ==
    /\ Ended \subseteq Labels /\ InTransaction \subseteq Labels
    /\ {"idle", "locking", "read", "save", "reject", "undoKey",
        "undoTwin", "respond"} \subseteq Labels
BY DEF Labels

\* A step to a label keeps pc well typed.
LEMMA GotoTypes ==
    ASSUME TypeOK, NEW r \in Requests, NEW label \in Labels, Goto(r, label)
    PROVE  pc' \in [Requests -> Labels]
BY DEF TypeOK, Goto

\* So does an exception, which also gives the row lock back.
LEMMA RaiseTypes ==
    ASSUME TypeOK, NEW r \in Requests, Raise(r)
    PROVE  /\ pc' \in [Requests -> Labels]
           /\ lock' \in [Devices -> SUBSET Requests]
<1>1. AfterFailure(r) \in Labels
  BY DEF AfterFailure, Labels, Ended
<1>2. pc' \in [Requests -> Labels]
  BY <1>1, GotoTypes DEF Raise
<1>3. QED
  BY <1>2 DEF TypeOK, Raise, Released

\* Counting a failure keeps the counter a number.
LEMMA CountedTypes ==
    ASSUME TypeOK, NEW outcome, Counted(outcome)
    PROVE  faults' \in Nat
BY DEF TypeOK, Counted

\* One field of a handler is assigned: the row it read ...
LEMMA HandlerRow ==
    ASSUME req \in [Requests -> Handler], NEW r \in Requests, NEW x \in Row
    PROVE  [req EXCEPT ![r].row = x] \in [Requests -> Handler]
BY DEF Handler

\* ... the node that _match_node found ...
LEMMA HandlerNode ==
    ASSUME req \in [Requests -> Handler], NEW r \in Requests,
           NEW x \in RequestOrNone
    PROVE  [req EXCEPT ![r].node = x] \in [Requests -> Handler]
BY DEF Handler

\* ... what it holds of the network.
LEMMA HandlerFlags ==
    ASSUME req \in [Requests -> Handler], NEW r \in Requests
    PROVE  /\ [req EXCEPT ![r].holds = TRUE] \in [Requests -> Handler]
           /\ [req EXCEPT ![r].twin = TRUE] \in [Requests -> Handler]
           /\ [req EXCEPT ![r].removed = TRUE] \in [Requests -> Handler]
BY DEF Handler

\* _match_node returns a node of the listing.
LEMMA MatchesTypes ==
    ASSUME NEW d, NEW row
    PROVE  Matches(d, row) \subseteq Requests
BY DEF Matches

\* The UPDATE statements of repo.py write rows.
LEMMA RowTypes ==
    ASSUME NEW x \in Row
    PROVE  /\ x.key \in RequestOrNone /\ x.node \in RequestOrNone
           /\ \A s \in {"NONE", "PENDING", "CLAIMED", "REVOKED"} :
                 [x EXCEPT !.state = s] \in Row
           /\ \A k \in RequestOrNone : [x EXCEPT !.key = k] \in Row
           /\ \A k \in RequestOrNone : [x EXCEPT !.node = k] \in Row
           /\ \A k \in RequestOrNone : [x EXCEPT !.state = "CLAIMED",
                                                !.key = k] \in Row
BY DEF Row

\* A node that is deleted, that joins or is renamed is still one.
LEMMA NodeTypes ==
    ASSUME TypeOK, NEW n
    PROVE  [nodes EXCEPT ![n].status = "deleted"] \in [Requests -> Node]
BY DEF TypeOK, Node

LEMMA NamedTypes ==
    ASSUME TypeOK, NEW n \in Requests, NEW names \in SUBSET Devices
    PROVE  /\ Named(n, names) \in Node
           /\ [Named(n, names) EXCEPT !.status = "up"] \in Node
           /\ [Named(n, names) EXCEPT !.status = "up"].status = "up"
           /\ Named(n, names).status = nodes[n].status
           /\ Named(n, names).bore = nodes[n].bore \cup names
           /\ [Named(n, names) EXCEPT !.status = "up"].bore
                = nodes[n].bore \cup names
           /\ Named(n, names).names = names
           /\ [Named(n, names) EXCEPT !.status = "up"].names = names
BY DEF TypeOK, Node, Named

\* SELECT ... FOR UPDATE, granted or turned down.
LEMMA LockTypes ==
    ASSUME TypeOK, NEW r \in Requests, pc[r] # "idle", NEW label \in Labels,
           Lock(r, label) \/ Turned(r, label)
    PROVE  /\ pc' \in [Requests -> Labels]
           /\ lock' \in [Devices -> SUBSET Requests]
           /\ req' \in [Requests -> Handler]
<1>1. pc' \in [Requests -> Labels]
  BY GotoTypes DEF Lock, Turned
<1>2. lock' \in [Devices -> SUBSET Requests]
  BY DEF Lock, Turned, TypeOK
<1>3. dev[req[r].dev] \in Row
  BY DEF TypeOK
<1>4. [req EXCEPT ![r].row = dev[req[r].dev]] \in [Requests -> Handler]
  BY <1>3, HandlerRow DEF TypeOK
<1>5. QED
  BY <1>1, <1>2, <1>4 DEF Lock, Turned, TypeOK

\* The end of a transaction, committed, failed or unanswered.
LEMMA CommitTypes ==
    ASSUME TypeOK, NEW r \in Requests, pc[r] # "idle",
           NEW fits, NEW row \in Row, NEW event \in Event,
           NEW label \in Labels,
           Commit(r, fits, row, event, label)
    PROVE  /\ dev' \in [Devices -> Row]
           /\ audit' \subseteq Event
           /\ lock' \in [Devices -> SUBSET Requests]
           /\ pc' \in [Requests -> Labels]
           /\ faults' \in Nat
<1>1. pc' \in [Requests -> Labels]
  BY GotoTypes, RaiseTypes DEF Commit
<1>2. lock' \in [Devices -> SUBSET Requests]
  BY RaiseTypes DEF Commit, TypeOK, Released
<1>3. faults' \in Nat
  BY CountedTypes DEF Commit, TypeOK
<1>4. dev' \in [Devices -> Row] /\ audit' \subseteq Event
  BY DEF Commit, Written, TypeOK
<1>5. QED
  BY <1>1, <1>2, <1>3, <1>4

\* A step is taken by a handler at work, and touches no other handler, nor
\* what its own was called for.
LEMMA StepFrame ==
    ASSUME TypeOK, NEW r \in Requests, Step(r)
    PROVE  /\ pc[r] \notin {"idle"} \cup Ended
           /\ \A q \in Requests \ {r} : pc'[q] = pc[q] /\ req'[q] = req[q]
           /\ req'[r].op = req[r].op /\ req'[r].dev = req[r].dev
<1>0. pc \in [Requests -> Labels] /\ req \in [Requests -> Handler]
  BY DEF TypeOK
<1> USE DEF Goto, Ended, Handler
<1>1. CASE ClaimLock(r) \/ ReissueLock(r) \/ RevokeLock(r)
  BY <1>0, <1>1 DEF ClaimLock, ReissueLock, RevokeLock, Lock, Turned, Free,
     OnTailnet
<1>2. CASE EnsureUser(r) \/ UpsertTwin(r) \/ MintKey(r)
  BY <1>0, <1>2 DEF EnsureUser, UpsertTwin, MintKey, Onward, Raise, Released,
     AfterFailure, Effective
<1>3. CASE ReissueNodes(r) \/ RevokeNodes(r) \/ DeleteNode(r)
  BY <1>0, <1>3 DEF ReissueNodes, RevokeNodes, DeleteNode, Onward, Raise,
     Refuse, Released, AfterFailure
<1>4. CASE ListKeys(r) \/ ExpireUnused(r) \/ PatchTwin(r)
  BY <1>0, <1>4 DEF ListKeys, ExpireUnused, PatchTwin, Onward, Raise,
     Released, AfterFailure, AfterKeys, Unused, Expired, Effective
<1>5. CASE ClaimCommit(r) \/ ReissueCommit(r) \/ RevokeCommit(r)
  BY <1>0, <1>5 DEF ClaimCommit, ReissueCommit, RevokeCommit, Commit,
     Written, Raise, Released, AfterFailure
<1>6. CASE Reject(r) \/ Respond(r) \/ UndoKey(r) \/ UndoTwin(r)
  BY <1>0, <1>6 DEF Reject, Saved, Respond, UndoKey, UndoTwin, Expired, Effective
<1>7. CASE ViewRead(r) \/ ViewNodes(r) \/ ViewSave(r)
  BY <1>0, <1>7 DEF ViewRead, ViewNodes, ViewSave, Saved, OnTailnet, Free
<1> QED BY <1>1, <1>2, <1>3, <1>4, <1>5, <1>6, <1>7 DEF Step

\* Every step of a handler keeps the type invariant.
LEMMA StepTypes ==
    ASSUME TypeOK, NEW r \in Requests, Step(r)
    PROVE  TypeOK'
<1> DEFINE d == req[r].dev
<1>a. /\ pc[r] # "idle" /\ d \in Devices
      /\ dev \in [Devices -> Row] /\ dev[d] \in Row
      /\ req \in [Requests -> Handler] /\ req[r] \in Handler
  BY StepFrame DEF TypeOK
<1>b. req[r].row \in Row /\ req[r].node \in RequestOrNone
  BY <1>a DEF Handler
<1>c. r \in RequestOrNone /\ None \in RequestOrNone
  BY DEF RequestOrNone
<1>d. \A n \in Requests : n \in RequestOrNone
  BY DEF RequestOrNone
<1>1. CASE ClaimLock(r)
  <2>1. /\ pc' \in [Requests -> Labels]
        /\ lock' \in [Devices -> SUBSET Requests]
        /\ req' \in [Requests -> Handler]
    BY <1>1, <1>a, LockTypes DEF ClaimLock, Labels, InTransaction, Ended
  <2> QED
    BY <1>1, <2>1, StepFrame DEF TypeOK, ClaimLock, network
<1>2. CASE ReissueLock(r)
  <2>1. /\ pc' \in [Requests -> Labels]
        /\ lock' \in [Devices -> SUBSET Requests]
        /\ req' \in [Requests -> Handler]
    BY <1>2, <1>a, LockTypes DEF ReissueLock, Labels, InTransaction, Ended
  <2> QED
    BY <1>2, <2>1, StepFrame DEF TypeOK, ReissueLock, network
<1>3. CASE RevokeLock(r)
  <2>1. /\ pc' \in [Requests -> Labels]
        /\ lock' \in [Devices -> SUBSET Requests]
        /\ req' \in [Requests -> Handler]
    BY <1>3, <1>a, LockTypes DEF RevokeLock, Labels, InTransaction, Ended
  <2> QED
    BY <1>3, <2>1, StepFrame DEF TypeOK, RevokeLock, network
<1>4. CASE Reject(r)
  <2>1. [action |-> "CLAIM_REJECTED", dev |-> d, req |-> r,
         about |-> None] \in Event
    BY <1>a, <1>b, <1>c DEF Event
  <2>3. pc' \in [Requests -> Labels]
    BY <1>4, GotoTypes DEF Reject, Saved, Labels, Ended
  <2>4. faults' \in Nat
    BY <1>4, CountedTypes DEF Reject, Saved
  <2> QED
    BY <1>4, <2>1, <2>3, <2>4, StepFrame DEF TypeOK, Reject, network
<1>5. CASE EnsureUser(r)
  <2>2. /\ pc' \in [Requests -> Labels]
        /\ lock' \in [Devices -> SUBSET Requests]
        /\ faults' \in Nat
    BY <1>5, <1>a, GotoTypes, RaiseTypes, CountedTypes DEF TypeOK,
       EnsureUser, Onward, Labels, InTransaction, Ended, registry
  <2> QED
    BY <1>5, <2>2, StepFrame DEF TypeOK, EnsureUser, registry, network
<1>6. CASE UpsertTwin(r)
  <2>1. req' \in [Requests -> Handler]
    BY <1>6, <1>a, HandlerFlags DEF UpsertTwin
  <2>2. /\ pc' \in [Requests -> Labels]
        /\ lock' \in [Devices -> SUBSET Requests]
        /\ faults' \in Nat
    BY <1>6, <1>a, GotoTypes, RaiseTypes, CountedTypes DEF TypeOK,
       UpsertTwin, Onward, Labels, InTransaction, Ended, registry
  <2> QED
    BY <1>6, <2>1, <2>2, StepFrame DEF TypeOK, UpsertTwin, registry, network
<1>7. CASE MintKey(r)
  <2>1. req' \in [Requests -> Handler]
    BY <1>7, <1>a, HandlerFlags DEF MintKey
  <2>2. /\ pc' \in [Requests -> Labels]
        /\ lock' \in [Devices -> SUBSET Requests]
        /\ faults' \in Nat
    BY <1>7, <1>a, GotoTypes, RaiseTypes, CountedTypes DEF TypeOK, MintKey,
       Onward, Labels, InTransaction, Ended, registry
  <2> QED
    BY <1>7, <2>1, <2>2, StepFrame DEF TypeOK, MintKey, registry, network
<1>8. CASE ReissueNodes(r)
  <2>2. /\ pc' \in [Requests -> Labels]
        /\ lock' \in [Devices -> SUBSET Requests]
        /\ faults' \in Nat
    BY <1>8, <1>a, GotoTypes, RaiseTypes, CountedTypes DEF TypeOK,
       ReissueNodes, Onward, Refuse, Released, Labels, InTransaction, Ended,
       registry
  <2> QED
    BY <1>8, <2>2, StepFrame DEF TypeOK, ReissueNodes, Refuse, Released,
       registry, network
<1>9. CASE RevokeNodes(r)
  <2>1. req' \in [Requests -> Handler]
    <3>1. CASE req' = req
      BY <1>a, <3>1
    <3>2. CASE \E n \in Requests : req' = [req EXCEPT ![r].node = n]
      BY <1>a, <1>d, <3>2, HandlerNode
    <3> QED
      BY <1>9, <3>1, <3>2, MatchesTypes DEF RevokeNodes
  <2>2. /\ pc' \in [Requests -> Labels]
        /\ lock' \in [Devices -> SUBSET Requests]
        /\ faults' \in Nat
    BY <1>9, <1>a, GotoTypes, RaiseTypes, CountedTypes DEF TypeOK,
       RevokeNodes, Onward, Matches, Labels, InTransaction, Ended, registry
  <2> QED
    BY <1>9, <2>1, <2>2, StepFrame DEF TypeOK, RevokeNodes, Matches,
       registry, network
<1>10. CASE DeleteNode(r)
  <2>1. req' \in [Requests -> Handler]
    BY <1>10, <1>a, HandlerFlags DEF DeleteNode
  <2>2. /\ pc' \in [Requests -> Labels]
        /\ lock' \in [Devices -> SUBSET Requests]
        /\ faults' \in Nat
    BY <1>10, <1>a, GotoTypes, RaiseTypes, CountedTypes DEF TypeOK,
       DeleteNode, Onward, Labels, InTransaction, Ended, registry
  <2> QED
    BY <1>10, <2>1, <2>2, NodeTypes, StepFrame DEF TypeOK, DeleteNode,
       registry, network
<1>11. CASE ListKeys(r)
  <2>2. /\ pc' \in [Requests -> Labels]
        /\ lock' \in [Devices -> SUBSET Requests]
        /\ faults' \in Nat
    BY <1>11, <1>a, GotoTypes, RaiseTypes, CountedTypes DEF TypeOK, ListKeys,
       Onward, AfterKeys, Labels, InTransaction, Ended, registry
  <2> QED
    BY <1>11, <2>2, StepFrame DEF TypeOK, ListKeys, AfterKeys, registry,
       network
<1>12. CASE ExpireUnused(r)
  <2>2. /\ pc' \in [Requests -> Labels]
        /\ lock' \in [Devices -> SUBSET Requests]
        /\ faults' \in Nat
    BY <1>12, <1>a, GotoTypes, RaiseTypes, CountedTypes DEF TypeOK,
       ExpireUnused, Onward, AfterKeys, Expired, Labels, InTransaction,
       Ended, registry
  <2> QED
    BY <1>12, <2>2, StepFrame DEF TypeOK, ExpireUnused, AfterKeys, Expired,
       registry, network
<1>13. CASE PatchTwin(r)
  <2>2. /\ pc' \in [Requests -> Labels]
        /\ lock' \in [Devices -> SUBSET Requests]
        /\ faults' \in Nat
    BY <1>13, <1>a, GotoTypes, RaiseTypes, CountedTypes DEF TypeOK,
       PatchTwin, Onward, Labels, InTransaction, Ended, registry
  <2> QED
    BY <1>13, <2>2, StepFrame DEF TypeOK, PatchTwin, registry, network
<1>14. CASE ClaimCommit(r)
  <2>1. UNCHANGED <<req, twins, keys, nodes, shown>>
    BY <1>14 DEF ClaimCommit, network
  <2>2. [dev[d] EXCEPT !.state = "CLAIMED",
                    !.key = IF req[r].holds THEN r ELSE None] \in Row
    BY <1>a, <1>c, RowTypes
  <2>3. [action |-> "CLAIMED", dev |-> d, req |-> r,
             about |-> IF req[r].holds THEN r ELSE None] \in Event
    BY <1>a, <1>b, <1>c DEF Event
  <2>4. "respond" \in Labels /\ "ok" \in Labels
    BY DEF Labels, Ended
  <2> QED
    BY <1>14, <1>a, <2>1, <2>2, <2>3, <2>4, CommitTypes, StepFrame DEF
       TypeOK, ClaimCommit
<1>15. CASE ReissueCommit(r)
  <2>1. UNCHANGED <<req, twins, keys, nodes, shown>>
    BY <1>15 DEF ReissueCommit, network
  <2>2. [dev[d] EXCEPT !.key = r] \in Row
    BY <1>a, <1>c, RowTypes
  <2>3. [action |-> "KEY_REISSUED", dev |-> d, req |-> r,
         about |-> r] \in Event
    BY <1>a, <1>b, <1>c DEF Event
  <2>4. "respond" \in Labels /\ "ok" \in Labels
    BY DEF Labels, Ended
  <2> QED
    BY <1>15, <1>a, <2>1, <2>2, <2>3, <2>4, CommitTypes, StepFrame DEF
       TypeOK, ReissueCommit
<1>16. CASE RevokeCommit(r)
  <2>1. UNCHANGED <<req, twins, keys, nodes, shown>>
    BY <1>16 DEF RevokeCommit, network
  <2>2. [dev[d] EXCEPT !.state = "REVOKED"] \in Row
    BY <1>a, <1>c, RowTypes
  <2>3. [action |-> "REVOKED", dev |-> d, req |-> r,
             about |-> IF req[r].removed THEN req[r].node ELSE None] \in Event
    BY <1>a, <1>b, <1>c DEF Event
  <2>4. "respond" \in Labels /\ "ok" \in Labels
    BY DEF Labels, Ended
  <2> QED
    BY <1>16, <1>a, <2>1, <2>2, <2>3, <2>4, CommitTypes, StepFrame DEF
       TypeOK, RevokeCommit
<1>17. CASE Respond(r)
  <2>2. /\ pc' \in [Requests -> Labels]
        /\ lock' \in [Devices -> SUBSET Requests]
        /\ faults' \in Nat
    BY <1>17, <1>a, GotoTypes, RaiseTypes, CountedTypes DEF TypeOK, Respond,
       Labels, InTransaction, Ended, registry
  <2> QED
    BY <1>17, <2>2, StepFrame DEF TypeOK, Respond, registry, network
<1>18. CASE UndoKey(r)
  <2>2. /\ pc' \in [Requests -> Labels]
        /\ lock' \in [Devices -> SUBSET Requests]
        /\ faults' \in Nat
    BY <1>18, <1>a, GotoTypes, RaiseTypes, CountedTypes DEF TypeOK, UndoKey,
       Expired, Labels, InTransaction, Ended, registry
  <2> QED
    BY <1>18, <2>2, StepFrame DEF TypeOK, UndoKey, Expired, registry, network
<1>19. CASE UndoTwin(r)
  <2>2. /\ pc' \in [Requests -> Labels]
        /\ lock' \in [Devices -> SUBSET Requests]
        /\ faults' \in Nat
    BY <1>19, <1>a, GotoTypes, RaiseTypes, CountedTypes DEF TypeOK, UndoTwin,
       Labels, InTransaction, Ended, registry
  <2> QED
    BY <1>19, <2>2, StepFrame DEF TypeOK, UndoTwin, registry, network
<1>20. CASE ViewRead(r)
  <2>1. req' \in [Requests -> Handler]
    <3>1. [req EXCEPT ![r].row = dev[d]] \in [Requests -> Handler]
      BY <1>a, HandlerRow
    <3> QED
      BY <1>20, <1>a, <3>1 DEF ViewRead
  <2>2. /\ pc' \in [Requests -> Labels]
        /\ lock' \in [Devices -> SUBSET Requests]
        /\ faults' \in Nat
    BY <1>20, <1>a, GotoTypes, RaiseTypes, CountedTypes DEF TypeOK, ViewRead,
       Labels, InTransaction, Ended, registry
  <2> QED
    BY <1>20, <2>1, <2>2, StepFrame DEF TypeOK, ViewRead, registry, network
<1>21. CASE ViewNodes(r)
  <2>1. req' \in [Requests -> Handler]
    <3>1. CASE req' = req
      BY <1>a, <3>1
    <3>2. CASE \E n \in Requests : req' = [req EXCEPT ![r].node = n]
      BY <1>a, <1>d, <3>2, HandlerNode
    <3> QED
      BY <1>21, <3>1, <3>2, MatchesTypes DEF ViewNodes
  <2>2. /\ pc' \in [Requests -> Labels]
        /\ lock' \in [Devices -> SUBSET Requests]
        /\ faults' \in Nat
    BY <1>21, <1>a, GotoTypes, RaiseTypes, CountedTypes DEF TypeOK,
       ViewNodes, Matches, Labels, InTransaction, Ended, registry
  <2> QED
    BY <1>21, <2>1, <2>2, StepFrame DEF TypeOK, ViewNodes, Matches, registry,
       network
<1>22. CASE ViewSave(r)
  <2>1. [action |-> "NODE_SEEN", dev |-> d, req |-> r,
         about |-> req[r].node] \in Event
    BY <1>a, <1>b, <1>c DEF Event
  <2>2. [dev EXCEPT ![d].node = req[r].node] \in [Devices -> Row]
    BY <1>a, <1>b, RowTypes
  <2>3. pc' \in [Requests -> Labels]
    BY <1>22, GotoTypes DEF ViewSave, Saved, Labels, Ended
  <2>4. faults' \in Nat
    BY <1>22, CountedTypes DEF ViewSave, Saved
  <2> QED
    BY <1>22, <2>1, <2>2, <2>3, <2>4, StepFrame DEF TypeOK, ViewSave, network
<1> QED
  BY <1>1, <1>2, <1>3, <1>4, <1>5, <1>6, <1>7, <1>8, <1>9, <1>10, <1>11,
     <1>12, <1>13, <1>14, <1>15, <1>16, <1>17, <1>18, <1>19, <1>20, <1>21,
     <1>22 DEF Step

\* The factory registers a device: types.
LEMMA RegisterTypes ==
    ASSUME TypeOK, NEW d \in Devices, Register(d)
    PROVE  TypeOK'
<1>1. [dev EXCEPT ![d].state = "PENDING"] \in [Devices -> Row]
  BY RowTypes DEF TypeOK
<1>2. [action |-> "REGISTERED", dev |-> d, req |-> None,
         about |-> None] \in Event
  BY DEF Event, RequestOrNone
<1> QED
  BY <1>1, <1>2 DEF TypeOK, Register, network

\* A request gets its handler.
LEMMA BeginHandler ==
    ASSUME NEW rq \in [Requests -> Handler], NEW r \in Requests,
           NEW op \in Operations, NEW d \in Devices
    PROVE  [rq EXCEPT ![r].op = op, ![r].dev = d] \in [Requests -> Handler]
<1> DEFINE h == [rq[r] EXCEPT !.op = op, !.dev = d]
<1>1. h \in Handler
  BY DEF Handler
<1>2. [rq EXCEPT ![r].op = op, ![r].dev = d] = [rq EXCEPT ![r] = h]
  OBVIOUS
<1> QED BY <1>1, <1>2

\* A request arrives: types.
LEMMA BeginTypes ==
    ASSUME TypeOK, NEW r \in Requests, NEW op, NEW d \in Devices, Begin(r,
       op, d)
    PROVE TypeOK'
<1>1. [req EXCEPT ![r].op = op, ![r].dev = d] \in [Requests -> Handler]
  BY BeginHandler DEF TypeOK, Begin
<1>2. \A q \in Requests :
        pc'[q] # "idle" => req'[q].op \in Operations /\ req'[q].dev \in Devices
  BY DEF TypeOK, Begin, Goto, Handler
<1>3. pc' \in [Requests -> Labels]
  BY GotoTypes DEF Begin, Labels
<1> QED
  BY <1>1, <1>2, <1>3 DEF TypeOK, Begin, registry, network

\* Failures of the database and of the process: types.
LEMMA DisturbanceTypes ==
    ASSUME TypeOK, Disturbance
    PROVE  TypeOK'
<1>1. ASSUME NEW r \in Requests, StatementFails(r) PROVE TypeOK'
  BY <1>1, GotoTypes, CountedTypes DEF StatementFails, TypeOK, Goto, Labels,
     Ended, registry, network
<1>2. ASSUME NEW r \in Requests, ConnectionLost(r) PROVE TypeOK'
  BY <1>2, CountedTypes DEF ConnectionLost, TypeOK, Released, network
<1>3. CASE Crash
  <2>1. pc' \in [Requests -> Labels]
    BY <1>3 DEF Crash, TypeOK, Labels, Ended
  <2>2. \A q \in Requests : pc'[q] # "idle" => pc[q] # "idle"
    BY <1>3 DEF Crash
  <2> QED
    BY <1>3, <2>1, <2>2, CountedTypes DEF Crash, TypeOK, network
<1> QED BY <1>1, <1>2, <1>3 DEF Disturbance

\* The clock and the machines in the field: types.
LEMMA OutsideTypes == ASSUME TypeOK, Outside PROVE TypeOK'
<1>1. ASSUME NEW k \in Requests, KeyTimeout(k) PROVE TypeOK'
  BY <1>1 DEF KeyTimeout, TypeOK, registry
<1>2. ASSUME NEW k \in Requests, NEW names \in Hostnames,
             Join(k, names) \/ Rename(k, names)
      PROVE  TypeOK'
  <2>1. names \in SUBSET Devices
    BY ProvisioningAssumption
  <2>2. nodes \in [Requests -> Node]
    BY DEF TypeOK
  <2>3. /\ Named(k, names) \in Node
        /\ [Named(k, names) EXCEPT !.status = "up"] \in Node
    BY <2>1, NamedTypes
  <2>4. nodes' \in [Requests -> Node]
    BY <1>2, <2>2, <2>3 DEF Join, Rename
  <2> QED BY <1>2, <2>4 DEF Join, Rename, TypeOK, registry
<1>3. ASSUME NEW k \in Requests, Leave(k) PROVE TypeOK'
  BY <1>3, NodeTypes DEF Leave, TypeOK, registry
<1> QED BY <1>1, <1>2, <1>3 DEF Outside

\* The initial state is well typed.
LEMMA InitTypes == Init => TypeOK
BY ProvisioningAssumption DEF Init, TypeOK, NoRow, Row, Handler, Labels,
   RequestOrNone, NoNode, Node

\* The type invariant holds of every behaviour of the specification, for any
\* sets of requests and devices, whatever fails.
THEOREM TypeCorrect == Spec => []TypeOK
<1>1. TypeOK /\ [Next]_vars => TypeOK'
  <2> SUFFICES ASSUME TypeOK, [Next]_vars PROVE TypeOK'
    OBVIOUS
  <2>1. CASE UNCHANGED vars
    BY <2>1 DEF TypeOK, vars
  <2>2. CASE Settled
    BY <2>2 DEF Settled, TypeOK, vars
  <2> QED
    BY <2>1, <2>2, RegisterTypes, BeginTypes, StepTypes, DisturbanceTypes,
       OutsideTypes DEF Next
<1> QED
  BY InitTypes, <1>1, PTL DEF Spec

-----------------------------------------------------------------------------
\* What a step may assign in its handler: the row at SELECT only, and the
\* key when MintKey succeeds.
LEMMA StepFields ==
    ASSUME TypeOK, NEW r \in Requests, Step(r)
    PROVE  /\ pc[r] \notin {"locking", "read"} => req'[r].row = req[r].row
           /\ \/ req'[r].holds = req[r].holds
              \/ /\ pc[r] = "mint" /\ pc'[r] = "commit"
                 /\ keys' = [keys EXCEPT ![r] = "live"] /\ req'[r].holds
           /\ pc[r] = "mint" /\ pc'[r] = "commit" => req'[r].holds
<1>0. pc \in [Requests -> Labels] /\ req \in [Requests -> Handler]
  BY DEF TypeOK
<1> USE DEF Goto, Ended, Handler
<1>1. CASE ClaimLock(r) \/ ReissueLock(r) \/ RevokeLock(r)
  BY <1>0, <1>1 DEF ClaimLock, ReissueLock, RevokeLock, Lock, Turned, Free,
     OnTailnet
<1>2. CASE EnsureUser(r) \/ UpsertTwin(r) \/ MintKey(r)
  BY <1>0, <1>2 DEF EnsureUser, UpsertTwin, MintKey, Onward, Raise, Released,
     AfterFailure, Effective
<1>3. CASE ReissueNodes(r) \/ RevokeNodes(r) \/ DeleteNode(r)
  BY <1>0, <1>3 DEF ReissueNodes, RevokeNodes, DeleteNode, Onward, Raise,
     Refuse, Released, AfterFailure
<1>4. CASE ListKeys(r) \/ ExpireUnused(r) \/ PatchTwin(r)
  BY <1>0, <1>4 DEF ListKeys, ExpireUnused, PatchTwin, Onward, Raise,
     Released, AfterFailure, AfterKeys, Unused, Expired, Effective
<1>5. CASE ClaimCommit(r) \/ ReissueCommit(r) \/ RevokeCommit(r)
  BY <1>0, <1>5 DEF ClaimCommit, ReissueCommit, RevokeCommit, Commit,
     Written, Raise, Released, AfterFailure
<1>6. CASE Reject(r) \/ Respond(r) \/ UndoKey(r) \/ UndoTwin(r)
  BY <1>0, <1>6 DEF Reject, Saved, Respond, UndoKey, UndoTwin, Expired, Effective
<1>7. CASE ViewRead(r) \/ ViewNodes(r) \/ ViewSave(r)
  BY <1>0, <1>7 DEF ViewRead, ViewNodes, ViewSave, Saved, OnTailnet, Free
<1> QED BY <1>1, <1>2, <1>3, <1>4, <1>5, <1>6, <1>7 DEF Step

\* What the three commits do to the row: nothing, or the change that the
\* handler's UPDATE makes, under the lock.
LEMMA CommitRows ==
    ASSUME TypeOK, NEW r \in Requests,
           ClaimCommit(r) \/ ReissueCommit(r) \/ RevokeCommit(r)
    PROVE  \/ dev' = dev /\ pc'[r] # "respond"
           \/ /\ r \in lock[req[r].dev]
              /\ \A e \in Devices \ {req[r].dev} : dev'[e] = dev[e]
              /\ \/ /\ ClaimCommit(r)
                    /\ dev[req[r].dev].state = "PENDING"
                    /\ dev'[req[r].dev].state = "CLAIMED"
                    /\ dev'[req[r].dev].key = IF req[r].holds THEN r ELSE None
                 \/ /\ ReissueCommit(r)
                    /\ dev[req[r].dev].state = "CLAIMED"
                    /\ dev'[req[r].dev].state = "CLAIMED"
                    /\ dev'[req[r].dev].key = r
                 \/ /\ RevokeCommit(r)
                    /\ dev'[req[r].dev].state = "REVOKED"
                    /\ dev'[req[r].dev].key = dev[req[r].dev].key
<1>0. /\ pc \in [Requests -> Labels] /\ dev \in [Devices -> Row]
      /\ pc[r] # "idle" => req[r].dev \in Devices
  BY DEF TypeOK
<1> USE DEF Commit, Written, Raise, Goto, AfterFailure, Row
<1>1. CASE ClaimCommit(r)
  <2> DEFINE key == IF req[r].holds THEN r ELSE None
             row == [dev[req[r].dev] EXCEPT !.state = "CLAIMED", !.key = key]
  <2>1. req[r].dev \in Devices
    BY <1>0, <1>1 DEF ClaimCommit
  <2>2. row.state = "CLAIMED" /\ row.key = key
    BY <1>0, <2>1
  <2>3. \/ dev' = dev /\ pc'[r] # "respond"
        \/ /\ r \in lock[req[r].dev] /\ dev[req[r].dev].state = "PENDING"
           /\ dev' = [dev EXCEPT ![req[r].dev] = row]
    BY <1>0, <1>1 DEF ClaimCommit
  <2> QED
    BY <1>0, <1>1, <2>1, <2>2, <2>3
<1>2. CASE ReissueCommit(r)
  BY <1>0, <1>2 DEF ReissueCommit
<1>3. CASE RevokeCommit(r)
  BY <1>0, <1>3 DEF RevokeCommit
<1> QED BY <1>1, <1>2, <1>3

\* A commit writes a key that exists, or none.
LEMMA CommitMinted ==
    ASSUME TypeOK, MintedOnce, NEW r \in Requests, Step(r),
           ClaimCommit(r) \/ ReissueCommit(r) \/ RevokeCommit(r)
    PROVE  MintedOnce'
<1>0. /\ pc \in [Requests -> Labels] /\ dev \in [Devices -> Row]
      /\ pc[r] = "commit"
      /\ req[r].dev \in Devices /\ req' = req /\ keys' = keys
  BY StepFrame DEF TypeOK, ClaimCommit, ReissueCommit, RevokeCommit, network
<1>1. /\ pc'[r] \notin BeforeMint \cup {"commit"}
      /\ \A q \in Requests \ {r} : pc'[q] = pc[q]
  BY <1>0, StepFrame DEF ClaimCommit, ReissueCommit, RevokeCommit, Commit,
     Raise, Goto, AfterFailure, BeforeMint
<1>2. ReissueCommit(r) => keys[r] # "absent"
  BY <1>0 DEF MintedOnce, ReissueCommit
<1>3. \A d \in Devices : dev'[d].key # None => keys'[dev'[d].key] # "absent"
  <2>1. \/ dev' = dev
        \/ /\ \A e \in Devices \ {req[r].dev} : dev'[e] = dev[e]
           /\ \/ dev'[req[r].dev].key = IF req[r].holds THEN r ELSE None
              \/ dev'[req[r].dev].key = r /\ ReissueCommit(r)
              \/ dev'[req[r].dev].key = dev[req[r].dev].key
    BY <1>0, CommitRows
  <2> QED
    BY <1>0, <1>2, <2>1 DEF MintedOnce
<1> QED BY <1>0, <1>1, <1>3 DEF MintedOnce

\* A claim writes a key for a rover or a gateway only.
LEMMA CommitKeysForVpn ==
    ASSUME TypeOK, KeysForVpnOnly, NEW r \in Requests, Step(r),
           ClaimCommit(r)
    PROVE  KeysForVpnOnly'
<1>0. /\ pc \in [Requests -> Labels] /\ dev \in [Devices -> Row]
      /\ pc[r] = "commit" /\ req[r].op = "claim"
      /\ req[r].dev \in Devices /\ req' = req /\ keys' = keys
  BY StepFrame DEF TypeOK, ClaimCommit, network
<1>1. pc'[r] \notin InTransaction /\ \A q \in Requests \ {r} : pc'[q] = pc[q]
  BY <1>0, StepFrame DEF ClaimCommit, Commit, Raise, Goto, AfterFailure,
     InTransaction
<1>2. \A d \in Devices \ VpnDevices : dev'[d].key = None
  <2>1. \/ dev' = dev
        \/ /\ \A e \in Devices \ {req[r].dev} : dev'[e] = dev[e]
           /\ dev'[req[r].dev].key = IF req[r].holds THEN r ELSE None
    BY <1>0, CommitRows DEF ReissueCommit, RevokeCommit
  <2> QED
    BY <1>0, <2>1 DEF KeysForVpnOnly
<1> QED BY <1>0, <1>1, <1>2 DEF KeysForVpnOnly, InTransaction

\* A commit leaves every live key of other devices where it is, and its own
\* device had none but the one written.
LEMMA CommitLiveKey ==
    ASSUME TypeOK, LiveKeyOnRow, LockedRow, OldKeyDead, ShownAnswered,
           MintedOnce, KeysForVpnOnly, NEW r \in Requests, Step(r),
           ClaimCommit(r) \/ ReissueCommit(r) \/ RevokeCommit(r)
    PROVE  LiveKeyOnRow'
<1>0. /\ pc \in [Requests -> Labels] /\ dev \in [Devices -> Row]
      /\ pc[r] = "commit"
      /\ req[r].dev \in Devices /\ req' = req /\ keys' = keys
      /\ shown' = shown /\ shown \subseteq Requests
      /\ \A q \in Requests \ {r} : pc'[q] = pc[q]
  BY StepFrame DEF TypeOK, ClaimCommit, ReissueCommit, RevokeCommit, network
<1> DEFINE Out(k) == \/ k \in Usable
                     \/ pc[k] = "respond" /\ req[k].holds /\ keys[k] = "live"
<1>1. \A k \in Requests : Out(k) => OnRow(k) /\ k # r
  BY <1>0 DEF LiveKeyOnRow, Usable, ShownAnswered
<1>2. CASE dev' = dev /\ pc'[r] # "respond"
  BY <1>0, <1>1, <1>2 DEF LiveKeyOnRow, Usable, OnRow, Owner
<1>3. CASE ~ (dev' = dev /\ pc'[r] # "respond")
  <2>1. /\ r \in lock[req[r].dev]
        /\ \A e \in Devices \ {req[r].dev} : dev'[e] = dev[e]
    BY <1>3, CommitRows
  <2>2. \A k \in Requests : Out(k) => Owner(k) # req[r].dev
    <3>1. CASE ClaimCommit(r)
      BY <1>0, <1>1, <2>1, <3>1 DEF OnRow, LockedRow, ClaimCommit
    <3>2. CASE ~ ClaimCommit(r)
      <4>1. LET row == dev[req[r].dev] IN
              row.state = "CLAIMED" /\ row.key # None => keys[row.key] # "live"
        BY <1>0, <2>1, <3>2 DEF OldKeyDead, ReissueCommit, RevokeCommit
      <4>2. \A k \in Requests : Out(k) => keys[k] = "live" /\ k # None
        BY ProvisioningAssumption DEF Usable
      <4> QED
        BY <1>1, <4>1, <4>2 DEF OnRow
    <3> QED BY <3>1, <3>2
  <2>3. \A k \in Requests : Out(k) /\ Owner(k) \in Devices => OnRow(k)'
    BY <1>0, <1>1, <2>1, <2>2 DEF OnRow, Owner
  <2>4. \A k \in Requests : Out(k) => Owner(k) \in Devices
    BY <1>0 DEF TypeOK, Owner, Labels, Usable, ShownAnswered
  <2>5. pc'[r] = "respond" /\ req[r].holds => OnRow(r)'
    BY <1>0, <1>3, CommitRows DEF OnRow, Owner, RevokeCommit, Commit, Raise,
       Goto, AfterFailure
  <2>6. Usable' = Usable /\ Usable \subseteq Requests
    BY <1>0 DEF Usable
  <2>7. \A k \in Usable : OnRow(k)'
    BY <2>3, <2>4, <2>6
  <2>8. ASSUME NEW q \in Requests, pc'[q] = "respond", req'[q].holds,
               keys'[q] = "live"
        PROVE  OnRow(q)'
    BY <1>0, <2>3, <2>4, <2>5, <2>8
  <2> QED
    BY <2>6, <2>7, <2>8 DEF LiveKeyOnRow, OnRow, Owner
<1> QED BY <1>2, <1>3

\* expire_unused_key ends with the recorded key dead, whichever of its two
\* calls ends it.
LEMMA PastOldKey ==
    ASSUME TypeOK, OldKeyDead, LabelOfHandler, LockedRow, MintedOnce,
           KeysForVpnOnly, NEW r \in Requests, Step(r),
           ListKeys(r) \/ ExpireUnused(r)
    PROVE  OldKeyDead'
<1>0. /\ pc \in [Requests -> Labels] /\ req' = req /\ dev' = dev
      /\ req[r].dev \in Devices
      /\ keys \in [Requests -> {"absent", "live", "used", "expired"}]
      /\ lock \in [Devices -> SUBSET Requests]
      /\ dev \in [Devices -> Row]
      /\ \A q \in Requests \ {r} : pc'[q] = pc[q]
      /\ \A d \in Devices : lock'[d] \subseteq lock[d]
      /\ \A k \in Requests : keys'[k] = "live" => keys[k] = "live"
  BY StepFrame DEF TypeOK, ListKeys, ExpireUnused, Expired, Onward, Raise,
     Released, network
<1>1. ASSUME NEW d \in Devices, r \in lock'[d], pc'[r] \in {"mint", "patch"},
             dev[d].key # None
      PROVE  keys'[dev[d].key] # "live"
  <2>1. /\ req[r].row.key = dev[d].key /\ req[r].dev = d
        /\ dev[d].key \in Requests
    BY <1>0, <1>1 DEF LockedRow, Row, RequestOrNone
  <2>2. CASE ListKeys(r)
    BY <1>0, <1>1, <2>1, <2>2 DEF ListKeys, Unused, Onward, Raise, Goto,
       AfterFailure, network
  <2>3. CASE ExpireUnused(r)
    BY <1>0, <1>1, <2>1, <2>3 DEF ExpireUnused, Expired, Effective, Onward,
       Raise, Goto, AfterFailure
  <2> QED BY <2>2, <2>3
<1>2. pc'[r] # "commit"
  BY <1>0 DEF ListKeys, ExpireUnused, Onward, Raise, Goto, AfterFailure,
     AfterKeys
<1>3. ASSUME NEW d \in Devices, NEW q \in lock'[d], q # r
      PROVE  q \in lock[d] /\ pc'[q] = pc[q]
  BY <1>0, <1>3
<1> QED
  BY <1>0, <1>1, <1>2, <1>3 DEF OldKeyDead, Row, RequestOrNone

\* A step leaves a handler in the code of its own operation.
LEMMA StepLabelOfHandler ==
    ASSUME TypeOK, TypeOK', LabelOfHandler, NEW r \in Requests, Step(r)
    PROVE  LabelOfHandler'
<1>0. /\ pc \in [Requests -> Labels] /\ req \in [Requests -> Handler]
      /\ dev \in [Devices -> Row] /\ lock \in [Devices -> SUBSET Requests]
      /\ shown \subseteq Requests /\ req[r].dev \in Devices
      /\ keys \in [Requests -> {"absent", "live", "used", "expired"}]
  BY StepFrame DEF TypeOK
<1> USE DEF Goto, Ended, registry, network, LabelOfHandler
<1>1. CASE ClaimLock(r) \/ ReissueLock(r) \/ RevokeLock(r)
  BY <1>0, <1>1, StepFrame, StepFields DEF ClaimLock, ReissueLock,
     RevokeLock, Lock, Turned, Free, OnTailnet
<1>2. CASE EnsureUser(r) \/ UpsertTwin(r) \/ MintKey(r)
  BY <1>0, <1>2, StepFrame, StepFields DEF EnsureUser, UpsertTwin, MintKey,
     Onward, Raise, Released, AfterFailure, Effective
<1>3. CASE ReissueNodes(r) \/ RevokeNodes(r) \/ DeleteNode(r)
  BY <1>0, <1>3, StepFrame, StepFields DEF ReissueNodes, RevokeNodes,
     DeleteNode, Onward, Raise, Refuse, Released, AfterFailure
<1>4. CASE ListKeys(r) \/ ExpireUnused(r) \/ PatchTwin(r)
  BY <1>0, <1>4, StepFrame, StepFields DEF ListKeys, ExpireUnused, PatchTwin,
     Onward, Raise, Released, AfterFailure, AfterKeys, Unused, Expired,
     Effective
<1>5. CASE ClaimCommit(r) \/ ReissueCommit(r) \/ RevokeCommit(r)
  BY <1>0, <1>5, StepFrame, StepFields DEF ClaimCommit, ReissueCommit,
     RevokeCommit, Commit, Written, Raise, Released, AfterFailure, Row
<1>6. CASE Reject(r) \/ Respond(r) \/ UndoKey(r) \/ UndoTwin(r)
  BY <1>0, <1>6, StepFrame, StepFields DEF Reject, Saved, Respond, UndoKey,
     UndoTwin, Expired, Effective
<1>7. CASE ViewRead(r) \/ ViewNodes(r) \/ ViewSave(r)
  BY <1>0, <1>7, StepFrame, StepFields DEF ViewRead, ViewNodes, ViewSave,
     Saved, OnTailnet, Free, Row
<1> QED BY <1>1, <1>2, <1>3, <1>4, <1>5, <1>6, <1>7 DEF Step

\* Only Respond shows a key, and it ends the request.
LEMMA StepShownAnswered ==
    ASSUME TypeOK, TypeOK', ShownAnswered, NEW r \in Requests, Step(r)
    PROVE  ShownAnswered'
<1>0. /\ pc \in [Requests -> Labels] /\ req \in [Requests -> Handler]
      /\ dev \in [Devices -> Row] /\ lock \in [Devices -> SUBSET Requests]
      /\ shown \subseteq Requests /\ req[r].dev \in Devices
      /\ keys \in [Requests -> {"absent", "live", "used", "expired"}]
  BY StepFrame DEF TypeOK
<1> USE DEF Goto, Ended, registry, network, ShownAnswered
<1>1. CASE ClaimLock(r) \/ ReissueLock(r) \/ RevokeLock(r)
  BY <1>0, <1>1, StepFrame, StepFields DEF ClaimLock, ReissueLock,
     RevokeLock, Lock, Turned, Free, OnTailnet
<1>2. CASE EnsureUser(r) \/ UpsertTwin(r) \/ MintKey(r)
  BY <1>0, <1>2, StepFrame, StepFields DEF EnsureUser, UpsertTwin, MintKey,
     Onward, Raise, Released, AfterFailure, Effective
<1>3. CASE ReissueNodes(r) \/ RevokeNodes(r) \/ DeleteNode(r)
  BY <1>0, <1>3, StepFrame, StepFields DEF ReissueNodes, RevokeNodes,
     DeleteNode, Onward, Raise, Refuse, Released, AfterFailure
<1>4. CASE ListKeys(r) \/ ExpireUnused(r) \/ PatchTwin(r)
  BY <1>0, <1>4, StepFrame, StepFields DEF ListKeys, ExpireUnused, PatchTwin,
     Onward, Raise, Released, AfterFailure, AfterKeys, Unused, Expired,
     Effective
<1>5. CASE ClaimCommit(r) \/ ReissueCommit(r) \/ RevokeCommit(r)
  BY <1>0, <1>5, StepFrame, StepFields DEF ClaimCommit, ReissueCommit,
     RevokeCommit, Commit, Written, Raise, Released, AfterFailure, Row
<1>6. CASE Reject(r) \/ Respond(r) \/ UndoKey(r) \/ UndoTwin(r)
  BY <1>0, <1>6, StepFrame, StepFields DEF Reject, Saved, Respond, UndoKey,
     UndoTwin, Expired, Effective
<1>7. CASE ViewRead(r) \/ ViewNodes(r) \/ ViewSave(r)
  BY <1>0, <1>7, StepFrame, StepFields DEF ViewRead, ViewNodes, ViewSave,
     Saved, OnTailnet, Free, Row
<1> QED BY <1>1, <1>2, <1>3, <1>4, <1>5, <1>6, <1>7 DEF Step

\* Only MintKey brings a key into being, and only commits put one in a row.
LEMMA StepMintedOnce ==
    ASSUME TypeOK, TypeOK', MintedOnce, LockedRow, LabelOfHandler, NEW r \in
       Requests, Step(r)
    PROVE  MintedOnce'
<1>0. /\ pc \in [Requests -> Labels] /\ req \in [Requests -> Handler]
      /\ dev \in [Devices -> Row] /\ lock \in [Devices -> SUBSET Requests]
      /\ shown \subseteq Requests /\ req[r].dev \in Devices
      /\ keys \in [Requests -> {"absent", "live", "used", "expired"}]
  BY StepFrame DEF TypeOK
<1> USE DEF Goto, Ended, registry, network, MintedOnce, LockedRow,
   LabelOfHandler, BeforeMint, InTransaction
<1>1. CASE ClaimLock(r) \/ ReissueLock(r) \/ RevokeLock(r)
  BY <1>0, <1>1, StepFrame, StepFields DEF ClaimLock, ReissueLock,
     RevokeLock, Lock, Turned, Free, OnTailnet
<1>2. CASE EnsureUser(r) \/ UpsertTwin(r) \/ MintKey(r)
  <2>1. CASE EnsureUser(r)
    BY <1>0, <2>1, StepFrame, StepFields DEF EnsureUser, Onward, Raise,
       Released, AfterFailure
  <2>2. CASE UpsertTwin(r)
    BY <1>0, <2>2, StepFrame, StepFields DEF UpsertTwin, Onward, Raise,
       Released, AfterFailure
  <2>3. CASE MintKey(r)
    BY <1>0, <2>3, StepFrame, StepFields DEF MintKey, Onward, Raise,
       Released, AfterFailure, Effective
  <2> QED BY <1>2, <2>1, <2>2, <2>3
<1>3. CASE ReissueNodes(r) \/ RevokeNodes(r) \/ DeleteNode(r)
  BY <1>0, <1>3, StepFrame, StepFields DEF ReissueNodes, RevokeNodes,
     DeleteNode, Onward, Raise, Refuse, Released, AfterFailure
<1>4. CASE ListKeys(r) \/ ExpireUnused(r) \/ PatchTwin(r)
  <2>1. CASE ListKeys(r)
    BY <1>0, <2>1, StepFrame, StepFields DEF ListKeys, Onward, Raise,
       Released, AfterFailure, AfterKeys, Unused
  <2>2. CASE ExpireUnused(r)
    BY <1>0, <2>2, StepFrame, StepFields DEF ExpireUnused, Onward, Raise,
       Released, AfterFailure, AfterKeys, Expired, Effective
  <2>3. CASE PatchTwin(r)
    BY <1>0, <2>3, StepFrame, StepFields DEF PatchTwin, Onward
  <2> QED BY <1>4, <2>1, <2>2, <2>3
<1>5. CASE ClaimCommit(r) \/ ReissueCommit(r) \/ RevokeCommit(r)
  BY <1>5, CommitMinted
<1>6. CASE Reject(r) \/ Respond(r) \/ UndoKey(r) \/ UndoTwin(r)
  <2>1. CASE Reject(r)
    BY <1>0, <2>1, StepFrame, StepFields DEF Reject, Saved
  <2>2. CASE Respond(r)
    BY <1>0, <2>2, StepFrame, StepFields DEF Respond
  <2>3. CASE UndoKey(r)
    BY <1>0, <2>3, StepFrame, StepFields DEF UndoKey, Expired, Effective
  <2>4. CASE UndoTwin(r)
    BY <1>0, <2>4, StepFrame, StepFields DEF UndoTwin
  <2> QED BY <1>6, <2>1, <2>2, <2>3, <2>4
<1>7. CASE ViewRead(r) \/ ViewNodes(r) \/ ViewSave(r)
  <2>1. CASE ViewRead(r) \/ ViewNodes(r)
    BY <1>0, <2>1, StepFrame, StepFields DEF ViewRead, ViewNodes, OnTailnet,
       Row
  <2>2. CASE ViewSave(r)
    BY <1>0, <2>2, StepFrame, StepFields DEF ViewSave, Saved, Free, Row
  <2> QED BY <1>7, <2>1, <2>2
<1> QED BY <1>1, <1>2, <1>3, <1>4, <1>5, <1>6, <1>7 DEF Step

\* A sensor's claim skips MintKey and a reissue refuses sensors.
LEMMA StepKeysForVpnOnly ==
    ASSUME TypeOK, TypeOK', KeysForVpnOnly, LockedRow, NEW r \in Requests,
       Step(r)
    PROVE  KeysForVpnOnly'
<1>0. /\ pc \in [Requests -> Labels] /\ req \in [Requests -> Handler]
      /\ dev \in [Devices -> Row] /\ lock \in [Devices -> SUBSET Requests]
      /\ shown \subseteq Requests /\ req[r].dev \in Devices
      /\ keys \in [Requests -> {"absent", "live", "used", "expired"}]
  BY StepFrame DEF TypeOK
<1> USE DEF Goto, Ended, registry, network, KeysForVpnOnly, LockedRow,
   InTransaction
<1>1. CASE ClaimLock(r) \/ ReissueLock(r) \/ RevokeLock(r)
  BY <1>0, <1>1, StepFrame, StepFields DEF ClaimLock, ReissueLock,
     RevokeLock, Lock, Turned, Free, OnTailnet
<1>2. CASE EnsureUser(r) \/ UpsertTwin(r) \/ MintKey(r)
  BY <1>0, <1>2, StepFrame, StepFields DEF EnsureUser, UpsertTwin, MintKey,
     Onward, Raise, Released, AfterFailure, Effective
<1>3. CASE ReissueNodes(r) \/ RevokeNodes(r) \/ DeleteNode(r)
  BY <1>0, <1>3, StepFrame, StepFields DEF ReissueNodes, RevokeNodes,
     DeleteNode, Onward, Raise, Refuse, Released, AfterFailure
<1>4. CASE ListKeys(r) \/ ExpireUnused(r) \/ PatchTwin(r)
  BY <1>0, <1>4, StepFrame, StepFields DEF ListKeys, ExpireUnused, PatchTwin,
     Onward, Raise, Released, AfterFailure, AfterKeys, Unused, Expired,
     Effective
<1>5. CASE ClaimCommit(r)
  BY <1>5, CommitKeysForVpn
<1>6. CASE ReissueCommit(r) \/ RevokeCommit(r)
  <2>1. CASE ReissueCommit(r)
    BY <1>0, <2>1, StepFrame, StepFields DEF ReissueCommit, Commit, Written,
       Raise, Released, AfterFailure, Row
  <2>2. CASE RevokeCommit(r)
    BY <1>0, <2>2, StepFrame, StepFields DEF RevokeCommit, Commit, Written,
       Raise, Released, AfterFailure, Row
  <2> QED BY <1>6, <2>1, <2>2
<1>7. CASE Reject(r) \/ Respond(r) \/ UndoKey(r) \/ UndoTwin(r)
  BY <1>0, <1>7, StepFrame, StepFields DEF Reject, Saved, Respond, UndoKey,
     UndoTwin, Expired, Effective
<1>8. CASE ViewRead(r) \/ ViewNodes(r) \/ ViewSave(r)
  BY <1>0, <1>8, StepFrame, StepFields DEF ViewRead, ViewNodes, ViewSave,
     Saved, OnTailnet, Free, Row
<1> QED BY <1>1, <1>2, <1>3, <1>4, <1>5, <1>6, <1>7, <1>8 DEF Step

\* FOR UPDATE: nobody but the holder changes a locked row.
LEMMA StepLockedRow ==
    ASSUME TypeOK, TypeOK', LockedRow, NEW r \in Requests, Step(r)
    PROVE  LockedRow'
<1>0. /\ pc \in [Requests -> Labels] /\ req \in [Requests -> Handler]
      /\ dev \in [Devices -> Row] /\ lock \in [Devices -> SUBSET Requests]
      /\ shown \subseteq Requests /\ req[r].dev \in Devices
      /\ keys \in [Requests -> {"absent", "live", "used", "expired"}]
  BY StepFrame DEF TypeOK
<1> USE DEF Goto, Ended, registry, network, LockedRow, InTransaction
<1>1. CASE ClaimLock(r) \/ ReissueLock(r) \/ RevokeLock(r)
  BY <1>0, <1>1, StepFrame, StepFields DEF ClaimLock, ReissueLock,
     RevokeLock, Lock, Turned, Free, OnTailnet, Handler
<1>2. CASE EnsureUser(r) \/ UpsertTwin(r) \/ MintKey(r)
  BY <1>0, <1>2, StepFrame, StepFields DEF EnsureUser, UpsertTwin, MintKey,
     Onward, Raise, Released, AfterFailure, Effective, Handler
<1>3. CASE ReissueNodes(r) \/ RevokeNodes(r) \/ DeleteNode(r)
  BY <1>0, <1>3, StepFrame, StepFields DEF ReissueNodes, RevokeNodes,
     DeleteNode, Onward, Raise, Refuse, Released, AfterFailure, Handler
<1>4. CASE ListKeys(r) \/ ExpireUnused(r) \/ PatchTwin(r)
  BY <1>0, <1>4, StepFrame, StepFields DEF ListKeys, ExpireUnused, PatchTwin,
     Onward, Raise, Released, AfterFailure, AfterKeys, Unused, Expired,
     Effective, Handler
<1>5. CASE ClaimCommit(r) \/ ReissueCommit(r) \/ RevokeCommit(r)
  BY <1>0, <1>5, StepFrame, StepFields DEF ClaimCommit, ReissueCommit,
     RevokeCommit, Commit, Written, Raise, Released, AfterFailure, Handler,
     Row
<1>6. CASE Reject(r) \/ Respond(r) \/ UndoKey(r) \/ UndoTwin(r)
  BY <1>0, <1>6, StepFrame, StepFields DEF Reject, Saved, Respond, UndoKey,
     UndoTwin, Expired, Effective, Handler
<1>7. CASE ViewRead(r) \/ ViewNodes(r) \/ ViewSave(r)
  BY <1>0, <1>7, StepFrame, StepFields DEF ViewRead, ViewNodes, ViewSave,
     Saved, OnTailnet, Free, Handler, Row
<1> QED BY <1>1, <1>2, <1>3, <1>4, <1>5, <1>6, <1>7 DEF Step

\* A handler passes expire_unused_key only with the old key dead.
LEMMA StepOldKeyDead ==
    ASSUME TypeOK, TypeOK', OldKeyDead, LabelOfHandler, LockedRow,
       MintedOnce, KeysForVpnOnly, NEW r \in Requests, Step(r)
    PROVE  OldKeyDead'
<1>0. /\ pc \in [Requests -> Labels] /\ req \in [Requests -> Handler]
      /\ dev \in [Devices -> Row] /\ lock \in [Devices -> SUBSET Requests]
      /\ shown \subseteq Requests /\ req[r].dev \in Devices
      /\ keys \in [Requests -> {"absent", "live", "used", "expired"}]
  BY StepFrame DEF TypeOK
<1> USE DEF Goto, Ended, registry, network, OldKeyDead, LabelOfHandler,
   LockedRow, MintedOnce, KeysForVpnOnly, BeforeMint
<1>1. CASE ClaimLock(r) \/ ReissueLock(r) \/ RevokeLock(r)
  BY <1>0, <1>1, StepFrame, StepFields DEF ClaimLock, ReissueLock,
     RevokeLock, Lock, Turned, Free, OnTailnet
<1>2. CASE EnsureUser(r) \/ UpsertTwin(r) \/ MintKey(r)
  <2>1. CASE EnsureUser(r)
    BY <1>0, <2>1, StepFrame, StepFields DEF EnsureUser, Onward, Raise,
       Released, AfterFailure
  <2>2. CASE UpsertTwin(r)
    BY <1>0, <2>2, StepFrame, StepFields DEF UpsertTwin, Onward, Raise,
       Released, AfterFailure
  <2>3. CASE MintKey(r)
    BY <1>0, <2>3, StepFrame, StepFields DEF MintKey, Onward, Raise,
       Released, AfterFailure, Effective
  <2> QED BY <1>2, <2>1, <2>2, <2>3
<1>3. CASE ReissueNodes(r) \/ RevokeNodes(r) \/ DeleteNode(r)
  BY <1>0, <1>3, StepFrame, StepFields DEF ReissueNodes, RevokeNodes,
     DeleteNode, Onward, Raise, Refuse, Released, AfterFailure
<1>4. CASE ListKeys(r) \/ ExpireUnused(r)
  BY <1>4, PastOldKey
<1>5. CASE PatchTwin(r)
  BY <1>0, <1>5, StepFrame, StepFields DEF PatchTwin, Onward
<1>6. CASE ClaimCommit(r) \/ ReissueCommit(r) \/ RevokeCommit(r)
  <2>1. /\ keys' = keys /\ req' = req
        /\ \A d \in Devices : lock'[d] = lock[d] \ {r}
    BY <1>6 DEF ClaimCommit, ReissueCommit, RevokeCommit, Commit, Raise, Released
  <2>2. \A d \in Devices : dev'[d] = dev[d] \/ (d = req[r].dev /\ r \in lock[d])
    BY <1>6, CommitRows
  <2>3. \A d \in Devices : \A q \in lock'[d] :
          /\ q \in Requests /\ q \in lock[d] /\ q # r
          /\ dev'[d] = dev[d] /\ pc'[q] = pc[q]
    BY <1>0, <2>1, <2>2, StepFrame
  <2> QED BY <2>1, <2>3
<1>7. CASE Reject(r) \/ Respond(r) \/ UndoKey(r) \/ UndoTwin(r)
  <2>1. CASE Reject(r)
    BY <1>0, <2>1, StepFrame, StepFields DEF Reject, Saved
  <2>2. CASE Respond(r)
    BY <1>0, <2>2, StepFrame, StepFields DEF Respond
  <2>3. CASE UndoKey(r)
    BY <1>0, <2>3, StepFrame, StepFields DEF UndoKey, Expired, Effective
  <2>4. CASE UndoTwin(r)
    BY <1>0, <2>4, StepFrame, StepFields DEF UndoTwin
  <2> QED BY <1>7, <2>1, <2>2, <2>3, <2>4
<1>8. CASE ViewRead(r) \/ ViewNodes(r) \/ ViewSave(r)
  BY <1>0, <1>8, StepFrame, StepFields DEF ViewRead, ViewNodes, ViewSave,
     Saved, OnTailnet, Free, Row
<1> QED BY <1>1, <1>2, <1>3, <1>4, <1>5, <1>6, <1>7, <1>8 DEF Step

\* A live key that is out stays the one of its device's row.
LEMMA StepLiveKeyOnRow ==
    ASSUME TypeOK, TypeOK', LiveKeyOnRow, LockedRow, OldKeyDead,
       ShownAnswered, MintedOnce, KeysForVpnOnly, NEW r \in Requests, Step(r)
    PROVE  LiveKeyOnRow'
<1>0. /\ pc \in [Requests -> Labels] /\ req \in [Requests -> Handler]
      /\ dev \in [Devices -> Row] /\ lock \in [Devices -> SUBSET Requests]
      /\ shown \subseteq Requests /\ req[r].dev \in Devices
      /\ keys \in [Requests -> {"absent", "live", "used", "expired"}]
  BY StepFrame DEF TypeOK
<1> USE DEF Goto, Ended, registry, network, LiveKeyOnRow, LockedRow,
   OldKeyDead, ShownAnswered, MintedOnce, KeysForVpnOnly, OnRow, Usable,
   Owner, BeforeMint
<1>1. CASE ClaimLock(r) \/ ReissueLock(r) \/ RevokeLock(r)
  BY <1>0, <1>1, StepFrame, StepFields DEF ClaimLock, ReissueLock,
     RevokeLock, Lock, Turned, Free, OnTailnet
<1>2. CASE EnsureUser(r) \/ UpsertTwin(r) \/ MintKey(r)
  BY <1>0, <1>2, StepFrame, StepFields DEF EnsureUser, UpsertTwin, MintKey,
     Onward, Raise, Released, AfterFailure, Effective
<1>3. CASE ReissueNodes(r) \/ RevokeNodes(r) \/ DeleteNode(r)
  BY <1>0, <1>3, StepFrame, StepFields DEF ReissueNodes, RevokeNodes,
     DeleteNode, Onward, Raise, Refuse, Released, AfterFailure
<1>4. CASE ListKeys(r) \/ ExpireUnused(r) \/ PatchTwin(r)
  BY <1>0, <1>4, StepFrame, StepFields DEF ListKeys, ExpireUnused, PatchTwin,
     Onward, Raise, Released, AfterFailure, AfterKeys, Unused, Expired,
     Effective
<1>5. CASE ClaimCommit(r) \/ ReissueCommit(r) \/ RevokeCommit(r)
  BY <1>5, CommitLiveKey
<1>6. CASE Reject(r) \/ Respond(r) \/ UndoKey(r) \/ UndoTwin(r)
  BY <1>0, <1>6, StepFrame, StepFields DEF Reject, Saved, Respond, UndoKey,
     UndoTwin, Expired, Effective
<1>7. CASE ViewRead(r) \/ ViewNodes(r) \/ ViewSave(r)
  <2>1. CASE ViewRead(r)
    BY <1>0, <2>1, StepFrame, StepFields DEF ViewRead, OnTailnet, Row
  <2>2. CASE ViewNodes(r)
    BY <1>0, <2>2, StepFrame, StepFields DEF ViewNodes, Row
  <2>3. CASE ViewSave(r)
    BY <1>0, <2>3, StepFrame, StepFields DEF ViewSave, Saved, Free, Row
  <2> QED BY <1>7, <2>1, <2>2, <2>3
<1> QED BY <1>1, <1>2, <1>3, <1>4, <1>5, <1>6, <1>7 DEF Step

\* The factory registers a device: no handler had it locked.
LEMMA RegisterInv == ASSUME IInv, NEW d \in Devices, Register(d) PROVE IInv'
<1>0. /\ dev \in [Devices -> Row] /\ dev'[d].key = dev[d].key
      /\ dev'[d].state = "PENDING"
      /\ dev[d].state = "NONE"
      /\ \A e \in Devices \ {d} : dev'[e] = dev[e]
      /\ UNCHANGED <<lock, keys, nodes, shown, twins, pc, req, faults>>
      /\ lock[d] = {}
  <2>1. dev \in [Devices -> Row]
    BY DEF IInv, TypeOK
  <2>2. lock[d] = {}
    BY DEF IInv, LockedRow, Register, TypeOK
  <2> QED BY <2>1, <2>2 DEF Register, network, Row
<1>1. TypeOK' /\ LabelOfHandler' /\ ShownAnswered'
  BY <1>0, RegisterTypes DEF IInv, LabelOfHandler, ShownAnswered
<1>2. MintedOnce' /\ KeysForVpnOnly'
  BY <1>0 DEF IInv, MintedOnce, KeysForVpnOnly
<1>3. LockedRow' /\ OldKeyDead'
  BY <1>0 DEF IInv, LockedRow, OldKeyDead
<1>4. ASSUME NEW k \in Requests, OnRow(k), pc[k] # "idle" PROVE OnRow(k)'
  <2>1. Owner(k) \in Devices \ {d}
    BY <1>0, <1>4 DEF IInv, TypeOK, OnRow, Owner
  <2> QED BY <1>0, <1>4, <2>1 DEF OnRow, Owner
<1>5. /\ Usable' = Usable /\ Usable \subseteq Requests
      /\ \A k \in Usable : pc[k] # "idle" /\ OnRow(k)
  BY <1>0 DEF IInv, TypeOK, Usable, ShownAnswered, LiveKeyOnRow
<1>6. \A k \in Usable : OnRow(k)'
  BY <1>4, <1>5
<1>7. \A q \in Requests :
        pc[q] = "respond" /\ req[q].holds /\ keys[q] = "live" => OnRow(q)'
  BY <1>4 DEF IInv, LiveKeyOnRow
<1>8. LiveKeyOnRow'
  BY <1>0, <1>5, <1>6, <1>7 DEF LiveKeyOnRow, OnRow, Owner
<1> QED BY <1>1, <1>2, <1>3, <1>8 DEF IInv

\* A request that arrives has no key yet.
LEMMA BeginInv ==
    ASSUME IInv, NEW r \in Requests, NEW op, NEW d \in Devices, Begin(r, op, d)
    PROVE IInv'
<1>0. /\ pc \in [Requests -> Labels] /\ pc[r] = "idle"
      /\ pc'[r] \in {"read", "locking"}
      /\ \A q \in Requests \ {r} : pc'[q] = pc[q] /\ req'[q] = req[q]
      /\ req'[r].holds = req[r].holds /\ ~ req[r].holds
      /\ UNCHANGED <<dev, lock, keys, nodes, shown, twins>>
      /\ shown \subseteq Requests /\ lock \in [Devices -> SUBSET Requests]
      /\ keys[r] = "absent"
  <2>1. /\ pc \in [Requests -> Labels] /\ req \in [Requests -> Handler]
        /\ pc[r] = "idle"
        /\ shown \subseteq Requests /\ lock \in [Devices -> SUBSET Requests]
    BY DEF IInv, TypeOK, Begin
  <2>2. keys[r] = "absent" /\ ~ req[r].holds
    BY <2>1 DEF IInv, MintedOnce, BeforeMint
  <2>3. req'[r].holds = req[r].holds
    BY <2>1 DEF Begin, Handler
  <2> QED BY <2>1, <2>2, <2>3 DEF Begin, Goto, registry, network
<1>1. TypeOK' /\ LabelOfHandler' /\ ShownAnswered'
  <2>1. pc'[r] = "read" => req'[r].op = "view"
    BY DEF IInv, TypeOK, Begin, Goto, Handler
  <2> QED
    BY <1>0, <2>1, BeginTypes DEF IInv, LabelOfHandler, ShownAnswered
<1>2. MintedOnce' /\ KeysForVpnOnly'
  BY <1>0 DEF IInv, MintedOnce, KeysForVpnOnly, BeforeMint, InTransaction
<1>3. \A e \in Devices : r \notin lock[e]
  BY <1>0 DEF IInv, LockedRow, InTransaction
<1>4. LockedRow'
  BY <1>0, <1>3 DEF IInv, LockedRow
<1>5. OldKeyDead'
  BY <1>0, <1>3 DEF IInv, OldKeyDead
<1>6. LiveKeyOnRow'
  BY <1>0 DEF IInv, LiveKeyOnRow, OnRow, Owner, Usable, ShownAnswered
<1> QED BY <1>1, <1>2, <1>4, <1>5, <1>6 DEF IInv

\* A failure takes locks away and leaves rows and keys alone.
LEMMA DisturbanceInv == ASSUME IInv, Disturbance PROVE IInv'
<1>0. TypeOK'
  BY DisturbanceTypes DEF IInv
<1>1. /\ UNCHANGED <<dev, keys, shown, req>>
      /\ pc \in [Requests -> Labels]
      /\ \A d \in Devices : lock'[d] \subseteq lock[d]
      /\ \A q \in Requests :
            \/ pc'[q] = pc[q]
            \/ /\ pc'[q] \in {"failed", "lost"} /\ pc[q] \notin Ended
               /\ \A d \in Devices : q \notin lock'[d]
  <2>1. pc \in [Requests -> Labels] /\ lock \in [Devices -> SUBSET Requests]
    BY DEF IInv, TypeOK
  <2>2. ASSUME NEW r \in Requests, StatementFails(r)
        PROVE  \A d \in Devices : r \notin lock[d]
    BY <2>2 DEF StatementFails, IInv, LockedRow, InTransaction
  <2>3. ASSUME NEW r \in Requests, StatementFails(r) PROVE <1>1!:
    BY <2>1, <2>2, <2>3 DEF StatementFails, Goto, registry, network, Ended
  <2>4. ASSUME NEW r \in Requests, ConnectionLost(r) PROVE <1>1!:
    BY <2>1, <2>4 DEF ConnectionLost, Released, network
  <2>5. CASE Crash
    BY <2>1, <2>5 DEF Crash, network, Ended
  <2> QED BY <2>3, <2>4, <2>5 DEF Disturbance
<1>2. LabelOfHandler' /\ ShownAnswered'
  BY <1>1 DEF IInv, LabelOfHandler, ShownAnswered, Ended, TypeOK
<1>3. MintedOnce' /\ KeysForVpnOnly'
  BY <1>1 DEF IInv, MintedOnce, KeysForVpnOnly, BeforeMint, InTransaction
<1>4. LockedRow'
  BY <1>1 DEF IInv, LockedRow, TypeOK
<1>5. ASSUME NEW d \in Devices, NEW q \in lock'[d]
      PROVE  q \in lock[d] /\ pc'[q] = pc[q]
  BY <1>1, <1>5 DEF IInv, TypeOK
<1>7. OldKeyDead'
  BY <1>1, <1>5 DEF IInv, OldKeyDead
<1>6. LiveKeyOnRow'
  BY <1>1 DEF IInv, LiveKeyOnRow, OnRow, Owner, Usable
<1> QED BY <1>0, <1>2, <1>3, <1>4, <1>6, <1>7 DEF IInv

\* The outside only makes live keys dead.
LEMMA OutsideInv == ASSUME IInv, Outside PROVE IInv'
<1>0. TypeOK'
  BY OutsideTypes DEF IInv
<1>1. /\ UNCHANGED <<dev, lock, shown, pc, req>>
      /\ \A k \in Requests :
            \/ keys'[k] = keys[k]
            \/ keys[k] = "live" /\ keys'[k] \in {"used", "expired"}
      /\ shown \subseteq Requests
  BY DEF IInv, Outside, KeyTimeout, Join, Rename, Leave, TypeOK, registry
<1>2. LabelOfHandler' /\ ShownAnswered' /\ LockedRow'
  BY <1>1 DEF IInv, LabelOfHandler, ShownAnswered, LockedRow
<1>3. \A d \in Devices : dev[d].key # None => dev[d].key \in Requests
  BY DEF IInv, TypeOK, Row, RequestOrNone
<1>4. MintedOnce' /\ KeysForVpnOnly'
  BY <1>1, <1>3 DEF IInv, MintedOnce, KeysForVpnOnly
<1>5. OldKeyDead'
  BY <1>1, <1>3 DEF IInv, OldKeyDead
<1>6. LiveKeyOnRow'
  BY <1>1 DEF IInv, LiveKeyOnRow, OnRow, Owner, Usable
<1> QED BY <1>0, <1>2, <1>4, <1>5, <1>6 DEF IInv

\* Every step of a handler keeps the inductive invariant.
LEMMA StepInv == ASSUME IInv, NEW r \in Requests, Step(r) PROVE IInv'
BY StepTypes, StepLabelOfHandler, StepShownAnswered, StepMintedOnce,
   StepKeysForVpnOnly, StepLockedRow, StepOldKeyDead, StepLiveKeyOnRow DEF
   IInv

\* The inductive invariant holds initially.
LEMMA InitInv == Init => IInv
<1> SUFFICES ASSUME Init PROVE IInv
  OBVIOUS
<1>1. TypeOK
  BY InitTypes
<1>2. LabelOfHandler /\ ShownAnswered /\ LockedRow /\ OldKeyDead
  BY DEF Init, LabelOfHandler, ShownAnswered, LockedRow, OldKeyDead
<1>3. MintedOnce /\ KeysForVpnOnly /\ LiveKeyOnRow
  BY DEF Init, MintedOnce, KeysForVpnOnly, LiveKeyOnRow, Usable, NoRow,
     InTransaction
<1> QED BY <1>1, <1>2, <1>3 DEF IInv

\* The inductive invariant holds of every behaviour of the specification.
THEOREM Invariance == Spec => []IInv
<1>1. IInv /\ [Next]_vars => IInv'
  <2> SUFFICES ASSUME IInv, [Next]_vars PROVE IInv'
    OBVIOUS
  <2>1. CASE UNCHANGED vars
    BY <2>1 DEF vars, IInv, TypeOK, LabelOfHandler, ShownAnswered, LockedRow,
       OldKeyDead, MintedOnce, KeysForVpnOnly, LiveKeyOnRow, Usable, OnRow,
       Owner
  <2>2. CASE Settled
    BY <2>1, <2>2 DEF Settled
  <2> QED
    BY <2>1, <2>2, RegisterInv, BeginInv, StepInv, DisturbanceInv, OutsideInv
       DEF Next
<1> QED
  BY InitInv, <1>1, PTL DEF Spec

\* Claims, reissues and revocations of claim_flow.py, overlapping and failing
\* in any way, never leave a device with two keys that could still be used.
THEOREM OneUsableKeyHolds == Spec => []OneUsableKey
<1>1. IInv => OneUsableKey
  BY DEF IInv, LiveKeyOnRow, OnRow, OneUsableKey
<1> QED BY Invariance, <1>1, PTL

\* No key handed out in the name of a revoked device is live: revoke expires
\* the recorded key under the row lock before it commits.
THEOREM RevokedKeylessHolds == Spec => []RevokedKeyless
<1>1. IInv => RevokedKeyless
  BY DEF IInv, LiveKeyOnRow, OnRow, RevokedKeyless, UsableFor
<1> QED BY Invariance, <1>1, PTL

\* What a handler read with SELECT ... FOR UPDATE is the committed row until
\* it commits (get_for_update of repo.py).
THEOREM RowUnderLockHolds == Spec => []RowUnderLock
<1>1. IInv => RowUnderLock
  BY DEF IInv, LockedRow, RowUnderLock
<1> QED BY Invariance, <1>1, PTL

\* Labels in the order in which a handler comes by them.
LEMMA RankValues ==
    /\ Rank("idle") = 0 /\ Rank("locking") = 1 /\ Rank("read") = 1
    /\ Rank("user") = 2 /\ Rank("upsert") = 3 /\ Rank("nodes") = 3
    /\ Rank("save") = 4 /\ Rank("reject") = 4 /\ Rank("delete") = 4
    /\ Rank("keys") = 5 /\ Rank("expire") = 6 /\ Rank("mint") = 7
    /\ Rank("patch") = 8 /\ Rank("commit") = 9 /\ Rank("respond") = 10
    /\ Rank("undoKey") = 11 /\ Rank("undoTwin") = 12
    /\ \A label \in Ended : Rank(label) = 13
BY DEF Rank, Ended

\* Every step of a handler takes it further in its code.
LEMMA RankForward ==
    ASSUME TypeOK, NEW r \in Requests, Step(r)
    PROVE  Rank(pc[r]) < Rank(pc'[r])
<1>0. pc \in [Requests -> Labels]
  BY DEF TypeOK
<1> USE RankValues DEF Goto, Ended
<1>1. CASE ClaimLock(r) \/ ReissueLock(r) \/ RevokeLock(r)
  BY <1>0, <1>1 DEF ClaimLock, ReissueLock, RevokeLock, Lock, Turned
<1>2. CASE EnsureUser(r) \/ UpsertTwin(r) \/ MintKey(r)
  BY <1>0, <1>2 DEF EnsureUser, UpsertTwin, MintKey, Onward, Raise,
     AfterFailure
<1>3. CASE ReissueNodes(r) \/ RevokeNodes(r) \/ DeleteNode(r)
  BY <1>0, <1>3 DEF ReissueNodes, RevokeNodes, DeleteNode, Onward, Raise,
     Refuse, AfterFailure
<1>4. CASE ListKeys(r) \/ ExpireUnused(r) \/ PatchTwin(r)
  BY <1>0, <1>4 DEF ListKeys, ExpireUnused, PatchTwin, Onward, Raise,
     AfterFailure, AfterKeys
<1>5. CASE ClaimCommit(r) \/ ReissueCommit(r) \/ RevokeCommit(r)
  BY <1>0, <1>5 DEF ClaimCommit, ReissueCommit, RevokeCommit, Commit, Raise,
     AfterFailure
<1>6. CASE Reject(r) \/ Respond(r) \/ UndoKey(r) \/ UndoTwin(r)
  BY <1>0, <1>6 DEF Reject, Saved, Respond, UndoKey, UndoTwin
<1>7. CASE ViewRead(r) \/ ViewNodes(r) \/ ViewSave(r)
  BY <1>0, <1>7 DEF ViewRead, ViewNodes, ViewSave, Saved
<1> QED BY <1>1, <1>2, <1>3, <1>4, <1>5, <1>6, <1>7 DEF Step

\* A handler of claim_flow.py makes no step twice: neither a failure nor a
\* retry takes it back, so that its steps are bounded by its ranks.
THEOREM HandlersAdvanceHolds == Spec => HandlersAdvance
<1>1. TypeOK /\ [Next]_vars =>
        \A r \in Requests : pc'[r] = pc[r] \/ Rank(pc[r]) < Rank(pc'[r])
  <2> SUFFICES ASSUME TypeOK, [Next]_vars, NEW r \in Requests
               PROVE  pc'[r] = pc[r] \/ Rank(pc[r]) < Rank(pc'[r])
    OBVIOUS
  <2>0. pc \in [Requests -> Labels]
    BY DEF TypeOK
  <2>1. ASSUME NEW q \in Requests, Step(q)
        PROVE  pc'[r] = pc[r] \/ Rank(pc[r]) < Rank(pc'[r])
    BY <2>1, StepFrame, RankForward
  <2>2. ASSUME NEW q \in Requests, NEW op, NEW d \in Devices, Begin(q, op, d)
        PROVE  pc'[r] = pc[r] \/ Rank(pc[r]) < Rank(pc'[r])
    BY <2>0, <2>2, RankValues DEF Begin, Goto
  <2>3. CASE Disturbance
    <3>1. ASSUME NEW q \in Requests, StatementFails(q)
          PROVE  pc'[r] = pc[r] \/ Rank(pc[r]) < Rank(pc'[r])
      BY <2>0, <3>1, RankValues DEF StatementFails, Goto, Ended
    <3>2. ASSUME NEW q \in Requests, ConnectionLost(q) PROVE pc'[r] = pc[r]
      BY <3>2 DEF ConnectionLost
    <3>3. ASSUME Crash
          PROVE  pc'[r] = pc[r] \/ Rank(pc[r]) < Rank(pc'[r])
      <4>1. \A label \in Labels \ Ended : Rank(label) < 13
        BY RankValues DEF Labels, InTransaction
      <4>2. \/ pc'[r] = pc[r]
            \/ pc[r] \in Labels \ Ended /\ pc'[r] = "lost"
        BY <2>0, <3>3 DEF Crash
      <4> QED BY <4>1, <4>2, RankValues DEF Ended
    <3> QED BY <2>3, <3>1, <3>2, <3>3 DEF Disturbance
  <2>4. CASE Outside \/ UNCHANGED vars
    BY <2>4 DEF Outside, KeyTimeout, Join, Rename, Leave, vars
  <2>5. ASSUME NEW d \in Devices, Register(d) PROVE pc'[r] = pc[r]
    BY <2>5 DEF Register
  <2> QED BY <2>1, <2>2, <2>3, <2>4, <2>5 DEF Next, Settled
<1> QED BY <1>1, TypeCorrect, PTL DEF Spec, HandlersAdvance

\* Whoever waits for a row waits for a handler that does not wait: no handler
\* asks for a row with another one in hand (claim_flow.py), so that somebody
\* can always go on.
THEOREM SomebodyMovesHolds == Spec => []SomebodyMoves
<1>1. IInv => SomebodyMoves
  <2> SUFFICES ASSUME IInv, NEW r \in Requests, pc[r] \notin {"idle"} \cup Ended
               PROVE  \E q \in Requests : CanMove(q)
    BY DEF SomebodyMoves
  <2>1. CASE ~ Waits(r)
    BY <2>1 DEF CanMove
  <2>2. CASE Waits(r)
    <3>1. /\ pc \in [Requests -> Labels] /\ req[r].dev \in Devices
          /\ lock \in [Devices -> SUBSET Requests]
      BY DEF IInv, TypeOK
    <3>2. PICK q \in Requests : q \in lock[req[r].dev]
      BY <2>2, <3>1 DEF Waits, Free
    <3>3. pc[q] \in InTransaction
      BY <3>1, <3>2 DEF IInv, LockedRow
    <3> QED BY <3>3 DEF CanMove, Waits, InTransaction, Ended
  <2> QED BY <2>1, <2>2
<1> QED BY Invariance, <1>1, PTL
=============================================================================
