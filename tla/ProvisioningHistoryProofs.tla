--------------------- MODULE ProvisioningHistoryProofs ---------------------
(***************************************************************************)
(* What Provisioning remembers is true: the audit trail accounts for every *)
(* row and every key that is out, a node that a row, a revocation or the   *)
(* trail names came in with a key of the device or has borne its UUID, the *)
(* twin is not ahead of the row, and one failure is undone.                *)
(*                                                                         *)
(* The argument: StepRegistry says which row and which event a step of a   *)
(* handler writes, together and under which state; the invariants of the   *)
(* history follow from it by one case for each of the five events.         *)
(***************************************************************************)
EXTENDS ProvisioningRefinement, FiniteSetTheorems

\* A step of the handler r writes the event ev with the change it reports.
Writes(r, ev) ==
    LET old == dev[req[r].dev]
        new == dev'[req[r].dev]
    IN  /\ audit' = audit \cup {ev}
        /\ ev.dev = req[r].dev /\ ev.req = r
        /\ \A e \in Devices \ {req[r].dev} : dev'[e] = dev[e]
        /\ \/ /\ ev.action = "CLAIM_REJECTED" /\ pc'[r] # "respond"
              /\ dev' = dev
           \/ /\ ev.action = "NODE_SEEN" /\ pc'[r] # "respond"
              /\ pc[r] = "save" /\ ev.about = req[r].node
              /\ new.state = old.state /\ new.key = old.key
              /\ new.node = req[r].node
           \/ /\ ev.action = "CLAIMED" /\ pc[r] = "commit" /\ req[r].op = "claim"
              /\ old.state = "PENDING" /\ new.state = "CLAIMED"
              /\ ev.about = IF req[r].holds THEN r ELSE None
              /\ new.key = ev.about /\ new.node = old.node
           \/ /\ ev.action = "KEY_REISSUED"
              /\ pc[r] = "commit" /\ req[r].op = "reissue"
              /\ old.state = "CLAIMED" /\ new.state = "CLAIMED"
              /\ ev.about = r /\ new.key = r /\ new.node = old.node
           \/ /\ ev.action = "REVOKED" /\ pc'[r] # "respond"
              /\ pc[r] = "commit" /\ req[r].op = "revoke"
              /\ old.state # "REVOKED" /\ new.state = "REVOKED"
              /\ ev.about \in {req[r].node, None}
              /\ new.key = old.key /\ new.node = old.node

\* A commit is one of three of these changes, or none of them.
LEMMA CommitWrites ==
    ASSUME TypeOK, NEW r \in Requests,
           ClaimCommit(r) \/ ReissueCommit(r) \/ RevokeCommit(r)
    PROVE  \/ UNCHANGED <<dev, audit>> /\ pc'[r] # "respond"
           \/ \E ev : Writes(r, ev)
<1> DEFINE d == req[r].dev
<1>0. /\ pc \in [Requests -> Labels] /\ dev \in [Devices -> Row]
      /\ pc[r] = "commit" /\ d \in Devices /\ dev[d] \in Row
  BY DEF TypeOK, ClaimCommit, ReissueCommit, RevokeCommit
<1>1. ASSUME NEW fits, NEW row \in Row, NEW ev, NEW label,
             Commit(r, fits, row, ev, label)
      PROVE  \/ UNCHANGED <<dev, audit>> /\ pc'[r] # "respond"
             \/ /\ fits /\ audit' = audit \cup {ev}
                /\ \A e \in Devices \ {d} : dev'[e] = dev[e]
                /\ dev'[d] = row
                /\ pc'[r] = label \/ pc'[r] # "respond"
  BY <1>0, <1>1 DEF Commit, Written, Raise, Goto, AfterFailure
<1>2. CASE ClaimCommit(r)
  <2> DEFINE key == IF req[r].holds THEN r ELSE None
             row == [dev[d] EXCEPT !.state = "CLAIMED", !.key = key]
             ev == [action |-> "CLAIMED", dev |-> d, req |-> r, about |-> key]
  <2>1. row \in Row
    BY <1>0, RowTypes DEF RequestOrNone
  <2>2. /\ row.state = "CLAIMED" /\ row.key = key /\ row.node = dev[d].node
        /\ ev.action = "CLAIMED" /\ ev.dev = d /\ ev.req = r /\ ev.about = key
    BY <1>0 DEF Row
  <2>3. Commit(r, dev[d].state = "PENDING", row, ev, "respond")
    BY <1>2 DEF ClaimCommit
  <2>4. \/ UNCHANGED <<dev, audit>> /\ pc'[r] # "respond"
        \/ Writes(r, ev)
    BY <1>0, <1>1, <1>2, <2>1, <2>2, <2>3 DEF Writes, ClaimCommit
  <2> QED BY <2>4
<1>3. CASE ReissueCommit(r)
  <2> DEFINE row == [dev[d] EXCEPT !.key = r]
             ev == [action |-> "KEY_REISSUED", dev |-> d, req |-> r, about |-> r]
  <2>1. row \in Row
    BY <1>0, RowTypes DEF RequestOrNone
  <2>2. /\ row.state = dev[d].state /\ row.key = r /\ row.node = dev[d].node
        /\ ev.action = "KEY_REISSUED" /\ ev.dev = d /\ ev.req = r /\ ev.about = r
    BY <1>0 DEF Row
  <2>3. Commit(r, dev[d].state = "CLAIMED", row, ev, "respond")
    BY <1>3 DEF ReissueCommit
  <2>4. \/ UNCHANGED <<dev, audit>> /\ pc'[r] # "respond"
        \/ Writes(r, ev)
    BY <1>0, <1>1, <1>3, <2>1, <2>2, <2>3 DEF Writes, ReissueCommit
  <2> QED BY <2>4
<1>4. CASE RevokeCommit(r)
  <2> DEFINE row == [dev[d] EXCEPT !.state = "REVOKED"]
             ev == [action |-> "REVOKED", dev |-> d, req |-> r,
                    about |-> IF req[r].removed THEN req[r].node ELSE None]
  <2>1. row \in Row
    BY <1>0, RowTypes
  <2>2. /\ row.state = "REVOKED" /\ row.key = dev[d].key
        /\ row.node = dev[d].node
        /\ ev.action = "REVOKED" /\ ev.dev = d /\ ev.req = r
        /\ ev.about \in {req[r].node, None}
    BY <1>0 DEF Row
  <2>3. Commit(r, dev[d].state # "REVOKED", row, ev, "ok")
    BY <1>4 DEF RevokeCommit
  <2>4. \/ UNCHANGED <<dev, audit>> /\ pc'[r] # "respond"
        \/ Writes(r, ev)
    <3>1. pc'[r] # "respond" /\ req[r].op = "revoke"
      BY <1>0, <1>4 DEF RevokeCommit, Commit, Raise, Goto, AfterFailure
    <3> HIDE DEF ev, row
    <3>2. \/ UNCHANGED <<dev, audit>>
          \/ /\ dev[d].state # "REVOKED" /\ audit' = audit \cup {ev}
             /\ \A e \in Devices \ {d} : dev'[e] = dev[e]
             /\ dev'[d] = row
      BY <1>1, <2>1, <2>3
    <3> QED BY <1>0, <2>2, <3>1, <3>2 DEF Writes
  <2> QED BY <2>4
<1> QED BY <1>2, <1>3, <1>4

\* What a step of a handler does to the registry.
LEMMA StepRegistry ==
    ASSUME TypeOK, NEW r \in Requests, Step(r)
    PROVE  \/ UNCHANGED <<dev, audit>> /\ pc'[r] # "respond"
           \/ \E ev : Writes(r, ev)
<1> DEFINE d == req[r].dev
<1>0. /\ pc \in [Requests -> Labels] /\ dev \in [Devices -> Row]
      /\ d \in Devices /\ dev[d] \in Row
  BY StepFrame DEF TypeOK
<1>1. CASE ClaimCommit(r) \/ ReissueCommit(r) \/ RevokeCommit(r)
  BY <1>1, CommitWrites
<1>2. CASE Reject(r)
  <2> DEFINE ev == [action |-> "CLAIM_REJECTED", dev |-> d, req |-> r,
                    about |-> None]
  <2>1. Writes(r, ev)
    BY <1>0, <1>2 DEF Reject, Saved, Goto, Writes
  <2> QED BY <2>1
<1>3. CASE ViewSave(r)
  <2> DEFINE ev == [action |-> "NODE_SEEN", dev |-> d, req |-> r,
                    about |-> req[r].node]
  <2>1. Writes(r, ev)
    BY <1>0, <1>3 DEF ViewSave, Saved, Goto, Writes, Row
  <2> QED BY <2>1
<1>4. CASE ClaimLock(r) \/ ReissueLock(r) \/ RevokeLock(r)
  BY <1>0, <1>4 DEF ClaimLock, ReissueLock, RevokeLock, Lock, Turned, Goto
<1>5. CASE EnsureUser(r) \/ UpsertTwin(r) \/ MintKey(r)
  BY <1>0, <1>5 DEF EnsureUser, UpsertTwin, MintKey, Onward, Raise,
     AfterFailure, Goto
<1>6. CASE ReissueNodes(r) \/ RevokeNodes(r) \/ DeleteNode(r)
  BY <1>0, <1>6 DEF ReissueNodes, RevokeNodes, DeleteNode, Onward, Raise,
     Refuse, AfterFailure, Goto
<1>7. CASE ListKeys(r) \/ ExpireUnused(r) \/ PatchTwin(r)
  BY <1>0, <1>7 DEF ListKeys, ExpireUnused, PatchTwin, Onward, Raise,
     AfterFailure, AfterKeys, Goto
<1>8. CASE Respond(r) \/ UndoKey(r) \/ UndoTwin(r)
  BY <1>0, <1>8 DEF Respond, UndoKey, UndoTwin, Goto, registry
<1>9. CASE ViewRead(r) \/ ViewNodes(r)
  BY <1>0, <1>9 DEF ViewRead, ViewNodes, Goto, registry
<1> QED
  BY <1>1, <1>2, <1>3, <1>4, <1>5, <1>6, <1>7, <1>8, <1>9 DEF Step

\* Only Respond shows a key: the one its handler holds.
LEMMA StepShown ==
    ASSUME NEW r \in Requests, Step(r)
    PROVE  \/ shown' = shown
           \/ pc[r] = "respond" /\ req[r].holds /\ shown' = shown \cup {r}
BY DEF Step, ClaimLock, ReissueLock, RevokeLock, Reject, EnsureUser,
   UpsertTwin, MintKey, ReissueNodes, RevokeNodes, DeleteNode, ListKeys,
   ExpireUnused, PatchTwin, ClaimCommit, ReissueCommit, RevokeCommit, Respond,
   UndoKey, UndoTwin, ViewRead, ViewNodes, ViewSave, network

\* A handler never becomes idle again, and the names it takes up are those of
\* the row it reads and of the nodes it matches.
LEMMA StepNames ==
    ASSUME TypeOK, NEW r \in Requests, Step(r)
    PROVE  /\ pc'[r] # "idle"
           /\ req'[r].row \in {req[r].row, dev[req[r].dev]}
           /\ \/ req'[r].node = req[r].node
              \/ req'[r].node \in Matches(req[r].dev, req[r].row)
<1>0. pc \in [Requests -> Labels] /\ req \in [Requests -> Handler]
  BY DEF TypeOK
<1> USE DEF Goto, Handler
<1>1. CASE ClaimLock(r) \/ ReissueLock(r) \/ RevokeLock(r)
  BY <1>0, <1>1 DEF ClaimLock, ReissueLock, RevokeLock, Lock, Turned
<1>2. CASE EnsureUser(r) \/ UpsertTwin(r) \/ MintKey(r)
  BY <1>0, <1>2 DEF EnsureUser, UpsertTwin, MintKey, Onward, Raise, AfterFailure
<1>3. CASE ReissueNodes(r) \/ RevokeNodes(r) \/ DeleteNode(r)
  BY <1>0, <1>3 DEF ReissueNodes, RevokeNodes, DeleteNode, Onward, Raise,
     Refuse, AfterFailure
<1>4. CASE ListKeys(r) \/ ExpireUnused(r) \/ PatchTwin(r)
  BY <1>0, <1>4 DEF ListKeys, ExpireUnused, PatchTwin, Onward, Raise,
     AfterFailure, AfterKeys
<1>5. CASE ClaimCommit(r) \/ ReissueCommit(r) \/ RevokeCommit(r)
  BY <1>0, <1>5 DEF ClaimCommit, ReissueCommit, RevokeCommit, Commit, Raise,
     AfterFailure
<1>6. CASE Reject(r) \/ Respond(r) \/ UndoKey(r) \/ UndoTwin(r)
  BY <1>0, <1>6 DEF Reject, Saved, Respond, UndoKey, UndoTwin
<1>7. CASE ViewRead(r) \/ ViewNodes(r) \/ ViewSave(r)
  BY <1>0, <1>7 DEF ViewRead, ViewNodes, ViewSave, Saved
<1> QED BY <1>1, <1>2, <1>3, <1>4, <1>5, <1>6, <1>7 DEF Step

-----------------------------------------------------------------------------
(* Keys are the device's own, and nodes have passed for the device's. *)

\* No handler changes a name.
LEMMA StepNodes ==
    ASSUME TypeOK, NEW r \in Requests, Step(r)
    PROVE  \A n \in Requests : /\ nodes'[n].names = nodes[n].names
                               /\ nodes'[n].bore = nodes[n].bore
<1>1. nodes \in [Requests -> Node]
  BY DEF TypeOK
<1>2. CASE DeleteNode(r)
  <2>1. \/ nodes' = nodes
        \/ nodes' = [nodes EXCEPT ![req[r].node].status = "deleted"]
    BY <1>2 DEF DeleteNode
  <2> QED BY <1>1, <2>1 DEF Node
<1>3. CASE UNCHANGED nodes
  BY <1>3
<1> QED
  BY <1>2, <1>3 DEF Step, ClaimLock, ReissueLock, RevokeLock, Reject,
     EnsureUser, UpsertTwin, MintKey, ReissueNodes, RevokeNodes, ListKeys,
     ExpireUnused, PatchTwin, ClaimCommit, ReissueCommit, RevokeCommit, Respond,
     UndoKey, UndoTwin, ViewRead, ViewNodes, ViewSave, network

\* Outside they change, and a node never ceases to have borne one.
LEMMA OutsideNodes ==
    ASSUME TypeOK, Outside, \A n \in Requests : nodes[n].names \subseteq nodes[n].bore
    PROVE  \A n \in Requests : /\ nodes'[n].names \subseteq nodes'[n].bore
                               /\ nodes[n].bore \subseteq nodes'[n].bore
<1>1. nodes \in [Requests -> Node]
  BY DEF TypeOK
<1>2. ASSUME NEW k \in Requests, NEW names \in Hostnames,
             Join(k, names) \/ Rename(k, names), NEW n \in Requests
      PROVE  /\ nodes'[n].names \subseteq nodes'[n].bore
             /\ nodes[n].bore \subseteq nodes'[n].bore
  <2>1. names \in SUBSET Devices
    BY ProvisioningAssumption
  <2>2. nodes'[k].names = names /\ nodes'[k].bore = nodes[k].bore \cup names
    <3>1. CASE Join(k, names)
      <4> DEFINE joined == [Named(k, names) EXCEPT !.status = "up"]
      <4>1. nodes'[k] = joined
        BY <1>1, <3>1 DEF Join
      <4>2. joined.names = names /\ joined.bore = nodes[k].bore \cup names
        BY <2>1, NamedTypes
      <4> HIDE DEF joined
      <4> QED BY <4>1, <4>2
    <3>2. CASE Rename(k, names)
      <4> DEFINE renamed == Named(k, names)
      <4>1. nodes'[k] = renamed
        BY <1>1, <3>2 DEF Rename
      <4>2. renamed.names = names /\ renamed.bore = nodes[k].bore \cup names
        BY <2>1, NamedTypes
      <4> HIDE DEF renamed
      <4> QED BY <4>1, <4>2
    <3> QED BY <1>2, <3>1, <3>2
  <2>3. n # k => nodes'[n] = nodes[n]
    BY <1>1, <1>2 DEF Join, Rename
  <2> QED BY <2>2, <2>3
<1>3. ASSUME NEW k \in Requests, KeyTimeout(k) \/ Leave(k), NEW n \in Requests
      PROVE  nodes'[n].names = nodes[n].names /\ nodes'[n].bore = nodes[n].bore
  BY <1>1, <1>3 DEF KeyTimeout, Leave, Node
<1> QED BY <1>2, <1>3 DEF Outside

\* A node that _match_node returns has passed for the device's: it is the one
\* of the row, or the one of the row's key, or it bears the device's UUID.
LEMMA MatchesOwn ==
    ASSUME IInv, NodesShown, NEW d, NEW row, From(d, row.key),
           NodeFrom(d, row.node),
           \A m \in Requests : nodes[m].names \subseteq nodes[m].bore,
           NEW n \in Matches(d, row)
    PROVE  NodeFrom(d, n)
<1>1. \A k \in Requests : nodes[k].status = "up" => pc[k] # "idle"
  BY DEF NodesShown, IInv, ShownAnswered
<1>2. None \notin Requests
  BY ProvisioningAssumption
<1> QED BY <1>1, <1>2 DEF Matches, From, NodeFrom, PassesFor

\* From and NodeFrom, after the step.
Still(d, x) == x # None => pc'[x] # "idle" /\ req'[x].dev = d
NodeStill(d, x) ==
    x # None => /\ pc'[x] # "idle"
                /\ req'[x].dev = d \/ d \in nodes'[x].bore

\* Of which events Origin speaks.
AboutNode(e) == e.action \in {"NODE_SEEN", "REVOKED"}

\* A step of a handler keeps the origins.
LEMMA StepOrigin ==
    ASSUME IInv, NodesShown, Origin, NEW r \in Requests, Step(r)
    PROVE  Origin'
<1>0. TypeOK /\ dev \in [Devices -> Row] /\ req \in [Requests -> Handler]
      /\ audit \subseteq Event
  BY DEF IInv, TypeOK
<1>1. \A q \in Requests :
        /\ pc[q] # "idle" => pc'[q] # "idle"
        /\ req'[q].dev = req[q].dev
        /\ pc'[q] = "idle" => pc[q] = "idle" /\ req'[q] = req[q]
        /\ nodes'[q].names \subseteq nodes'[q].bore
        /\ nodes'[q].bore = nodes[q].bore
  BY <1>0, StepFrame, StepNames, StepNodes DEF Origin
<1>2. \A q \in Requests : /\ req[q].row.key \in RequestOrNone
                          /\ req[q].row.node \in RequestOrNone
                          /\ req[q].node \in RequestOrNone
  BY <1>0 DEF Handler, Row
<1>3. \A d \in Devices : /\ dev[d].key \in RequestOrNone
                         /\ dev[d].node \in RequestOrNone
  BY <1>0 DEF Row
<1>4. \A x \in RequestOrNone : \A d : /\ From(d, x) => Still(d, x)
                                      /\ NodeFrom(d, x) => NodeStill(d, x)
  BY <1>1 DEF From, NodeFrom, PassesFor, Still, NodeStill, Owner, RequestOrNone
<1>5. req[r].dev \in Devices /\ pc[r] # "idle"
  BY <1>0, StepFrame DEF TypeOK
<1>6. ASSUME NEW d \in Devices
      PROVE  Still(d, dev'[d].key) /\ NodeStill(d, dev'[d].node)
  <2>0. Still(d, dev[d].key) /\ NodeStill(d, dev[d].node)
    BY <1>3, <1>4 DEF Origin
  <2>1. CASE dev'[d] = dev[d]
    BY <2>0, <2>1
  <2>2. ASSUME NEW ev, Writes(r, ev), d = req[r].dev
        PROVE  Still(d, dev'[d].key) /\ NodeStill(d, dev'[d].node)
    <3>1. NodeStill(d, req[r].node)
      BY <1>2, <1>4, <2>2 DEF Origin
    <3>2. Still(d, r) /\ Still(d, None)
      BY <1>1, <1>5, <2>2 DEF Still
    <3> QED BY <2>0, <2>2, <3>1, <3>2 DEF Writes
  <2>3. dev'[d] = dev[d] \/ \E ev : Writes(r, ev) /\ d = req[r].dev
    BY <1>0, StepRegistry DEF Writes
  <2> QED BY <2>1, <2>2, <2>3
<1>7. ASSUME NEW q \in Requests
      PROVE  /\ Still(req[q].dev, req'[q].row.key)
             /\ NodeStill(req[q].dev, req'[q].row.node)
             /\ NodeStill(req[q].dev, req'[q].node)
  <2>1. CASE req'[q] = req[q]
    BY <1>2, <1>4, <2>1 DEF Origin
  <2>2. CASE q = r
    <3>1. /\ From(req[r].dev, req'[r].row.key)
          /\ NodeFrom(req[r].dev, req'[r].row.node)
      BY <1>0, <1>5, StepNames DEF Origin
    <3>2. req'[r].row.key \in RequestOrNone /\ req'[r].row.node \in RequestOrNone
      BY <1>0, <1>2, <1>3, <1>5, StepNames
    <3>3. NodeFrom(req[r].dev, req'[r].node) /\ req'[r].node \in RequestOrNone
      <4>1. CASE req'[r].node = req[r].node
        BY <1>2, <4>1 DEF Origin
      <4>2. CASE req'[r].node \in Matches(req[r].dev, req[r].row)
        BY <4>2, MatchesOwn, MatchesTypes DEF Origin, RequestOrNone
      <4> QED BY <1>0, <4>1, <4>2, StepNames
    <3> QED BY <1>4, <2>2, <3>1, <3>2, <3>3
  <2> QED BY <1>0, <2>1, <2>2, StepFrame
<1>8. \A q \in Requests : pc'[q] = "idle" =>
        req'[q].row.key = None /\ req'[q].row.node = None /\ req'[q].node = None
  BY <1>1 DEF Origin
<1>9. ASSUME NEW e \in audit', AboutNode(e)
      PROVE  NodeStill(e.dev, e.about)
  <2>1. CASE e \in audit
    BY <1>0, <1>4, <1>9, <2>1 DEF Origin, AboutNode, Event
  <2>2. ASSUME Writes(r, e)
        PROVE  NodeStill(e.dev, e.about)
    <3>1. NodeStill(req[r].dev, req[r].node) /\ NodeStill(req[r].dev, None)
      BY <1>2, <1>4 DEF Origin, NodeStill
    <3>2. e.dev = req[r].dev /\ e.about \in {req[r].node, None}
      BY <1>9, <2>2 DEF Writes, AboutNode
    <3> QED BY <3>1, <3>2
  <2> QED BY <1>0, <1>9, <2>1, <2>2, StepRegistry DEF Writes
<1> QED
  BY <1>1, <1>6, <1>7, <1>8, <1>9 DEF Origin, From, NodeFrom, PassesFor, Owner,
     Still, NodeStill, AboutNode

\* A request that arrives has no names yet.
LEMMA BeginOrigin ==
    ASSUME IInv, Origin, NEW r \in Requests, NEW op, NEW d \in Devices,
           Begin(r, op, d)
    PROVE  Origin'
<1>0. /\ pc \in [Requests -> Labels] /\ req \in [Requests -> Handler]
      /\ dev \in [Devices -> Row] /\ audit \subseteq Event
  BY DEF IInv, TypeOK
<1>1. /\ pc[r] = "idle" /\ pc'[r] # "idle"
      /\ UNCHANGED <<dev, audit, nodes>>
      /\ req'[r].row = req[r].row /\ req'[r].node = req[r].node
      /\ \A q \in Requests \ {r} : pc'[q] = pc[q] /\ req'[q] = req[q]
  BY <1>0 DEF Begin, Goto, registry, network, Handler
<1>2. \A x \in RequestOrNone, e \in Devices :
        /\ From(e, x) => Still(e, x)
        /\ NodeFrom(e, x) => NodeStill(e, x)
  BY <1>1 DEF From, NodeFrom, PassesFor, Still, NodeStill, Owner, RequestOrNone
<1>3. \A q \in Requests : /\ req[q].row.key \in RequestOrNone
                          /\ req[q].row.node \in RequestOrNone
                          /\ req[q].node \in RequestOrNone
  BY <1>0 DEF Handler, Row
<1>4. \A e \in Devices : /\ dev[e].key \in RequestOrNone
                         /\ dev[e].node \in RequestOrNone
  BY <1>0 DEF Row
<1>5. \A e \in Devices : Still(e, dev'[e].key) /\ NodeStill(e, dev'[e].node)
  BY <1>1, <1>2, <1>4 DEF Origin
<1>6. /\ req'[r].row.key = None /\ req'[r].row.node = None
      /\ req'[r].node = None
  BY <1>1 DEF Origin
<1>7. ASSUME NEW q \in Requests \ {r}
      PROVE  /\ Still(req'[q].dev, req'[q].row.key)
             /\ NodeStill(req'[q].dev, req'[q].row.node)
             /\ NodeStill(req'[q].dev, req'[q].node)
             /\ pc'[q] = "idle" => /\ req'[q].row.key = None
                                   /\ req'[q].row.node = None
                                   /\ req'[q].node = None
  <2>1. CASE pc[q] = "idle"
    BY <1>1, <2>1 DEF Origin, Still, NodeStill
  <2>2. CASE pc[q] # "idle"
    <3>1. req[q].dev \in Devices
      BY <2>2 DEF IInv, TypeOK
    <3> QED BY <1>1, <1>2, <1>3, <2>2, <3>1 DEF Origin
  <2> QED BY <2>1, <2>2
<1>8. \A e \in audit : AboutNode(e) => NodeStill(e.dev, e.about)
  BY <1>0, <1>2 DEF Origin, AboutNode, Event
<1>9. \A n \in Requests : nodes'[n].names \subseteq nodes'[n].bore
  BY <1>1 DEF Origin
<1> QED
  BY <1>1, <1>5, <1>6, <1>7, <1>8, <1>9 DEF Origin, From, NodeFrom, PassesFor,
     Owner, Still, NodeStill, AboutNode

\* The factory and failures touch no name, and what happens outside keeps the
\* names that were.
LEMMA OthersOrigin ==
    ASSUME IInv, Origin,
           \/ \E d \in Devices : Register(d)
           \/ Disturbance \/ Outside \/ UNCHANGED vars
    PROVE  Origin'
<1>0. /\ pc \in [Requests -> Labels] /\ dev \in [Devices -> Row]
      /\ audit \subseteq Event /\ TypeOK
  BY DEF IInv, TypeOK
<1>1. /\ req' = req
      /\ \A d \in Devices : dev'[d].key = dev[d].key /\ dev'[d].node = dev[d].node
      /\ \A q \in Requests : pc'[q] = "idle" <=> pc[q] = "idle"
      /\ \A e \in audit' : e \in audit \/ ~ AboutNode(e)
  <2> USE DEF AboutNode
  <2>1. ASSUME NEW d \in Devices, Register(d) PROVE <1>1!:
    BY <1>0, <2>1 DEF Register, Row
  <2>2. ASSUME NEW r \in Requests, StatementFails(r) PROVE <1>1!:
    BY <1>0, <2>2 DEF StatementFails, Goto, registry
  <2>3. ASSUME NEW r \in Requests, ConnectionLost(r) PROVE <1>1!:
    BY <2>3 DEF ConnectionLost
  <2>4. CASE Crash
    BY <1>0, <2>4 DEF Crash
  <2>5. CASE Outside
    BY <2>5 DEF Outside, KeyTimeout, Join, Rename, Leave, registry
  <2>6. CASE UNCHANGED vars
    BY <2>6 DEF vars
  <2> QED BY <2>1, <2>2, <2>3, <2>4, <2>5, <2>6 DEF Disturbance
<1>2. \A n \in Requests : /\ nodes'[n].names \subseteq nodes'[n].bore
                          /\ nodes[n].bore \subseteq nodes'[n].bore
  <2>1. CASE Outside
    BY <1>0, <2>1, OutsideNodes DEF Origin
  <2>2. CASE nodes' = nodes
    BY <2>2 DEF Origin
  <2> QED
    BY <2>1, <2>2 DEF Register, Disturbance, StatementFails, ConnectionLost,
       Crash, vars, network
<1>3. \A x \in RequestOrNone : \A d : /\ From(d, x) => Still(d, x)
                                      /\ NodeFrom(d, x) => NodeStill(d, x)
  BY <1>1, <1>2 DEF From, NodeFrom, PassesFor, Still, NodeStill, Owner,
     RequestOrNone
<1>4. \A q \in Requests : /\ req[q].row.key \in RequestOrNone
                          /\ req[q].row.node \in RequestOrNone
                          /\ req[q].node \in RequestOrNone
  BY DEF IInv, TypeOK, Handler, Row
<1>5. \A e \in Devices : /\ dev[e].key \in RequestOrNone
                         /\ dev[e].node \in RequestOrNone
  BY <1>0 DEF Row
<1>6. \A e \in Devices : Still(e, dev'[e].key) /\ NodeStill(e, dev'[e].node)
  BY <1>1, <1>3, <1>5 DEF Origin
<1>7. \A q \in Requests : /\ Still(req[q].dev, req[q].row.key)
                          /\ NodeStill(req[q].dev, req[q].row.node)
                          /\ NodeStill(req[q].dev, req[q].node)
  BY <1>3, <1>4 DEF Origin
<1>8. \A q \in Requests : pc'[q] = "idle" =>
        req[q].row.key = None /\ req[q].row.node = None /\ req[q].node = None
  BY <1>1 DEF Origin
<1>9. \A e \in audit' : AboutNode(e) => NodeStill(e.dev, e.about)
  BY <1>0, <1>1, <1>3 DEF Origin, AboutNode, Event
<1> QED
  BY <1>1, <1>2, <1>6, <1>7, <1>8, <1>9 DEF Origin, From, NodeFrom, PassesFor,
     Owner, Still, NodeStill, AboutNode

\* Origins are kept by every step, and true at the start.
LEMMA OriginInvariant == Spec => []Origin
<1>1. Init => Origin
  BY DEF Init, Origin, From, NodeFrom, NoRow, NoNode
<1>2. IInv /\ NodesShown /\ Origin /\ [Next]_vars => Origin'
  <2> SUFFICES ASSUME IInv, NodesShown, Origin, [Next]_vars PROVE Origin'
    OBVIOUS
  <2> QED
    BY StepOrigin, BeginOrigin, OthersOrigin DEF Next, Settled
<1> QED
  BY <1>1, <1>2, Invariance, NodesShownInvariant, PTL DEF Spec

-----------------------------------------------------------------------------
(* The audit trail accounts for the rows. *)

\* States of a row never go back, and each event comes with its state.
LEMMA WritesState ==
    ASSUME TypeOK, NEW r \in Requests, req[r].dev \in Devices,
           NEW ev, Writes(r, ev)
    PROVE  LET old == dev[req[r].dev].state
               new == dev'[req[r].dev].state
           IN  /\ old \in {"CLAIMED", "REVOKED"} => new \in {"CLAIMED", "REVOKED"}
               /\ old = "REVOKED" => new = "REVOKED"
               /\ ev.action = "CLAIMED" => old = "PENDING" /\ new = "CLAIMED"
               /\ ev.action = "REVOKED" => old # "REVOKED" /\ new = "REVOKED"
               /\ new = old \/ ev.action = new
BY DEF Writes

\* Whoever writes it, an event that comes with its state keeps the accounts.
LEMMA TrailOfStateKept ==
    ASSUME TypeOK, TrailOfState, NEW d \in Devices, NEW ev,
           audit' = audit \cup {ev}, ev.dev = d,
           \A e \in Devices \ {d} : dev'[e] = dev[e],
           dev[d].state \in {"CLAIMED", "REVOKED"} =>
              dev'[d].state \in {"CLAIMED", "REVOKED"},
           dev[d].state = "REVOKED" => dev'[d].state = "REVOKED",
           ev.action = "CLAIMED" =>
              dev[d].state \in {"NONE", "PENDING"} /\ dev'[d].state = "CLAIMED",
           ev.action = "REVOKED" =>
              dev[d].state # "REVOKED" /\ dev'[d].state = "REVOKED",
           \/ dev'[d].state = dev[d].state
           \/ dev'[d].state \in {"CLAIMED", "REVOKED"} => ev.action = dev'[d].state
    PROVE  TrailOfState'
<1>0. \A e \in audit : e.dev \in Devices
  BY DEF TypeOK, Event
<1>1. \A e \in audit :
        /\ e.action = "CLAIMED" => dev'[e.dev].state \in {"CLAIMED", "REVOKED"}
        /\ e.action = "REVOKED" => dev'[e.dev].state = "REVOKED"
  BY <1>0 DEF TrailOfState
<1>2. \A e \in audit : e.dev = d => \/ e.action \notin {"CLAIMED", "REVOKED"}
                                    \/ e.action # ev.action
  BY DEF TrailOfState
<1>3. \A e, f \in audit' :
        e.action = f.action /\ e.action \in {"CLAIMED", "REVOKED"}
        /\ e.dev = f.dev => e = f
  BY <1>2 DEF TrailOfState
<1>4. ASSUME NEW c \in Devices, dev'[c].state \in {"CLAIMED", "REVOKED"}
      PROVE  \E e \in audit' : e.action = dev'[c].state /\ e.dev = c
  BY <1>4 DEF TrailOfState
<1> QED
  BY <1>1, <1>3, <1>4 DEF TrailOfState

\* The key and the node of a row are in the trail, when the row is written
\* with an event about them.
LEMMA TrailOfNamesKept ==
    ASSUME TypeOK, TrailOfNames, audit \subseteq audit',
           \A d \in Devices :
              \/ dev'[d].key \in {dev[d].key, None}
              \/ \E e \in audit' : /\ e.action \in {"CLAIMED", "KEY_REISSUED"}
                                   /\ e.dev = d /\ e.about = dev'[d].key,
           \A d \in Devices :
              \/ dev'[d].node \in {dev[d].node, None}
              \/ \E e \in audit' : /\ e.action = "NODE_SEEN"
                                   /\ e.dev = d /\ e.about = dev'[d].node,
           \A r \in Requests :
              r \in shown' \/ (pc'[r] = "respond" /\ req'[r].holds) =>
                 \/ r \in shown \/ (pc[r] = "respond" /\ req[r].holds)
                 \/ \E e \in audit' : e.about = r /\ e.req = r
    PROVE  TrailOfNames'
<1>1. ASSUME NEW d \in Devices, dev'[d].key # None
      PROVE  \E e \in audit' : /\ e.action \in {"CLAIMED", "KEY_REISSUED"}
                               /\ e.dev = d /\ e.about = dev'[d].key
  BY <1>1 DEF TrailOfNames
<1>2. ASSUME NEW d \in Devices, dev'[d].node # None
      PROVE  \E e \in audit' : /\ e.action = "NODE_SEEN"
                               /\ e.dev = d /\ e.about = dev'[d].node
  BY <1>2 DEF TrailOfNames
<1>3. ASSUME NEW r \in Requests,
             r \in shown' \/ (pc'[r] = "respond" /\ req'[r].holds)
      PROVE  \E e \in audit' : e.about = r /\ e.req = r
  BY <1>3 DEF TrailOfNames
<1> QED BY <1>1, <1>2, <1>3 DEF TrailOfNames

\* A step of a handler keeps the accounts.
LEMMA StepTrail ==
    ASSUME IInv, TrailOfState, TrailOfNames, NEW r \in Requests, Step(r)
    PROVE  TrailOfState' /\ TrailOfNames'
<1> DEFINE d == req[r].dev
<1>0. /\ TypeOK /\ pc \in [Requests -> Labels] /\ dev \in [Devices -> Row]
      /\ shown \subseteq Requests
  BY DEF IInv, TypeOK
<1>1. d \in Devices /\ pc[r] # "idle"
  BY <1>0, StepFrame DEF TypeOK
<1>2. \A q \in Requests \ {r} : pc'[q] = pc[q] /\ req'[q] = req[q]
  BY <1>0, StepFrame
<1>3. \A q \in Requests : q \in shown' =>
        q \in shown \/ (pc[q] = "respond" /\ req[q].holds)
  BY StepShown
<1>4. CASE UNCHANGED <<dev, audit>> /\ pc'[r] # "respond"
  <2>1. TrailOfState'
    BY <1>4 DEF TrailOfState
  <2>2. TrailOfNames'
    BY <1>0, <1>2, <1>3, <1>4, TrailOfNamesKept
  <2> QED BY <2>1, <2>2
<1>5. ASSUME NEW ev, Writes(r, ev) PROVE TrailOfState' /\ TrailOfNames'
  <2>1. /\ audit' = audit \cup {ev} /\ ev.dev = d /\ ev.req = r
        /\ \A e \in Devices \ {d} : dev'[e] = dev[e]
    BY <1>5 DEF Writes
  <2>2. TrailOfState'
    BY <1>0, <1>1, <1>5, <2>1, WritesState, TrailOfStateKept
  <2>3. /\ \/ dev'[d].key \in {dev[d].key, None}
           \/ ev.action \in {"CLAIMED", "KEY_REISSUED"} /\ ev.about = dev'[d].key
        /\ \/ dev'[d].node = dev[d].node
           \/ ev.action = "NODE_SEEN" /\ ev.about = dev'[d].node
    BY <1>5 DEF Writes
  <2>4. pc'[r] = "respond" /\ req'[r].holds => ev.about = r /\ ev.req = r
    <3>1. pc'[r] = "respond" => ev.action \in {"CLAIMED", "KEY_REISSUED"}
      BY <1>5 DEF Writes
    <3>2. pc[r] = "commit" => req'[r].holds = req[r].holds
      BY <1>0, StepFields
    <3> QED BY <1>5, <3>1, <3>2 DEF Writes
  <2>5. TrailOfNames'
    BY <1>0, <1>1, <1>2, <1>3, <2>1, <2>3, <2>4, TrailOfNamesKept
  <2> QED BY <2>2, <2>5
<1> QED BY <1>0, <1>4, <1>5, StepRegistry

\* The rest writes no event but that of a registration.
LEMMA OthersTrail ==
    ASSUME IInv, TrailOfState, TrailOfNames,
           \/ \E d \in Devices : Register(d)
           \/ \E r \in Requests, op \in AllOperations, d \in Devices :
                 Begin(r, op, d)
           \/ Disturbance \/ Outside \/ UNCHANGED vars
    PROVE  TrailOfState' /\ TrailOfNames'
<1>0. /\ TypeOK /\ pc \in [Requests -> Labels] /\ dev \in [Devices -> Row]
      /\ req \in [Requests -> Handler]
  BY DEF IInv, TypeOK
<1>1. /\ shown' = shown
      /\ \A q \in Requests : /\ pc'[q] = "respond" => pc[q] = "respond"
                             /\ req'[q].holds = req[q].holds
  <2>1. ASSUME NEW d \in Devices, Register(d) PROVE <1>1!:
    BY <2>1 DEF Register, network
  <2>2. ASSUME NEW r \in Requests, NEW op, NEW d \in Devices, Begin(r, op, d)
        PROVE  <1>1!:
    BY <1>0, <2>2 DEF Begin, Goto, network, Handler
  <2>3. ASSUME NEW r \in Requests, StatementFails(r) PROVE <1>1!:
    BY <1>0, <2>3 DEF StatementFails, Goto, network
  <2>4. ASSUME NEW r \in Requests, ConnectionLost(r) PROVE <1>1!:
    BY <2>4 DEF ConnectionLost, network
  <2>5. CASE Crash
    BY <1>0, <2>5 DEF Crash, network
  <2>6. CASE Outside
    BY <2>6 DEF Outside, KeyTimeout, Join, Rename, Leave
  <2>7. CASE UNCHANGED vars
    BY <2>7 DEF vars
  <2> QED BY <2>1, <2>2, <2>3, <2>4, <2>5, <2>6, <2>7 DEF Disturbance
<1>2. ASSUME NEW d \in Devices, Register(d)
      PROVE  TrailOfState' /\ TrailOfNames'
  <2> DEFINE ev == [action |-> "REGISTERED", dev |-> d, req |-> None,
                    about |-> None]
  <2>1. /\ audit' = audit \cup {ev} /\ ev.dev = d /\ ev.action = "REGISTERED"
        /\ dev[d].state = "NONE" /\ dev'[d].state = "PENDING"
        /\ dev'[d].key = dev[d].key /\ dev'[d].node = dev[d].node
        /\ \A e \in Devices \ {d} : dev'[e] = dev[e]
    BY <1>0, <1>2 DEF Register, Row
  <2> HIDE DEF ev
  <2>2. TrailOfState'
    BY <1>0, <2>1, TrailOfStateKept
  <2>3. TrailOfNames'
    BY <1>0, <1>1, <2>1, TrailOfNamesKept
  <2> QED BY <2>2, <2>3
<1>3. CASE UNCHANGED <<dev, audit>>
  <2>1. TrailOfState'
    BY <1>3 DEF TrailOfState
  <2>2. TrailOfNames'
    BY <1>0, <1>1, <1>3, TrailOfNamesKept
  <2> QED BY <2>1, <2>2
<1> QED
  BY <1>2, <1>3 DEF Begin, Disturbance, StatementFails, ConnectionLost, Crash,
     Outside, KeyTimeout, Join, Rename, Leave, registry, vars

\* The trail accounts for the rows in every behaviour.
LEMMA TrailInvariant == Spec => [](TrailOfState /\ TrailOfNames)
<1>1. Init => TrailOfState /\ TrailOfNames
  BY DEF Init, TrailOfState, TrailOfNames, NoRow
<1>2. IInv /\ TrailOfState /\ TrailOfNames /\ [Next]_vars
      => (TrailOfState /\ TrailOfNames)'
  <2> SUFFICES ASSUME IInv, TrailOfState, TrailOfNames, [Next]_vars
               PROVE  (TrailOfState /\ TrailOfNames)'
    OBVIOUS
  <2> QED
    BY StepTrail, OthersTrail DEF Next, Settled
<1> QED
  BY <1>1, <1>2, Invariance, PTL DEF Spec

\* A set whose members are all the same has one, or none.
LEMMA AtMostOne ==
    ASSUME NEW S, \A x, y \in S : x = y
    PROVE  Cardinality(S) = IF S = {} THEN 0 ELSE 1
<1>1. CASE S = {}
  BY <1>1, FS_EmptySet
<1>2. CASE S # {}
  <2>1. PICK x \in S : TRUE
    BY <1>2
  <2>2. S = {x}
    BY <2>1
  <2> QED BY <1>2, <2>2, FS_Singleton
<1> QED BY <1>1, <1>2

\* add_event of claim_flow.py, in the transaction of the change it reports:
\* whatever overlaps and fails, the trail has each claim and each revocation
\* once, and names every key that is out, the key and the node of every row.
THEOREM AuditAccountsHolds == Spec => []AuditAccounts
<1>1. TypeOK /\ TrailOfState /\ TrailOfNames => AuditAccounts
  <2> SUFFICES ASSUME TypeOK, TrailOfState, TrailOfNames PROVE AuditAccounts
    OBVIOUS
  <2>1. ASSUME NEW d \in Devices, NEW action \in {"CLAIMED", "REVOKED"}
        PROVE  Cardinality(Logged(action, d)) =
                  IF Logged(action, d) = {} THEN 0 ELSE 1
    <3>1. \A e, f \in Logged(action, d) : e = f
      BY <2>1 DEF TrailOfState, Logged
    <3> QED BY <3>1, AtMostOne
  <2>2. ASSUME NEW d \in Devices
        PROVE  /\ Logged("REVOKED", d) # {} <=> dev[d].state = "REVOKED"
               /\ dev[d].state = "CLAIMED" => Logged("CLAIMED", d) # {}
    BY DEF TrailOfState, Logged
  <2>3. ASSUME NEW d \in Devices
        PROVE  /\ Cardinality(Logged("CLAIMED", d)) <= 1
               /\ Cardinality(Logged("REVOKED", d)) =
                     IF dev[d].state = "REVOKED" THEN 1 ELSE 0
    BY <2>1, <2>2
  <2>4. ASSUME NEW d \in Devices
        PROVE  /\ dev[d].key # None =>
                    \E e \in Logged("CLAIMED", d) \cup Logged("KEY_REISSUED", d) :
                        e.about = dev[d].key
               /\ dev[d].node # None =>
                    \E e \in Logged("NODE_SEEN", d) : e.about = dev[d].node
    BY DEF TrailOfNames, Logged
  <2>5. \A k \in shown : \E e \in audit : e.about = k /\ e.req = k
    BY DEF TrailOfNames, TypeOK
  <2> QED BY <2>2, <2>3, <2>4, <2>5 DEF AuditAccounts
<1> QED BY TypeCorrect, TrailInvariant, <1>1, PTL

\* _match_node: the node that a row, a revocation or the audit trail names was
\* admitted by a key of the device or has gone by the device's UUID, whatever
\* joined, left and was renamed between the listing and its use. So a fleet in
\* which no node ever bears a sibling's UUID has every node where it belongs.
THEOREM NodeAttributionHolds == Spec => []NodeAttribution
<1>1. Origin => NodeAttribution
  BY DEF Origin, NodeFrom, NodeAttribution
<1> QED BY OriginInvariant, <1>1, PTL

-----------------------------------------------------------------------------
(* The twin. *)

\* Only a revocation about to commit marks the twin.
LEMMA StepTwin ==
    ASSUME TypeOK, LabelOfHandler, NEW r \in Requests, Step(r)
    PROVE  \/ \A d \in Devices : twins'[d] \in {twins[d], "absent", "CLAIMED"}
           \/ /\ req[r].op = "revoke" /\ pc[r] = "patch" /\ pc'[r] = "commit"
              /\ \A d \in Devices \ {req[r].dev} : twins'[d] = twins[d]
<1>0. /\ pc \in [Requests -> Labels]
      /\ twins \in [Devices -> {"absent", "CLAIMED", "REVOKED"}]
  BY DEF TypeOK
<1>1. CASE PatchTwin(r)
  BY <1>0, <1>1 DEF PatchTwin, Onward, Goto, LabelOfHandler
<1>2. CASE UpsertTwin(r)
  BY <1>0, <1>2 DEF UpsertTwin
<1>3. CASE UndoTwin(r)
  BY <1>0, <1>3 DEF UndoTwin
<1>4. CASE UNCHANGED twins
  BY <1>4
<1> QED
  BY <1>1, <1>2, <1>3, <1>4 DEF Step, ClaimLock, ReissueLock, RevokeLock,
     Reject, EnsureUser, MintKey, ReissueNodes, RevokeNodes, DeleteNode,
     ListKeys, ExpireUnused, ClaimCommit, ReissueCommit, RevokeCommit, Respond,
     UndoKey, ViewRead, ViewNodes, ViewSave

\* A revocation leaves "commit" with the row revoked, or failed.
LEMMA StepFromCommit ==
    ASSUME TypeOK, NEW r \in Requests, Step(r), pc[r] = "commit",
           req[r].op = "revoke"
    PROVE  dev'[req[r].dev].state = "REVOKED" \/ pc'[r] = "failed"
<1>0. /\ pc \in [Requests -> Labels] /\ req[r].dev \in Devices
      /\ dev \in [Devices -> Row]
  BY DEF TypeOK
<1>1. RevokeCommit(r)
  BY DEF Step, ClaimLock, ReissueLock, RevokeLock, Reject, EnsureUser,
     UpsertTwin, MintKey, ReissueNodes, RevokeNodes, DeleteNode, ListKeys,
     ExpireUnused, PatchTwin, ClaimCommit, ReissueCommit, Respond, UndoKey,
     UndoTwin, ViewRead, ViewNodes, ViewSave
<1>2. \/ dev' = [dev EXCEPT ![req[r].dev] =
                   [dev[req[r].dev] EXCEPT !.state = "REVOKED"]]
      \/ pc'[r] = "failed"
  BY <1>0, <1>1 DEF RevokeCommit, Commit, Written, Raise, Goto, AfterFailure
<1> QED BY <1>0, <1>2 DEF Row

\* Of the witness of a marked twin, when nobody takes it a step.
LEMMA TwinKept ==
    ASSUME TypeOK, TwinNotAheadOfRow,
           \A d \in Devices : dev[d].state = "REVOKED" => dev'[d].state = "REVOKED",
           \A d \in Devices : twins'[d] \in {twins[d], "absent", "CLAIMED"},
           \A r \in Requests :
              req[r].op = "revoke" /\ pc[r] \in {"commit", "failed", "lost"} =>
                 \/ dev'[req[r].dev].state = "REVOKED"
                 \/ /\ req'[r].op = "revoke" /\ req'[r].dev = req[r].dev
                    /\ pc'[r] \in {"commit", "failed", "lost"}
    PROVE  TwinNotAheadOfRow'
<1> SUFFICES ASSUME NEW d \in Devices, twins'[d] = "REVOKED",
                    dev'[d].state # "REVOKED"
             PROVE  \E r \in Requests :
                       /\ req'[r].op = "revoke" /\ req'[r].dev = d
                       /\ pc'[r] \in {"commit", "failed", "lost"}
  BY DEF TwinNotAheadOfRow
<1>1. PICK r \in Requests : /\ req[r].op = "revoke" /\ req[r].dev = d
                            /\ pc[r] \in {"commit", "failed", "lost"}
  BY DEF TwinNotAheadOfRow
<1> QED BY <1>1

\* Claims, reissues and revocations overlap and fail: the twin says REVOKED
\* only when the row does, or a revocation is about to commit or could not.
THEOREM TwinNotAheadOfRowHolds == Spec => []TwinNotAheadOfRow
<1>1. Init => TwinNotAheadOfRow
  BY DEF Init, TwinNotAheadOfRow
<1>2. IInv /\ TwinNotAheadOfRow /\ [Next]_vars => TwinNotAheadOfRow'
  <2> SUFFICES ASSUME IInv, TwinNotAheadOfRow, [Next]_vars
               PROVE  TwinNotAheadOfRow'
    OBVIOUS
  <2>0. /\ TypeOK /\ LabelOfHandler /\ pc \in [Requests -> Labels]
        /\ dev \in [Devices -> Row]
        /\ req \in [Requests -> Handler]
    BY DEF IInv, TypeOK
  <2>1. ASSUME NEW r \in Requests, Step(r) PROVE TwinNotAheadOfRow'
    <3>1. \A d \in Devices :
            dev[d].state = "REVOKED" => dev'[d].state = "REVOKED"
      <4>1. ASSUME NEW ev, Writes(r, ev) PROVE <3>1!:
        BY <4>1 DEF Writes
      <4> QED BY <2>0, <2>1, <4>1, StepRegistry
    <3>2. /\ pc[r] \notin Ended /\ req'[r].op = req[r].op
          /\ req'[r].dev = req[r].dev
          /\ \A q \in Requests \ {r} : pc'[q] = pc[q] /\ req'[q] = req[q]
      BY <2>0, <2>1, StepFrame
    <3>3. \A q \in Requests :
            req[q].op = "revoke" /\ pc[q] \in {"commit", "failed", "lost"} =>
               \/ dev'[req[q].dev].state = "REVOKED"
               \/ /\ req'[q].op = "revoke" /\ req'[q].dev = req[q].dev
                  /\ pc'[q] \in {"commit", "failed", "lost"}
      BY <2>0, <2>1, <3>2, StepFromCommit DEF Ended
    <3>4. CASE \A d \in Devices : twins'[d] \in {twins[d], "absent", "CLAIMED"}
      BY <2>0, <3>1, <3>3, <3>4, TwinKept
    <3>5. CASE /\ req[r].op = "revoke" /\ pc[r] = "patch" /\ pc'[r] = "commit"
               /\ \A d \in Devices \ {req[r].dev} : twins'[d] = twins[d]
      BY <3>1, <3>2, <3>3, <3>5 DEF TwinNotAheadOfRow
    <3> QED BY <2>0, <2>1, <3>4, <3>5, StepTwin
  <2>2. ASSUME \/ \E d \in Devices : Register(d)
               \/ \E r \in Requests, op \in AllOperations, d \in Devices :
                     Begin(r, op, d)
               \/ Disturbance \/ Outside \/ UNCHANGED vars
        PROVE  TwinNotAheadOfRow'
    <3>1. /\ twins' = twins
          /\ \A d \in Devices :
                dev[d].state = "REVOKED" => dev'[d].state = "REVOKED"
          /\ \A r \in Requests : pc[r] # "idle" =>
                req'[r].op = req[r].op /\ req'[r].dev = req[r].dev
          /\ \A r \in Requests : pc[r] \in {"commit", "failed", "lost"} =>
                pc'[r] \in {"commit", "failed", "lost"}
      <4>1. ASSUME NEW d \in Devices, Register(d) PROVE <3>1!:
        BY <2>0, <4>1 DEF Register, Row
      <4>2. ASSUME NEW r \in Requests, NEW op, NEW d \in Devices, Begin(r, op, d)
            PROVE  <3>1!:
        BY <2>0, <4>2 DEF Begin, Goto, registry, Handler
      <4>3. ASSUME NEW r \in Requests, StatementFails(r) PROVE <3>1!:
        BY <2>0, <4>3 DEF StatementFails, Goto, registry
      <4>4. ASSUME NEW r \in Requests, ConnectionLost(r) PROVE <3>1!:
        BY <4>4 DEF ConnectionLost
      <4>5. CASE Crash
        BY <2>0, <4>5 DEF Crash, Ended
      <4>6. CASE Outside
        BY <4>6 DEF Outside, KeyTimeout, Join, Rename, Leave, registry
      <4>7. CASE UNCHANGED vars
        BY <4>7 DEF vars
      <4> QED
        BY <2>2, <4>1, <4>2, <4>3, <4>4, <4>5, <4>6, <4>7 DEF Disturbance
    <3> QED BY <2>0, <3>1, TwinKept
  <2> QED
    BY <2>1, <2>2 DEF Next, Settled
<1> QED
  BY <1>1, <1>2, Invariance, PTL DEF Spec

-----------------------------------------------------------------------------
(* One failure is undone. *)

\* The failures that OneFailure leaves: no answer is lost, no process dies, and
\* nothing fails after the first failure.
LEMMA FailsOnce ==
    ASSUME OneFailure, TypeOK, NEW outcome, Counted(outcome)
    PROVE  /\ outcome \in {"ok", "error", "db"}
           /\ faults' >= faults
           /\ outcome # "ok" => faults = 0 /\ faults' = 1
<1>1. faults \in Nat /\ MaxFaults \in Nat /\ MaxFaults <= 1
  BY ProvisioningAssumption DEF OneFailure, TypeOK
<1>2. outcome = "ok" \/ outcome \in {"error", "db"}
  BY DEF OneFailure, Counted
<1>3. IF outcome = "ok" THEN faults' = faults
      ELSE faults < MaxFaults /\ faults' = faults + 1
  BY DEF Counted
<1> QED BY <1>1, <1>2, <1>3

\* Only MintKey makes a key live, its own.
LEMMA StepKeys ==
    ASSUME TypeOK, NEW r \in Requests, Step(r)
    PROVE  \A q \in Requests : keys'[q] = "live" =>
              keys[q] = "live" \/ (q = r /\ MintKey(r))
<1>0. keys \in [Requests -> {"absent", "live", "used", "expired"}]
  BY DEF TypeOK
<1>1. CASE MintKey(r)
  BY <1>0, <1>1 DEF MintKey
<1>2. CASE ExpireUnused(r) \/ UndoKey(r)
  BY <1>0, <1>2 DEF ExpireUnused, UndoKey, Expired
<1>3. CASE UNCHANGED keys
  BY <1>3
<1> QED
  BY <1>1, <1>2, <1>3 DEF Step, ClaimLock, ReissueLock, RevokeLock, Reject,
     EnsureUser, UpsertTwin, ReissueNodes, RevokeNodes, DeleteNode, ListKeys,
     PatchTwin, ClaimCommit, ReissueCommit, RevokeCommit, Respond, UndoTwin,
     ViewRead, ViewNodes, ViewSave, network

\* What a request has to undo, and a state it has found, are left.
Working == InTransaction \cup {"respond", "undoKey", "undoTwin"}

Found(r, state) ==
    /\ req[r].op = "claim" => state \in {"PENDING", "CLAIMED", "REVOKED"}
    /\ req[r].op = "reissue" => state \in {"CLAIMED", "REVOKED"}

\* A handler sets to work on the state it needs.
LEMMA StepFound ==
    ASSUME TypeOK, LabelOfHandler, NEW r \in Requests, Step(r),
           pc'[r] \in Working
    PROVE  pc[r] \in Working \/ Found(r, dev[req[r].dev].state)
<1>0. /\ pc \in [Requests -> Labels] /\ dev \in [Devices -> Row]
      /\ req[r].dev \in Devices
  BY StepFrame DEF TypeOK
<1> USE DEF Goto, Working, Found, InTransaction
<1>1. CASE ClaimLock(r) \/ ReissueLock(r) \/ RevokeLock(r)
  BY <1>0, <1>1 DEF ClaimLock, ReissueLock, RevokeLock, Lock, Turned,
     OnTailnet
<1>2. CASE ViewRead(r) \/ ViewNodes(r) \/ ViewSave(r)
  BY <1>0, <1>2 DEF ViewRead, ViewNodes, ViewSave, Saved, LabelOfHandler
<1>3. CASE Reject(r)
  BY <1>0, <1>3 DEF Reject, Saved
<1> QED
  BY <1>1, <1>2, <1>3 DEF Step, EnsureUser, UpsertTwin, MintKey, ReissueNodes,
     RevokeNodes, DeleteNode, ListKeys, ExpireUnused, PatchTwin, ClaimCommit,
     ReissueCommit, RevokeCommit, Respond, UndoKey, UndoTwin

\* A handler takes the state of a row forward, and past PENDING at once.
Forward(old, new) ==
    /\ new \in {"NONE", "PENDING"} => new = old
    /\ old \in {"CLAIMED", "REVOKED"} => new \in {"CLAIMED", "REVOKED"}
    /\ old = "PENDING" => new \in {"PENDING", "CLAIMED", "REVOKED"}

LEMMA StepForward ==
    ASSUME TypeOK, NEW r \in Requests, Step(r), NEW d \in Devices
    PROVE  Forward(dev[d].state, dev'[d].state)
<1>1. ASSUME NEW ev, Writes(r, ev)
      PROVE  Forward(dev[d].state, dev'[d].state)
  BY <1>1 DEF Writes, Forward
<1>2. CASE UNCHANGED dev
  BY <1>2 DEF Forward
<1> QED BY <1>1, <1>2, StepRegistry

\* A handler at work has found the state it needs.
LEMMA StepPastState ==
    ASSUME IInv, \A q \in Requests : PastState(q), NEW r \in Requests, Step(r)
    PROVE  \A q \in Requests : PastState(q)'
<1>0. /\ TypeOK /\ LabelOfHandler /\ pc \in [Requests -> Labels]
      /\ dev \in [Devices -> Row]
      /\ \A q \in Requests : pc[q] # "idle" => req[q].dev \in Devices
      /\ \A q \in Requests : keys[q] = "live" => pc[q] # "idle"
  BY DEF IInv, TypeOK, MintedOnce, BeforeMint
<1> SUFFICES ASSUME NEW q \in Requests, pc'[q] \in Working \/ keys'[q] = "live"
             PROVE  /\ Found(q, dev'[req[q].dev].state)
                    /\ req'[q].op = req[q].op /\ req'[q].dev = req[q].dev
  BY DEF PastState, Found, Working
<1>1. req'[q].op = req[q].op /\ req'[q].dev = req[q].dev
  BY <1>0, StepFrame
<1>2. /\ pc[q] \in Working \/ keys[q] = "live" \/ Found(q, dev[req[q].dev].state)
      /\ pc[q] # "idle"
  <2>1. CASE keys'[q] = "live"
    BY <1>0, <2>1, StepKeys, StepFrame DEF Working, InTransaction, MintKey
  <2>2. CASE pc'[q] \in Working
    BY <1>0, <2>2, StepFrame, StepFound DEF Working, InTransaction
  <2> QED BY <2>1, <2>2
<1>3. Found(q, dev[req[q].dev].state)
  BY <1>2 DEF PastState, Found, Working
<1>4. Forward(dev[req[q].dev].state, dev'[req[q].dev].state)
  BY <1>0, <1>2, StepForward
<1> QED BY <1>1, <1>3, <1>4 DEF Found, Forward

\* Failures are only counted, and nobody gives away the lock of another.
LEMMA StepCounts ==
    ASSUME TypeOK, NEW r \in Requests, Step(r)
    PROVE  /\ faults' >= faults
           /\ \A d \in Devices : \A q \in Requests \ {r} :
                 q \in lock'[d] <=> q \in lock[d]
<1>0. /\ faults \in Nat /\ lock \in [Devices -> SUBSET Requests]
  BY DEF TypeOK
<1> USE <1>0 DEF Counted, Raise, Released, Onward, registry
<1>1. CASE ClaimLock(r) \/ ReissueLock(r) \/ RevokeLock(r)
  BY <1>1 DEF ClaimLock, ReissueLock, RevokeLock, Lock, Turned
<1>2. CASE EnsureUser(r) \/ UpsertTwin(r) \/ MintKey(r)
  BY <1>2 DEF EnsureUser, UpsertTwin, MintKey
<1>3. CASE ReissueNodes(r) \/ RevokeNodes(r) \/ DeleteNode(r)
  BY <1>3 DEF ReissueNodes, RevokeNodes, DeleteNode, Refuse
<1>4. CASE ListKeys(r) \/ ExpireUnused(r) \/ PatchTwin(r)
  BY <1>4 DEF ListKeys, ExpireUnused, PatchTwin
<1>5. CASE ClaimCommit(r) \/ ReissueCommit(r) \/ RevokeCommit(r)
  BY <1>5 DEF ClaimCommit, ReissueCommit, RevokeCommit, Commit
<1>6. CASE Reject(r) \/ Respond(r) \/ UndoKey(r) \/ UndoTwin(r)
  BY <1>6 DEF Reject, Saved, Respond, UndoKey, UndoTwin
<1>7. CASE ViewRead(r) \/ ViewNodes(r) \/ ViewSave(r)
  BY <1>7 DEF ViewRead, ViewNodes, ViewSave, Saved
<1> QED BY <1>1, <1>2, <1>3, <1>4, <1>5, <1>6, <1>7 DEF Step

\* A handler of a claim loses the row lock by a failure only, and comes to
\* undoing by one.
LEMMA StepUndoAfterFailure ==
    ASSUME OneFailure, IInv, UndoAfterFailure, NEW r \in Requests, Step(r)
    PROVE  UndoAfterFailure'
<1>0. /\ TypeOK /\ LockedRow /\ pc \in [Requests -> Labels]
      /\ dev \in [Devices -> Row] /\ lock \in [Devices -> SUBSET Requests]
      /\ req \in [Requests -> Handler] /\ faults \in Nat
      /\ req[r].dev \in Devices
  BY StepFrame DEF IInv, TypeOK
<1>1. /\ faults' >= faults
      /\ \A d \in Devices : \A q \in Requests \ {r} : q \in lock'[d] <=> q \in lock[d]
  BY <1>0, StepCounts
<1>2. ASSUME req[r].op = "claim"
      PROVE  /\ pc'[r] \in {"undoKey", "undoTwin"} => faults' >= 1
             /\ pc'[r] \in InTransaction /\ r \notin lock'[req[r].dev] => faults' >= 1
  <2>0. /\ pc[r] \in {"undoKey", "undoTwin"} => faults >= 1
        /\ pc[r] \in InTransaction /\ r \notin lock[req[r].dev] => faults >= 1
    BY <1>2 DEF UndoAfterFailure
  <2> USE <1>0, <1>1, <1>2, <2>0 DEF Goto, Raise, Released, AfterFailure,
                                   Counted, InTransaction
  <2>1. CASE ClaimLock(r)
    BY <2>1 DEF ClaimLock, Lock, Turned
  <2>2. CASE Reject(r)
    BY <2>2 DEF Reject, Saved
  <2>3. CASE EnsureUser(r)
    BY <2>3 DEF EnsureUser, Onward
  <2>4. CASE UpsertTwin(r)
    BY <2>4 DEF UpsertTwin, Onward
  <2>5. CASE MintKey(r)
    BY <2>5 DEF MintKey, Onward
  <2>6. CASE ClaimCommit(r)
    BY <2>6 DEF ClaimCommit, Commit, LockedRow
  <2>7. CASE Respond(r) \/ UndoKey(r) \/ UndoTwin(r)
    BY <2>7 DEF Respond, UndoKey, UndoTwin
  <2>8. pc[r] \notin {"delete", "keys", "expire", "patch", "read", "save"}
    BY DEF IInv, LabelOfHandler
  <2>9. CASE ListKeys(r) \/ ExpireUnused(r) \/ PatchTwin(r) \/ DeleteNode(r)
             \/ ViewRead(r) \/ ViewSave(r)
    BY <2>8, <2>9 DEF ListKeys, ExpireUnused, PatchTwin, DeleteNode, ViewRead,
       ViewSave
  <2> QED
    BY <1>2, <2>1, <2>2, <2>3, <2>4, <2>5, <2>6, <2>7, <2>9 DEF Step,
       ReissueLock, RevokeLock, ReissueNodes, RevokeNodes, ReissueCommit,
       RevokeCommit, ViewNodes
<1>3. ASSUME NEW q \in Requests, req'[q].op = "claim"
      PROVE  /\ pc'[q] \in {"undoKey", "undoTwin"} => faults' >= 1
             /\ pc'[q] \in InTransaction /\ q \notin lock'[req'[q].dev] => faults' >= 1
  <2>1. CASE q = r
    BY <1>0, <1>2, <1>3, <2>1, StepFrame
  <2>2. CASE q # r
    <3>1. pc'[q] = pc[q] /\ req'[q] = req[q]
      BY <1>0, <2>2, StepFrame
    <3>2. pc[q] \in InTransaction => req[q].dev \in Devices
      BY <1>0 DEF TypeOK, InTransaction
    <3>3. faults' \in Nat
      BY <1>0, StepTypes DEF TypeOK
    <3>4. /\ pc[q] \in {"undoKey", "undoTwin"} => faults >= 1
          /\ pc[q] \in InTransaction /\ q \notin lock[req[q].dev] => faults >= 1
      BY <1>3, <3>1 DEF UndoAfterFailure
    <3>5. pc[q] \in InTransaction =>
            (q \in lock'[req[q].dev] <=> q \in lock[req[q].dev])
      BY <1>1, <2>2, <3>2
    <3>6. faults >= 1 => faults' >= 1
      BY <1>0, <1>1, <3>3
    <3> QED BY <3>1, <3>4, <3>5, <3>6
  <2> QED BY <2>1, <2>2
<1> QED
  BY <1>3 DEF UndoAfterFailure

\* A live key of a device that is still PENDING stays with its claim.
LEMMA StepKeyToUndo ==
    ASSUME OneFailure, IInv, UndoAfterFailure, KeyToUndo,
           \A q \in Requests : PastState(q), NEW r \in Requests, Step(r)
    PROVE  KeyToUndo'
<1>0. /\ TypeOK /\ LabelOfHandler /\ pc \in [Requests -> Labels]
      /\ dev \in [Devices -> Row] /\ req \in [Requests -> Handler]
      /\ keys \in [Requests -> {"absent", "live", "used", "expired"}]
      /\ faults \in Nat /\ req[r].dev \in Devices
      /\ \A q \in Requests : keys[q] = "live" => pc[q] # "idle"
      /\ \A q \in Requests : pc[q] # "idle" => req[q].dev \in Devices
  BY StepFrame DEF IInv, TypeOK, MintedOnce, BeforeMint
<1> SUFFICES ASSUME NEW q \in Requests, keys'[q] = "live",
                    dev'[req'[q].dev].state \in {"NONE", "PENDING"}
             PROVE  /\ req'[q].op = "claim" /\ req'[q].holds
                    /\ pc'[q] \in {"commit", "undoKey"}
  BY DEF KeyToUndo
<1>1. req'[q].op = req[q].op /\ req'[q].dev = req[q].dev
  BY <1>0, StepFrame
<1>2. pc[q] # "idle" /\ req[q].dev \in Devices
  BY <1>0, StepFrame, StepKeys
<1>3. dev[req[q].dev].state \in {"NONE", "PENDING"}
  BY <1>1, <1>2, <1>0, StepForward DEF Forward
<1>4. CASE q # r
  <2>1. /\ req[q].op = "claim" /\ req[q].holds
        /\ pc[q] \in {"commit", "undoKey"}
    BY <1>0, <1>3, <1>4, StepKeys DEF KeyToUndo
  <2> QED BY <1>0, <1>4, <2>1, StepFrame
<1>5. CASE q = r /\ MintKey(r)
  <2>1. pc[r] = "mint" /\ req[r].op \in {"claim", "reissue"}
    BY <1>0, <1>5 DEF MintKey, LabelOfHandler
  <2>2. req[r].op = "claim" /\ keys[r] = "absent"
    BY <1>3, <1>5, <2>1 DEF PastState, InTransaction, IInv, MintedOnce, BeforeMint
  <2>3. pc'[r] = "commit" /\ req'[r].holds
    BY <1>0, <1>5, <2>2, FailsOnce DEF MintKey, Onward, Goto, Effective,
       Outcomes, Handler
  <2> QED BY <1>1, <1>5, <2>2, <2>3
<1>6. CASE q = r /\ ~ MintKey(r)
  <2>1. /\ keys[r] = "live" /\ req[r].op = "claim" /\ req[r].holds
        /\ pc[r] \in {"commit", "undoKey"}
    BY <1>0, <1>3, <1>6, StepKeys DEF KeyToUndo
  <2>2. req'[r].holds
    BY <1>0, <2>1, StepFields
  <2>3. ClaimCommit(r) \/ UndoKey(r)
    BY <2>1 DEF Step, ClaimLock, ReissueLock, RevokeLock, Reject, EnsureUser,
       UpsertTwin, MintKey, ReissueNodes, RevokeNodes, DeleteNode, ListKeys,
       ExpireUnused, PatchTwin, ReissueCommit, RevokeCommit, Respond, UndoTwin,
       ViewRead, ViewNodes, ViewSave
  <2>4. ~ UndoKey(r)
    <3> SUFFICES ASSUME UndoKey(r) PROVE FALSE
      OBVIOUS
    <3>1. PICK outcome \in Outcomes :
            /\ Counted(outcome)
            /\ keys' = IF Effective(outcome) THEN Expired(r) ELSE keys
      BY DEF UndoKey
    <3>2. faults >= 1
      BY <2>1 DEF UndoAfterFailure, UndoKey
    <3>3. outcome = "ok"
      BY <1>0, <3>1, <3>2, FailsOnce
    <3> QED BY <1>0, <1>6, <2>1, <3>1, <3>3 DEF Effective, Expired
  <2>5. pc'[r] = "undoKey" \/ dev'[req[r].dev].state = "CLAIMED"
    <3>1. ClaimCommit(r)
      BY <2>3, <2>4
    <3>2. \/ dev' = dev /\ pc'[r] # "respond"
          \/ dev'[req[r].dev].state = "CLAIMED"
      BY <1>0, <2>1, <3>1, CommitRows DEF ReissueCommit, RevokeCommit
    <3>3. pc'[r] \in {"respond", "undoKey"}
      BY <1>0, <2>1, <3>1 DEF ClaimCommit, Commit, Raise, Goto, AfterFailure
    <3> QED BY <3>2, <3>3
  <2> QED BY <1>1, <1>6, <2>1, <2>2, <2>5
<1> QED BY <1>4, <1>5, <1>6

\* The twin of a device that is still PENDING stays with a claim.
LEMMA StepTwinToUndo ==
    ASSUME OneFailure, IInv, UndoAfterFailure, TwinToUndo,
           \A q \in Requests : PastState(q), NEW r \in Requests, Step(r)
    PROVE  TwinToUndo'
<1> DEFINE Holds(q, d) ==
             /\ req[q].op = "claim" /\ req[q].dev = d /\ req[q].twin
             /\ pc[q] \in {"mint", "commit", "undoKey", "undoTwin"}
           HoldsNow(q, d) ==
             /\ req'[q].op = "claim" /\ req'[q].dev = d /\ req'[q].twin
             /\ pc'[q] \in {"mint", "commit", "undoKey", "undoTwin"}
<1>0. /\ TypeOK /\ LabelOfHandler /\ pc \in [Requests -> Labels]
      /\ dev \in [Devices -> Row] /\ req \in [Requests -> Handler]
      /\ twins \in [Devices -> {"absent", "CLAIMED", "REVOKED"}]
      /\ faults \in Nat /\ req[r].dev \in Devices
  BY StepFrame DEF IInv, TypeOK
<1> SUFFICES ASSUME NEW d \in Devices, twins'[d] # "absent",
                    dev'[d].state \in {"NONE", "PENDING"}
             PROVE  \E q \in Requests : HoldsNow(q, d)
  BY DEF TwinToUndo
<1>1. dev[d].state = dev'[d].state
  BY <1>0, StepForward DEF Forward
<1>2. CASE UpsertTwin(r) /\ req[r].dev = d /\ pc'[r] \in {"mint", "commit"}
  <2>1. req[r].op = "claim" /\ req'[r].op = req[r].op /\ req'[r].dev = d
    BY <1>0, <1>2, StepFrame DEF LabelOfHandler, UpsertTwin
  <2>2. req'[r].twin
    BY <1>0, <1>2 DEF UpsertTwin, Raise, AfterFailure, Goto, Handler
  <2> QED BY <1>2, <2>1, <2>2
<1>3. \/ twins[d] # "absent"
      \/ UpsertTwin(r) /\ req[r].dev = d /\ pc'[r] \in {"mint", "commit"}
  <2>1. CASE UpsertTwin(r)
    <3>1. PICK outcome \in Outcomes :
            /\ Counted(outcome)
            /\ twins' = IF Effective(outcome)
                        THEN [twins EXCEPT ![req[r].dev] = "CLAIMED"] ELSE twins
            /\ outcome = "ok" => Onward(r, IF req[r].dev \in VpnDevices
                                           THEN "mint" ELSE "commit")
      BY <2>1 DEF UpsertTwin
    <3>2. outcome \in {"ok", "error"}
      BY <1>0, <3>1, FailsOnce DEF Outcomes
    <3> QED BY <1>0, <2>1, <3>1, <3>2 DEF Effective, Onward, Goto
  <2>2. CASE PatchTwin(r)
    BY <1>0, <2>2 DEF PatchTwin
  <2>3. CASE UndoTwin(r)
    BY <1>0, <2>3 DEF UndoTwin
  <2>4. CASE UNCHANGED twins
    BY <2>4
  <2> QED
    BY <2>1, <2>2, <2>3, <2>4 DEF Step, ClaimLock, ReissueLock, RevokeLock,
       Reject, EnsureUser, MintKey, ReissueNodes, RevokeNodes, DeleteNode,
       ListKeys, ExpireUnused, ClaimCommit, ReissueCommit, RevokeCommit,
       Respond, UndoKey, ViewRead, ViewNodes, ViewSave
<1>4. ASSUME NEW q \in Requests, Holds(q, d) PROVE HoldsNow(q, d)
  <2>1. CASE q # r
    BY <1>0, <1>4, <2>1, StepFrame
  <2>2. CASE q = r
    <3>0. req'[r].op = req[r].op /\ req'[r].dev = req[r].dev
      BY <1>0, StepFrame
    <3>1. MintKey(r) \/ ClaimCommit(r) \/ UndoKey(r) \/ UndoTwin(r)
      BY <1>4, <2>2 DEF Step, ClaimLock, ReissueLock, RevokeLock, Reject,
         EnsureUser, UpsertTwin, ReissueNodes, RevokeNodes, DeleteNode,
         ListKeys, ExpireUnused, PatchTwin, ReissueCommit, RevokeCommit,
         Respond, ViewRead, ViewNodes, ViewSave
    <3>2. req'[r].twin = req[r].twin
      BY <1>0, <3>1 DEF MintKey, ClaimCommit, UndoKey, UndoTwin, Handler
    <3>3. CASE MintKey(r)
      BY <1>0, <1>4, <2>2, <3>0, <3>2, <3>3 DEF MintKey, Onward, Raise,
         AfterFailure, Goto
    <3>4. CASE ClaimCommit(r)
      <4>1. \/ dev' = dev /\ pc'[r] # "respond"
            \/ dev'[req[r].dev].state = "CLAIMED"
        BY <1>0, <3>4, CommitRows DEF ReissueCommit, RevokeCommit, ClaimCommit
      <4>2. pc'[r] \in {"respond", "undoKey", "undoTwin"}
        BY <1>0, <1>4, <2>2, <3>4 DEF ClaimCommit, Commit, Raise, Goto,
           AfterFailure
      <4> QED BY <1>4, <2>2, <3>0, <3>2, <4>1, <4>2
    <3>5. CASE UndoKey(r)
      BY <1>0, <1>4, <2>2, <3>0, <3>2, <3>5 DEF UndoKey, Goto
    <3>6. CASE UndoTwin(r)
      <4>1. PICK outcome \in Outcomes :
              /\ Counted(outcome)
              /\ twins' = IF Effective(outcome)
                          THEN [twins EXCEPT ![req[r].dev] = "absent"] ELSE twins
        BY <3>6 DEF UndoTwin
      <4>2. faults >= 1
        BY <1>4, <2>2, <3>6 DEF UndoAfterFailure, UndoTwin
      <4>3. outcome = "ok"
        BY <1>0, <4>1, <4>2, FailsOnce
      <4> QED BY <1>0, <1>4, <2>2, <4>1, <4>3 DEF Effective
    <3> QED BY <3>1, <3>3, <3>4, <3>5, <3>6
  <2> QED BY <2>1, <2>2
<1> QED BY <1>1, <1>2, <1>3, <1>4 DEF TwinToUndo

\* What happens between the steps of the handlers keeps it all.
LEMMA OthersUndoing ==
    ASSUME OneFailure, IInv, Undoing,
           \/ \E d \in Devices : Register(d)
           \/ \E r \in Requests, op \in AllOperations, d \in Devices :
                 Begin(r, op, d)
           \/ Disturbance \/ Outside \/ UNCHANGED vars
    PROVE  Undoing'
<1>0. /\ TypeOK /\ pc \in [Requests -> Labels] /\ dev \in [Devices -> Row]
      /\ req \in [Requests -> Handler] /\ faults \in Nat
      /\ lock \in [Devices -> SUBSET Requests]
      /\ keys \in [Requests -> {"absent", "live", "used", "expired"}]
      /\ \A q \in Requests : keys[q] = "live" => pc[q] # "idle"
      /\ \A q \in Requests : pc[q] # "idle" => req[q].dev \in Devices
  BY DEF IInv, TypeOK, MintedOnce, BeforeMint
<1>1. /\ twins' = twins
      /\ \A d \in Devices :
            \/ dev'[d].state = dev[d].state
            \/ dev[d].state = "NONE" /\ dev'[d].state = "PENDING"
      /\ \A q \in Requests : keys'[q] = "live" => keys[q] = "live"
      /\ \A q \in Requests : pc[q] # "idle" => req'[q] = req[q]
      /\ \A q \in Requests :
            \/ pc'[q] = pc[q]
            \/ pc[q] = "idle" /\ pc'[q] \notin Working
            \/ pc[q] \in {"locking", "read", "save", "reject"} /\ pc'[q] = "failed"
      /\ faults' \in Nat /\ faults' >= faults
      /\ lock' = lock \/ faults' >= 1
  <2> USE DEF registry, network
  <2>1. ASSUME NEW d \in Devices, Register(d) PROVE <1>1!:
    BY <1>0, <2>1 DEF Register, Row
  <2>2. ASSUME NEW r \in Requests, NEW op, NEW d \in Devices, Begin(r, op, d)
        PROVE  <1>1!:
    BY <1>0, <2>2 DEF Begin, Goto, Working, InTransaction
  <2>3. ASSUME NEW r \in Requests, StatementFails(r) PROVE <1>1!:
    BY <1>0, <2>3, FailsOnce DEF StatementFails, Goto
  <2>4. ASSUME NEW r \in Requests, ConnectionLost(r) PROVE <1>1!:
    BY <1>0, <2>4, FailsOnce DEF ConnectionLost
  <2>5. ~ Crash
    BY <1>0, FailsOnce DEF Crash
  <2>6. CASE Outside
    BY <1>0, <2>6 DEF Outside, KeyTimeout, Join, Rename, Leave
  <2>7. CASE UNCHANGED vars
    BY <1>0, <2>7 DEF vars
  <2> QED BY <2>1, <2>2, <2>3, <2>4, <2>5, <2>6, <2>7 DEF Disturbance
<1>2. \A q \in Requests : PastState(q)'
  BY <1>0, <1>1 DEF Undoing, PastState, Working, InTransaction
<1>3. UndoAfterFailure'
  BY <1>0, <1>1 DEF Undoing, UndoAfterFailure, Working, InTransaction
<1>4. KeyToUndo'
  BY <1>0, <1>1 DEF Undoing, KeyToUndo
<1>5. TwinToUndo'
  BY <1>0, <1>1 DEF Undoing, TwinToUndo
<1> QED BY <1>2, <1>3, <1>4, <1>5 DEF Undoing

\* _undo of claim_flow.py: when one call or statement fails, the claim that
\* failed leaves no live key and no twin behind once the handlers of a PENDING
\* device are done, whatever else was going on for it.
THEOREM FailureCompensatedHolds ==
    Spec => [](OneFailure => FailureCompensated)
<1>1. Init => (OneFailure => Undoing)
  <2> SUFFICES ASSUME Init PROVE Undoing
    OBVIOUS
  <2>1. \A r \in Requests : PastState(r)
    BY DEF Init, PastState, InTransaction
  <2>2. UndoAfterFailure /\ KeyToUndo /\ TwinToUndo
    BY DEF Init, UndoAfterFailure, KeyToUndo, TwinToUndo, InTransaction
  <2> QED BY <2>1, <2>2 DEF Undoing
<1>2. IInv /\ (OneFailure => Undoing) /\ [Next]_vars => (OneFailure => Undoing)'
  <2> SUFFICES ASSUME IInv, OneFailure, Undoing, [Next]_vars PROVE Undoing'
    BY DEF OneFailure
  <2>1. ASSUME NEW r \in Requests, Step(r) PROVE Undoing'
    BY <2>1, StepPastState, StepUndoAfterFailure, StepKeyToUndo, StepTwinToUndo
       DEF Undoing
  <2> QED
    BY <2>1, OthersUndoing DEF Next, Settled
<1>3. IInv /\ (OneFailure => Undoing) => (OneFailure => FailureCompensated)
  <2> SUFFICES ASSUME IInv, Undoing PROVE FailureCompensated
    OBVIOUS
  <2> SUFFICES ASSUME NEW d \in Devices, dev[d].state = "PENDING", AtRest(d)
               PROVE  /\ twins[d] = "absent"
                      /\ \A k \in Requests : Owner(k) = d => keys[k] # "live"
    BY DEF FailureCompensated
  <2>1. \A r \in Requests : req[r].dev = d =>
          pc[r] \notin {"mint", "commit", "undoKey", "undoTwin"}
    BY DEF AtRest, Ended
  <2>2. twins[d] = "absent"
    BY <2>1 DEF Undoing, TwinToUndo
  <2>3. \A k \in Requests : Owner(k) = d => keys[k] # "live"
    BY <2>1 DEF Undoing, KeyToUndo, Owner
  <2> QED BY <2>2, <2>3
<1> QED
  BY <1>1, <1>2, <1>3, Invariance, PTL DEF Spec

\* The inductive invariants together, as the run checks them.
THEOREM HistoryInvHolds == Spec => []HistoryInv
<1>1. IInv /\ NodesShown /\ Origin /\ TrailOfState /\ TrailOfNames
      /\ TwinNotAheadOfRow => HistoryInv
  BY DEF HistoryInv
<1> QED
  BY <1>1, Invariance, NodesShownInvariant, OriginInvariant, TrailInvariant,
     TwinNotAheadOfRowHolds, PTL
=============================================================================
