----------------------- MODULE ProvisioningRefinement -----------------------
(***************************************************************************)
(* The handlers of Provisioning implement Admission, proved: a step is     *)
(* invisible to Admission or one of its actions.  The enabling conditions  *)
(* of Admission (no other credential out) come from the inductive          *)
(* invariant of ProvisioningProofs.  That no step leads back is then a     *)
(* fact about the actions of Admission alone.                              *)
(***************************************************************************)
EXTENDS ProvisioningProofs

\* A machine joins with a key it was shown, and keys stay shown.
LEMMA NodesShownInvariant == Spec => []NodesShown
<1>1. Init => NodesShown
  BY DEF Init, NodesShown, NoNode
<1>2. TypeOK /\ NodesShown /\ [Next]_vars => NodesShown'
  <2> SUFFICES ASSUME TypeOK, NodesShown, [Next]_vars
               PROVE  NodesShown'
    OBVIOUS
  <2>0. nodes \in [Requests -> Node]
    BY DEF TypeOK
  <2> USE DEF NodesShown, registry, network
  <2>1. ASSUME NEW r \in Requests, Step(r) PROVE NodesShown'
    <3>1. CASE DeleteNode(r)
      BY <2>0, <3>1 DEF DeleteNode
    <3>2. CASE Respond(r)
      BY <3>2 DEF Respond
    <3>3. CASE UNCHANGED <<nodes, shown>>
      BY <3>3
    <3> QED
      BY <2>1, <3>1, <3>2, <3>3
      DEF Step, ClaimLock, ReissueLock, RevokeLock, Reject, Saved, EnsureUser,
          UpsertTwin, MintKey, ReissueNodes, RevokeNodes, ListKeys,
          ExpireUnused, PatchTwin, ClaimCommit, ReissueCommit, RevokeCommit,
          UndoKey, UndoTwin, ViewRead, ViewNodes, ViewSave
  <2>2. CASE Outside
    <3>1. ASSUME NEW k \in Requests, NEW names \in Hostnames,
                 Join(k, names) \/ Rename(k, names)
          PROVE  NodesShown'
      <4>1. \A n \in Requests : nodes'[n].status = "up" =>
              nodes[n].status = "up" \/ n \in shown
        BY <2>0, <3>1, NamedTypes, ProvisioningAssumption DEF Join, Rename
      <4> QED BY <3>1, <4>1 DEF Join, Rename
    <3>2. ASSUME NEW k \in Requests, KeyTimeout(k) \/ Leave(k)
          PROVE  NodesShown'
      BY <2>0, <3>2 DEF KeyTimeout, Leave
    <3> QED BY <2>2, <3>1, <3>2 DEF Outside
  <2>3. CASE Disturbance
    BY <2>3 DEF Disturbance, StatementFails, ConnectionLost, Crash
  <2>4. CASE UNCHANGED vars
    BY <2>4 DEF vars
  <2>5. ASSUME NEW d \in Devices, Register(d) PROVE NodesShown'
    BY <2>5 DEF Register
  <2>6. ASSUME NEW r \in Requests, NEW op, NEW d \in Devices, Begin(r, op, d)
        PROVE  NodesShown'
    BY <2>6 DEF Begin
  <2> QED
    BY <2>1, <2>2, <2>3, <2>4, <2>5, <2>6 DEF Next, Settled
<1> QED
  BY <1>1, <1>2, TypeCorrect, PTL DEF Spec

\* A step that leaves the states of the rows, the keys that were handed out,
\* the usable ones and the nodes that are up alone is invisible to Admission.
LEMMA Invisible ==
    ASSUME TypeOK, NodesShown,
           \A d \in Devices : dev'[d].state = dev[d].state,
           Usable' = Usable, shown' = shown,
           \A k \in shown : Owner(k)' = Owner(k),
           \A n \in Requests : nodes'[n].status = "up" <=> nodes[n].status = "up"
    PROVE  UNCHANGED Adm!vars
<1>1. Phase' = Phase
  BY DEF Phase
<1>2. Held' = Held
  <2>1. \A d \in Devices : UsableFor(d)' = UsableFor(d)
    BY DEF UsableFor, Usable, Owner
  <2> QED BY <2>1 DEF Held
<1>3. Online' = Online
  <2>1. \A d \in Devices : OnlineFor(d)' = OnlineFor(d)
    BY DEF OnlineFor, NodesShown, Owner
  <2> QED BY <2>1 DEF Online
<1> QED BY <1>1, <1>2, <1>3 DEF Adm!vars

\* One credential fewer, in the name of the device it was for.
LEMMA KeyLost ==
    ASSUME IInv, NodesShown, NEW k \in Usable,
           keys' = [keys EXCEPT ![k] = "expired"],
           UNCHANGED <<dev, shown, nodes>>,
           \A l \in Requests : Owner(l)' = Owner(l)
    PROVE  Adm!Withdraw(Owner(k))
<1>1. /\ shown \subseteq Requests /\ k \in shown /\ keys[k] = "live"
      /\ keys \in [Requests -> {"absent", "live", "used", "expired"}]
  BY DEF IInv, TypeOK, Usable
<1>2. Usable' = Usable \ {k}
  BY <1>1 DEF Usable
<1>3. UsableFor(Owner(k)) = {k}
  BY DEF IInv, LiveKeyOnRow, OnRow, UsableFor
<1>4. \A d \in Devices :
        UsableFor(d)' = IF d = Owner(k) THEN {} ELSE UsableFor(d)
  BY <1>1, <1>2, <1>3 DEF UsableFor, Usable, Owner
<1>5. Owner(k) \in Devices
  BY <1>1 DEF IInv, TypeOK, ShownAnswered, Owner
<1>6. Held' = [Held EXCEPT ![Owner(k)] = {}]
  BY <1>4 DEF Held
<1>7. Phase' = Phase /\ Online' = Online
  BY DEF Phase, Online, OnlineFor, Owner
<1>8. Held[Owner(k)] # {}
  BY <1>3, <1>5 DEF Held
<1> QED
  BY <1>6, <1>7, <1>8 DEF Adm!Withdraw

\* One node fewer, of the device it joined for.
LEMMA NodeLost ==
    ASSUME IInv, NodesShown, NEW n \in Requests, nodes[n].status = "up",
           nodes' = [nodes EXCEPT ![n].status = "deleted"],
           UNCHANGED <<dev, shown, keys>>,
           \A l \in Requests : Owner(l)' = Owner(l)
    PROVE  Adm!Leave(Owner(n), n)
<1>1. Owner(n) \in Devices
  BY DEF IInv, TypeOK, ShownAnswered, NodesShown, Owner
<1>2. \A d \in Devices :
        OnlineFor(d)' = IF d = Owner(n) THEN OnlineFor(d) \ {n} ELSE OnlineFor(d)
  BY DEF OnlineFor, Owner, IInv, TypeOK
<1>3. n \in Online[Owner(n)]
  BY <1>1 DEF Online, OnlineFor
<1>4. Online' = [Online EXCEPT ![Owner(n)] = @ \ {n}]
  BY <1>1, <1>2 DEF Online
<1>5. Phase' = Phase /\ Held' = Held
  BY DEF Phase, Held, UsableFor, Usable, Owner, IInv, TypeOK
<1> QED
  BY <1>3, <1>4, <1>5 DEF Adm!Leave

\* The answer hands out a key: the device had none that still worked.
LEMMA AnswerGrants ==
    ASSUME IInv, NodesShown, NEW r \in Requests, Respond(r), req[r].holds,
           keys[r] = "live"
    PROVE  Adm!Grant(Owner(r), r)
<1>1. /\ shown \subseteq Requests /\ r \notin shown /\ Owner(r) \in Devices
      /\ shown' = shown \cup {r} /\ UNCHANGED <<dev, keys, nodes, req>>
  BY DEF IInv, TypeOK, ShownAnswered, Owner, Respond, registry
<1>2. OnRow(r)
  BY DEF IInv, LiveKeyOnRow, Respond
<1>3. UsableFor(Owner(r)) = {}
  BY <1>1, <1>2 DEF IInv, LiveKeyOnRow, OnRow, UsableFor, Usable
<1>4. \A d \in Devices :
        UsableFor(d)' = IF d = Owner(r) THEN {r} ELSE UsableFor(d)
  BY <1>1, <1>3 DEF UsableFor, Usable, Owner
<1>5. Held' = [Held EXCEPT ![Owner(r)] = {r}] /\ Held[Owner(r)] = {}
  BY <1>1, <1>3, <1>4 DEF Held
<1>6. Phase[Owner(r)] = "CLAIMED"
  BY <1>1, <1>2 DEF Phase, OnRow
<1>7. Phase' = Phase /\ Online' = Online
  BY <1>1 DEF Phase, Online, OnlineFor, Owner
<1> QED
  BY <1>1, <1>5, <1>6, <1>7 DEF Adm!Grant

\* A row changes its state, and the keys and nodes stay as they are.
LEMMA OnlyPhase ==
    ASSUME TypeOK, NEW d \in Devices, NEW s,
           \A e \in Devices : dev'[e].state = IF e = d THEN s ELSE dev[e].state,
           UNCHANGED <<keys, nodes, shown, req>>
    PROVE  Phase' = [Phase EXCEPT ![d] = s] /\ Held' = Held /\ Online' = Online
BY DEF Phase, Held, Online, UsableFor, Usable, OnlineFor, Owner

\* A claim that commits activates the device, a revocation retires it.
LEMMA CommitSimulated ==
    ASSUME IInv, NodesShown, NEW r \in Requests, Step(r),
           ClaimCommit(r) \/ ReissueCommit(r) \/ RevokeCommit(r)
    PROVE  [Adm!Next]_(Adm!vars)
<1> DEFINE d == req[r].dev
<1>1. /\ UNCHANGED <<keys, nodes, shown, req>>
      /\ d \in Devices /\ TypeOK /\ dev \in [Devices -> Row]
  BY StepFrame DEF IInv, TypeOK, ClaimCommit, ReissueCommit, RevokeCommit,
     network
<1>2. CASE \A e \in Devices : dev'[e].state = dev[e].state
  BY <1>1, <1>2, Invisible DEF Usable, Owner
<1>3. ASSUME ~ \A e \in Devices : dev'[e].state = dev[e].state
      PROVE  Adm!Activate(d) \/ Adm!Retire(d)
  <2>1. /\ r \in lock[d]
        /\ \A e \in Devices \ {d} : dev'[e] = dev[e]
        /\ \/ /\ dev[d].state = "PENDING" /\ dev'[d].state = "CLAIMED"
           \/ /\ RevokeCommit(r) /\ dev'[d].state = "REVOKED"
    BY <1>1, <1>3, CommitRows
  <2>2. CASE dev[d].state = "PENDING" /\ dev'[d].state = "CLAIMED"
    <3>1. Phase' = [Phase EXCEPT ![d] = "CLAIMED"] /\ UNCHANGED <<Held, Online>>
      BY <1>1, <2>1, <2>2, OnlyPhase
    <3>2. Phase[d] = "PENDING"
      BY <1>1, <2>2 DEF Phase
    <3>3. UsableFor(d) = {}
      BY <2>2 DEF IInv, LiveKeyOnRow, OnRow, UsableFor
    <3>4. Held[d] = {}
      BY <1>1, <3>3 DEF Held
    <3> QED BY <1>1, <3>1, <3>2, <3>4 DEF Adm!Activate
  <2>3. CASE RevokeCommit(r) /\ dev'[d].state = "REVOKED"
    <3>1. Phase' = [Phase EXCEPT ![d] = "REVOKED"] /\ UNCHANGED <<Held, Online>>
      BY <1>1, <2>1, <2>3, OnlyPhase
    <3>2. dev[d].state \in {"PENDING", "CLAIMED"}
      BY <1>1, <2>1, <2>3 DEF IInv, LockedRow, RevokeCommit
    <3>3. \A k \in UsableFor(d) :
             /\ dev[d].state = "CLAIMED" /\ dev[d].key = k
             /\ keys[k] = "live" /\ k # None
      BY ProvisioningAssumption
      DEF IInv, TypeOK, LiveKeyOnRow, OnRow, UsableFor, Usable
    <3>4. UsableFor(d) = {}
      BY <1>1, <2>1, <2>3, <3>3 DEF IInv, OldKeyDead, RevokeCommit
    <3>5. Phase[d] \in {"PENDING", "CLAIMED"} /\ Held[d] = {}
      BY <1>1, <3>2, <3>4 DEF Phase, Held
    <3> QED BY <1>1, <3>1, <3>5 DEF Adm!Retire
  <2> QED BY <2>1, <2>2, <2>3
<1> QED BY <1>1, <1>2, <1>3 DEF Adm!Next

\* Every step of a handler is a step of Admission, or none it can see.
LEMMA StepSimulated ==
    ASSUME IInv, NodesShown, NEW r \in Requests, Step(r)
    PROVE  [Adm!Next]_(Adm!vars)
<1>0. /\ TypeOK /\ shown \subseteq Requests
      /\ keys \in [Requests -> {"absent", "live", "used", "expired"}]
      /\ nodes \in [Requests -> Node]
      /\ dev \in [Devices -> Row]
      /\ \A k \in Requests : Owner(k)' = Owner(k)
  BY StepFrame DEF IInv, TypeOK, Owner
<1>1. ASSUME UNCHANGED <<dev, keys, nodes, shown>>
      PROVE  UNCHANGED Adm!vars
  BY <1>0, <1>1, Invisible DEF Usable
<1>2. CASE ClaimCommit(r) \/ ReissueCommit(r) \/ RevokeCommit(r)
  BY <1>2, CommitSimulated
<1>3. CASE Respond(r)
  <2>1. CASE req[r].holds /\ keys[r] = "live"
    <3>1. Owner(r) \in Devices
      BY <1>3 DEF IInv, TypeOK, Respond, Owner
    <3> QED BY <1>3, <2>1, <3>1, AnswerGrants DEF Adm!Next
  <2>2. CASE ~ (req[r].holds /\ keys[r] = "live")
    <3>1. Usable' = Usable /\ UNCHANGED <<dev, nodes, req>>
      BY <1>3, <2>2 DEF Respond, Usable, registry
    <3>2. UNCHANGED <<Phase, Held, Online>>
      BY <3>1 DEF Phase, Held, UsableFor, Online, OnlineFor, Owner
    <3>3. CASE req[r].holds
      <4>1. r \notin shown /\ shown' = shown \cup {r}
        BY <1>3, <3>3 DEF IInv, ShownAnswered, Respond
      <4> QED BY <3>2, <4>1 DEF Adm!GrantLate, Adm!Next
    <3>4. CASE ~ req[r].holds
      <4>1. shown' = shown
        BY <1>3, <3>4 DEF Respond
      <4> QED BY <3>2, <4>1 DEF Adm!vars
    <3> QED BY <3>3, <3>4
  <2> QED BY <2>1, <2>2
<1>4. CASE MintKey(r) \/ UndoKey(r)
  <2>1. r \notin shown
    BY <1>4 DEF IInv, ShownAnswered, MintKey, UndoKey
  <2>2. Usable' = Usable /\ UNCHANGED <<dev, nodes, shown>>
    BY <1>0, <1>4, <2>1 DEF MintKey, UndoKey, Expired, Usable, registry
  <2> QED BY <1>0, <2>2, Invisible
<1>5. CASE ExpireUnused(r)
  <2> DEFINE k == req[r].row.key
  <2>1. \/ keys' = keys \/ keys' = [keys EXCEPT ![k] = "expired"]
    BY <1>5 DEF ExpireUnused, Expired
  <2>2. UNCHANGED <<dev, nodes, shown>>
    BY <1>5 DEF ExpireUnused
  <2>3. CASE keys' = [keys EXCEPT ![k] = "expired"] /\ k \in Usable
    <3>1. Owner(k) \in Devices
      BY <1>0, <2>3 DEF IInv, TypeOK, ShownAnswered, Usable, Owner
    <3> QED BY <1>0, <2>2, <2>3, <3>1, KeyLost DEF Adm!Next
  <2>4. CASE Usable' = Usable
    BY <1>0, <2>2, <2>4, Invisible
  <2> QED
    BY <1>0, <2>1, <2>2, <2>3, <2>4 DEF Usable
<1>6. CASE DeleteNode(r)
  <2> DEFINE n == req[r].node
  <2>1. \/ nodes' = nodes \/ nodes' = [nodes EXCEPT ![n].status = "deleted"]
    BY <1>6 DEF DeleteNode
  <2>2. UNCHANGED <<dev, keys, shown>>
    BY <1>6 DEF DeleteNode
  <2>3. CASE /\ nodes' = [nodes EXCEPT ![n].status = "deleted"]
             /\ n \in Requests /\ nodes[n].status = "up"
    <3>1. Owner(n) \in Devices
      BY <2>3 DEF IInv, TypeOK, ShownAnswered, NodesShown, Owner
    <3> QED BY <1>0, <2>2, <2>3, <3>1, NodeLost DEF Adm!Next
  <2>4. CASE \A m \in Requests :
               nodes'[m].status = "up" <=> nodes[m].status = "up"
    BY <1>0, <2>2, <2>4, Invisible DEF Usable
  <2> QED BY <1>0, <2>1, <2>3, <2>4 DEF Node
<1>7. CASE ViewSave(r)
  <2>1. \A d \in Devices : dev'[d].state = dev[d].state
    BY <1>0, <1>7 DEF ViewSave, Saved, Row
  <2> QED BY <1>0, <1>7, <2>1, Invisible DEF ViewSave, Saved, Usable, network
<1> QED
  BY <1>1, <1>2, <1>3, <1>4, <1>5, <1>6, <1>7
  DEF Step, ClaimLock, ReissueLock, RevokeLock, Reject, Saved, EnsureUser, UpsertTwin,
      ReissueNodes, RevokeNodes, ListKeys, PatchTwin, UndoTwin, ViewRead,
      ViewNodes, registry, network

\* So is what happens outside the handlers.
LEMMA OthersSimulated ==
    ASSUME IInv, NodesShown,
           \/ \E d \in Devices : Register(d)
           \/ \E r \in Requests, op \in AllOperations, d \in Devices :
                 Begin(r, op, d)
           \/ Disturbance
           \/ Outside
    PROVE  [Adm!Next]_(Adm!vars)
<1>0. /\ TypeOK /\ shown \subseteq Requests
      /\ keys \in [Requests -> {"absent", "live", "used", "expired"}]
      /\ nodes \in [Requests -> Node]
      /\ dev \in [Devices -> Row]
      /\ \A k \in shown : Owner(k) \in Devices
  BY DEF IInv, TypeOK, ShownAnswered, Owner
<1>1. ASSUME NEW d \in Devices, Register(d) PROVE Adm!Register(d)
  <2>1. \A e \in Devices :
          dev'[e].state = IF e = d THEN "PENDING" ELSE dev[e].state
    BY <1>0, <1>1 DEF Register, Row
  <2>2. /\ Phase' = [Phase EXCEPT ![d] = "PENDING"]
        /\ UNCHANGED <<Held, Online>>
    BY <1>0, <1>1, <2>1, OnlyPhase DEF Register, network
  <2> QED BY <1>1, <2>2 DEF Register, network, Phase, Adm!Register
<1>2. ASSUME NEW r \in Requests, NEW op, NEW d \in Devices, Begin(r, op, d)
      PROVE  UNCHANGED Adm!vars
  <2>1. r \notin shown
    BY <1>2 DEF IInv, ShownAnswered, Begin
  <2>2. req \in [Requests -> Handler]
    BY DEF IInv, TypeOK
  <2>3. \A k \in Requests \ {r} : req'[k] = req[k]
    BY <1>2, <2>2 DEF Begin
  <2>4. \A k \in shown : Owner(k)' = Owner(k)
    BY <1>0, <2>1, <2>3 DEF Owner
  <2> QED BY <1>0, <1>2, <2>4, Invisible DEF Begin, Usable, registry, network
<1>3. CASE Disturbance
  <2>1. UNCHANGED <<dev, keys, nodes, shown, req>>
    BY <1>3 DEF Disturbance, StatementFails, ConnectionLost, Crash, registry,
       network
  <2> QED BY <1>0, <2>1, Invisible DEF Usable, Owner
<1>4. ASSUME NEW k \in Requests, KeyTimeout(k) PROVE [Adm!Next]_(Adm!vars)
  <2>1. /\ UNCHANGED <<dev, nodes, shown, req>> /\ keys[k] = "live"
        /\ keys' = [keys EXCEPT ![k] = "expired"]
    BY <1>4 DEF KeyTimeout, registry
  <2>2. CASE k \in Usable
    <3>1. Owner(k) \in Devices
      BY <1>0, <2>2 DEF Usable
    <3> QED BY <2>1, <2>2, <3>1, KeyLost DEF Owner, Adm!Next
  <2>3. CASE k \notin Usable
    <3>1. Usable' = Usable
      BY <1>0, <2>1, <2>3 DEF Usable
    <3> QED BY <1>0, <2>1, <3>1, Invisible DEF Owner
  <2> QED BY <2>2, <2>3
<1>5. ASSUME NEW k \in Requests, NEW names \in Hostnames, Join(k, names)
      PROVE  Adm!Join(Owner(k), k) /\ Owner(k) \in Devices
  <2>1. /\ UNCHANGED <<dev, shown, req>> /\ k \in Usable /\ Owner(k) \in Devices
        /\ keys' = [keys EXCEPT ![k] = "used"]
        /\ \A n \in Requests : nodes'[n].status =
              IF n = k THEN "up" ELSE nodes[n].status
    BY <1>0, <1>5, NamedTypes, ProvisioningAssumption DEF Join, registry, Usable
  <2>2. UsableFor(Owner(k)) = {k} /\ dev[Owner(k)].state = "CLAIMED"
    BY <2>1 DEF IInv, LiveKeyOnRow, OnRow, UsableFor
  <2>3. Usable' = Usable \ {k}
    BY <1>0, <2>1 DEF Usable
  <2>4. \A d \in Devices :
          UsableFor(d)' = IF d = Owner(k) THEN {} ELSE UsableFor(d)
    BY <2>1, <2>2, <2>3 DEF UsableFor, Owner
  <2>5. \A d \in Devices :
          OnlineFor(d)' =
              IF d = Owner(k) THEN OnlineFor(d) \cup {k} ELSE OnlineFor(d)
    BY <1>0, <2>1 DEF OnlineFor, Owner
  <2>6. /\ Held[Owner(k)] # {} /\ Phase[Owner(k)] = "CLAIMED"
        /\ Held' = [Held EXCEPT ![Owner(k)] = {}] /\ Phase' = Phase
    BY <2>1, <2>2, <2>4 DEF Held, Phase
  <2>7. Online' = [Online EXCEPT ![Owner(k)] = @ \cup {k}]
    BY <2>1, <2>5 DEF Online
  <2> QED BY <2>1, <2>6, <2>7 DEF Adm!Join
<1>6. ASSUME NEW n \in Requests, Leave(n) PROVE Adm!Leave(Owner(n), n)
  BY <1>6, NodeLost DEF Leave, registry, Owner
<1>7. ASSUME NEW n \in Requests, Leave(n) PROVE Owner(n) \in Devices
  BY <1>0, <1>7 DEF Leave, NodesShown
<1>8. ASSUME NEW n \in Requests, NEW names \in Hostnames, Rename(n, names)
      PROVE  UNCHANGED Adm!vars
  <2>1. UNCHANGED <<dev, keys, shown, req>>
    BY <1>8 DEF Rename, registry
  <2>2. Named(n, names).status = nodes[n].status
    BY <1>0, NamedTypes, ProvisioningAssumption
  <2>3. \A m \in Requests : nodes'[m].status = nodes[m].status
    BY <1>0, <1>8, <2>2 DEF Rename
  <2> QED BY <1>0, <2>1, <2>3, Invisible DEF Usable, Owner
<1> QED
  BY <1>1, <1>2, <1>3, <1>4, <1>5, <1>6, <1>7, <1>8 DEF Outside, Adm!Next

\* claim_flow.py, with everything that can overlap and fail in it, implements
\* the promise of Admission.
THEOREM Implements == Spec => AdmissionHolds
<1>1. Init => Adm!Init
  BY DEF Init, Adm!Init, Phase, Held, Online, UsableFor, Usable, OnlineFor,
     NoRow, NoNode
<1>2. IInv /\ NodesShown /\ [Next]_vars => [Adm!Next]_(Adm!vars)
  <2> SUFFICES ASSUME IInv, NodesShown, [Next]_vars
               PROVE  [Adm!Next]_(Adm!vars)
    OBVIOUS
  <2>1. CASE UNCHANGED vars
    BY <2>1 DEF vars, Adm!vars, Phase, Held, Online, UsableFor, Usable,
       OnlineFor, Owner
  <2> QED
    BY <2>1, StepSimulated, OthersSimulated DEF Next, Settled
<1> QED
  BY <1>1, <1>2, Invariance, NodesShownInvariant, PTL
  DEF Spec, AdmissionHolds, Adm!Spec

\* What no action of Admission does: it does not bring a retired device back,
\* let a node in for it, forget a key or grant one again.
LEMMA AdmissionForward ==
    ASSUME [Adm!Next]_(Adm!vars)
    PROVE  /\ \A d \in Devices : Phase[d] = "REVOKED" =>
                 /\ Phase'[d] = "REVOKED"
                 /\ Online'[d] \subseteq Online[d]
           /\ shown \subseteq shown'
           /\ \A d \in Devices : shown \cap Held'[d] \subseteq Held[d]
<1>1. /\ Phase = [d \in Devices |-> Phase[d]]
      /\ Held = [d \in Devices |-> Held[d]]
      /\ Online = [d \in Devices |-> Online[d]]
  BY DEF Phase, Held, Online
<1> HIDE DEF Phase, Held, Online
<1> QED
  BY <1>1
  DEF Adm!Next, Adm!vars, Adm!Register, Adm!Activate, Adm!Grant, Adm!GrantLate,
      Adm!Withdraw, Adm!Join, Adm!Leave, Adm!Retire

\* claim_flow.py: once REVOKED, always; nothing joins for a revoked device, and
\* a key that is dead stays dead, whatever overlaps and fails.
THEOREM NoWayBackHolds == Spec => NoWayBack
<1>1. IInv /\ IInv' /\ [Adm!Next]_(Adm!vars) =>
        /\ \A d \in Devices : dev[d].state = "REVOKED" =>
              /\ dev'[d].state = "REVOKED"
              /\ OnlineFor(d)' \subseteq OnlineFor(d)
        /\ shown \subseteq shown'
        /\ shown \cap Usable' \subseteq Usable
  <2> SUFFICES ASSUME IInv, IInv', [Adm!Next]_(Adm!vars)
               PROVE  /\ \A d \in Devices : dev[d].state = "REVOKED" =>
                            /\ dev'[d].state = "REVOKED"
                            /\ OnlineFor(d)' \subseteq OnlineFor(d)
                      /\ shown \subseteq shown'
                      /\ shown \cap Usable' \subseteq Usable
    OBVIOUS
  <2>1. \A d \in Devices :
           /\ Phase[d] = dev[d].state /\ Phase'[d] = dev'[d].state
           /\ Online[d] = OnlineFor(d) /\ Online'[d] = OnlineFor(d)'
           /\ Held[d] = UsableFor(d) /\ Held'[d] = UsableFor(d)'
    BY DEF Phase, Online, Held
  <2>2. ASSUME NEW k \in shown, k \in Usable' PROVE k \in Usable
    <3>1. Owner(k)' \in Devices
      BY <2>2 DEF IInv, TypeOK, ShownAnswered, Usable, Owner
    <3>2. k \in Held'[Owner(k)']
      BY <2>1, <2>2, <3>1 DEF UsableFor
    <3>3. k \in Held[Owner(k)']
      BY <3>1, <3>2, AdmissionForward
    <3> QED BY <2>1, <3>1, <3>3 DEF UsableFor
  <2> QED BY <2>1, <2>2, AdmissionForward
<1> QED
  BY <1>1, Implements, Invariance, PTL
  DEF Spec, AdmissionHolds, Adm!Spec, NoWayBack
=============================================================================
