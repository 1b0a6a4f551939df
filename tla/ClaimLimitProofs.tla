-------------------------- MODULE ClaimLimitProofs --------------------------
(***************************************************************************)
(* The overshoot of the claim limits is bounded by the handlers that run   *)
(* at the same time, for any number of devices, any limits and any window. *)
(*                                                                         *)
(* OvershootBounded is inductive together with the types: a worker joins   *)
(* Pending(s) only by seeing the counter below its limit, and then the     *)
(* workers alone keep the sum below the bound; it adds to the counter only *)
(* by leaving Pending(s).                                                  *)
(*                                                                         *)
(* A printed code is read back however its reader types it: the first dash *)
(* ends the prefix, and the body has no symbol that reads as another one.  *)
(***************************************************************************)
EXTENDS MCClaimLimit, FiniteSetTheorems, WellFoundedInduction, TLAPS

\* The part of TypeOK that is about the workers.
WorkersOK ==
    /\ pc \in [Workers -> Labels \cup Answers \cup {"idle"}]
    /\ attempt \in [Workers -> Attempt]
    /\ \A w \in Workers : pc[w] \in Labels => attempt[w].dev \in Devices

\* An answer leaves nothing of the request.
LEMMA AnswerTypes ==
    ASSUME TypeOK, NEW w \in Workers, NEW answer \in Answers,
           Answer(w, answer)
    PROVE  WorkersOK'
<1>1. NoAttempt \in Attempt /\ answer \notin Labels
  BY DEF NoAttempt, Attempt, Answers, Labels
<1> QED BY <1>1 DEF TypeOK, WorkersOK, Answer, Goto

\* On the way the request stays as it is.
LEMMA OnwardTypes ==
    ASSUME TypeOK, NEW w \in Workers, NEW label \in Labels,
           pc[w] \in Labels, Onward(w, label)
    PROVE  WorkersOK'
BY DEF TypeOK, WorkersOK, Onward, Goto

\* Failures are counted in the naturals.
LEMMA FaultTypes ==
    ASSUME TypeOK, NEW kind, Fault(kind)
    PROVE  faults' \in Nat
BY DEF TypeOK, Fault

\* A further rejection leaves a counter with a window.
LEMMA HitTypes ==
    ASSUME TypeOK, NEW s \in Scopes, Hit(s)
    PROVE  /\ hits' \in [Scopes -> Nat]
           /\ ttl' \in [Scopes -> 0 .. Window]
           /\ \A z \in Scopes : hits'[z] > 0 <=> ttl'[z] > 0
<1>1. hits' \in [Scopes -> Nat]
  BY DEF TypeOK, Hit
<1>2. ttl' \in [Scopes -> 0 .. Window]
  BY ClaimLimitAssumption DEF TypeOK, Hit
<1>3. ASSUME NEW z \in Scopes PROVE hits'[z] > 0 <=> ttl'[z] > 0
  BY ClaimLimitAssumption DEF TypeOK, Hit
<1> QED BY <1>1, <1>2, <1>3

\* Every step of a worker keeps the types.
LEMMA StepTypes ==
    ASSUME TypeOK, NEW w \in Workers, Step(w)
    PROVE  TypeOK'
<1> DEFINE d == attempt[w].dev
<1>a. /\ pc \in [Workers -> Labels \cup Answers \cup {"idle"}]
      /\ attempt \in [Workers -> Attempt]
      /\ faults \in Nat
      /\ pc[w] \in Labels => d \in Devices
  BY DEF TypeOK
<1>b. Devices \subseteq Scopes /\ Tenant \in Scopes
  BY DEF Scopes
<1>c. UNCHANGED faults => faults' \in Nat
  BY <1>a
<1>1. CASE CheckDevice(w) \/ CheckTenant(w)
  <2>1. WorkersOK'
    BY <1>1, AnswerTypes, OnwardTypes DEF CheckDevice, CheckTenant, Check,
       Labels, Answers
  <2>2. faults' \in Nat /\ UNCHANGED counters
    BY <1>1, <1>c, FaultTypes DEF CheckDevice, CheckTenant, Check
  <2> QED BY <2>1, <2>2 DEF TypeOK, WorkersOK, counters
<1>2. CASE Judge(w) \/ LogRejection(w)
  <2>1. WorkersOK'
    BY <1>2, AnswerTypes, OnwardTypes DEF Judge, LogRejection, Labels, Answers
  <2>2. faults' \in Nat /\ UNCHANGED counters
    BY <1>2, <1>c, FaultTypes DEF Judge, LogRejection
  <2> QED BY <2>1, <2>2 DEF TypeOK, WorkersOK, counters
<1>3. CASE HitDevice(w) \/ HitTenant(w)
  <2>1. /\ hits' \in [Scopes -> Nat]
        /\ ttl' \in [Scopes -> 0 .. Window]
        /\ \A z \in Scopes : hits'[z] > 0 <=> ttl'[z] > 0
    <3>1. CASE UNCHANGED counters
      BY <3>1 DEF TypeOK, counters
    <3>2. CASE pc[w] = "hitDevice" /\ Hit(d)
      BY <3>2, <1>a, <1>b, HitTypes DEF Labels
    <3>3. CASE Hit(Tenant)
      BY <3>3, <1>b, HitTypes
    <3> QED BY <1>3, <3>1, <3>2, <3>3 DEF HitDevice, HitTenant, Record
  <2>2. WorkersOK'
    BY <1>3, AnswerTypes, OnwardTypes DEF HitDevice, HitTenant, Record,
       Labels, Answers
  <2>3. faults' \in Nat
    BY <1>3, <1>c, FaultTypes DEF HitDevice, HitTenant, Record
  <2> QED BY <2>1, <2>2, <2>3 DEF TypeOK, WorkersOK
<1> QED BY <1>1, <1>2, <1>3 DEF Step

\* Every reachable state is well typed, and a counter exists exactly as long
\* as its window: no rejection is remembered for ever (ratelimit.py, hit).
THEOREM LimitTypes == Spec => []TypeOK
<1>1. Init => TypeOK
  BY ClaimLimitAssumption DEF Init, TypeOK, Attempt, NoAttempt, Labels
<1>2. TypeOK /\ [Next]_vars => TypeOK'
  <2> SUFFICES ASSUME TypeOK, [Next]_vars PROVE TypeOK'
    OBVIOUS
  <2>1. ASSUME NEW w \in Workers, NEW d \in Devices, NEW right \in BOOLEAN,
               Begin(w, d, right)
        PROVE  TypeOK'
    <3>1. [dev |-> d, right |-> right] \in Attempt
      BY DEF Attempt
    <3>2. WorkersOK'
      BY <2>1, <3>1 DEF Begin, TypeOK, WorkersOK, Goto, Labels
    <3> QED BY <2>1, <3>2 DEF Begin, TypeOK, WorkersOK, counters
  <2>2. ASSUME NEW w \in Workers, Step(w) PROVE TypeOK'
    BY <2>2, StepTypes
  <2>3. CASE Tick
    <3>1. ttl' \in [Scopes -> 0 .. Window]
      BY <2>3, ClaimLimitAssumption DEF Tick, TypeOK
    <3>2. hits' \in [Scopes -> Nat]
      BY <2>3 DEF Tick, TypeOK
    <3>3. ASSUME NEW s \in Scopes PROVE hits'[s] > 0 <=> ttl'[s] > 0
      <4>1. /\ ttl[s] \in 0 .. Window /\ hits[s] \in Nat /\ Window \in Nat
            /\ hits[s] > 0 <=> ttl[s] > 0
        BY ClaimLimitAssumption DEF TypeOK
      <4>2. /\ ttl'[s] = IF ttl[s] > 0 THEN ttl[s] - 1 ELSE 0
            /\ hits'[s] = IF ttl[s] = 1 THEN 0 ELSE hits[s]
        BY <2>3 DEF Tick
      <4> QED BY <4>1, <4>2
    <3> QED BY <2>3, <3>1, <3>2, <3>3 DEF Tick, TypeOK
  <2>4. CASE Crash
    BY <2>4 DEF Crash, TypeOK, Fault, counters, Labels, Answers, Attempt,
       NoAttempt
  <2>5. CASE UNCHANGED vars
    BY <2>5 DEF vars, TypeOK
  <2> QED BY <2>1, <2>2, <2>3, <2>4, <2>5 DEF Next
<1> QED BY <1>1, <1>2, PTL DEF Spec

-----------------------------------------------------------------------------
\* Pending workers can be counted, and are at most all of them.
LEMMA PendingCount ==
    ASSUME NEW s
    PROVE  /\ IsFiniteSet(Pending(s))
           /\ Cardinality(Pending(s)) \in Nat
           /\ Cardinality(Pending(s)) <= Cardinality(Workers)
           /\ Cardinality(Workers) \in Nat
<1>1. Pending(s) \in SUBSET Workers
  BY DEF Pending
<1>2. IsFiniteSet(Workers)
  BY ClaimLimitAssumption
<1> QED BY <1>1, <1>2, FS_Subset, FS_CardinalityType

\* The same of the workers that are pending after a step.
LEMMA PendingCountNext ==
    ASSUME NEW s
    PROVE  /\ IsFiniteSet(Pending(s)')
           /\ Cardinality(Pending(s)') \in Nat
           /\ Cardinality(Pending(s)') <= Cardinality(Workers)
<1>1. Pending(s)' \in SUBSET Workers
  BY DEF Pending
<1>2. IsFiniteSet(Workers)
  BY ClaimLimitAssumption
<1> QED BY <1>1, <1>2, FS_Subset, FS_CardinalityType

\* The three things a step can do to a counter and its pending workers.
Kept(s) == hits'[s] <= hits[s] /\ Pending(s)' \subseteq Pending(s)
Admitted(s) == hits'[s] < Limit(s)
Counted(s) ==
    \E w \in Pending(s) :
        hits'[s] = hits[s] + 1 /\ Pending(s)' \subseteq Pending(s) \ {w}

\* Each of them keeps the sum below the bound.
LEMMA StillBounded ==
    ASSUME TypeOK, TypeOK', OvershootBounded, NEW s \in Scopes,
           Kept(s) \/ Admitted(s) \/ Counted(s)
    PROVE  hits'[s] + Cardinality(Pending(s)')
              < Limit(s) + Cardinality(Workers)
<1>1. hits[s] \in Nat /\ hits'[s] \in Nat /\ Limit(s) \in Nat
  BY ClaimLimitAssumption DEF TypeOK, Limit
<1>2. hits[s] + Cardinality(Pending(s)) < Limit(s) + Cardinality(Workers)
  BY DEF OvershootBounded
<1>3. CASE Kept(s)
  <2>1. Cardinality(Pending(s)') <= Cardinality(Pending(s))
    BY <1>3, PendingCount, FS_Subset DEF Kept
  <2> QED BY <1>1, <1>2, <1>3, <2>1, PendingCount, PendingCountNext DEF Kept
<1>4. CASE Admitted(s)
  <2>1. hits'[s] < Limit(s)
    BY <1>4 DEF Admitted
  <2>2. /\ Cardinality(Pending(s)') \in Nat /\ Cardinality(Workers) \in Nat
        /\ Cardinality(Pending(s)') <= Cardinality(Workers)
    BY PendingCount, PendingCountNext
  <2> QED BY <1>1, <2>1, <2>2
<1>5. CASE Counted(s)
  <2>1. PICK w \in Pending(s) :
          hits'[s] = hits[s] + 1 /\ Pending(s)' \subseteq Pending(s) \ {w}
    BY <1>5 DEF Counted
  <2>2. /\ IsFiniteSet(Pending(s) \ {w})
        /\ Cardinality(Pending(s) \ {w}) = Cardinality(Pending(s)) - 1
    BY <2>1, PendingCount, FS_RemoveElement
  <2>3. Cardinality(Pending(s)') <= Cardinality(Pending(s) \ {w})
    BY <2>1, <2>2, FS_Subset
  <2> QED BY <1>1, <1>2, <2>1, <2>2, <2>3, PendingCount, PendingCountNext
<1> QED BY <1>3, <1>4, <1>5

\* A worker's step admits it to a counter, counts it there, or neither.
LEMMA StepKinds ==
    ASSUME TypeOK, NEW w \in Workers, Step(w), NEW s \in Scopes
    PROVE  Kept(s) \/ Admitted(s) \/ Counted(s)
<1> DEFINE d == attempt[w].dev
<1>a. /\ pc \in [Workers -> Labels \cup Answers \cup {"idle"}]
      /\ attempt \in [Workers -> Attempt]
      /\ hits \in [Scopes -> Nat]
      /\ pc[w] \in Labels => d \in Devices
  BY DEF TypeOK
<1>b. Tenant \notin Devices /\ Devices \subseteq Scopes /\ Tenant \in Scopes
  BY ClaimLimitAssumption DEF Scopes
<1>c. hits[s] \in Nat /\ Limit(s) \in Nat
  BY ClaimLimitAssumption DEF TypeOK, Limit
<1> USE DEF Goto, Answer, Onward, Pending, DeviceStages, TenantStages
<1>1. CASE CheckDevice(w)
  <2>1. CASE s = d /\ ~ Blocked(d)
    <3>1. hits'[s] = hits[s]
      BY <1>1 DEF CheckDevice, Check, counters
    <3> QED BY <2>1, <3>1, <1>c DEF Blocked, Admitted
  <2>2. CASE s # d \/ Blocked(d)
    BY <1>1, <2>2, <1>a, <1>b DEF CheckDevice, Check, Kept, counters, Labels
  <2> QED BY <2>1, <2>2
<1>2. CASE CheckTenant(w)
  <2>1. CASE s = Tenant /\ ~ Blocked(Tenant)
    <3>1. hits'[s] = hits[s]
      BY <1>2 DEF CheckTenant, Check, counters
    <3> QED BY <2>1, <3>1, <1>c DEF Blocked, Admitted
  <2>2. CASE s # Tenant \/ Blocked(Tenant)
    BY <1>2, <2>2, <1>a, <1>b DEF CheckTenant, Check, Kept, counters
  <2> QED BY <2>1, <2>2
<1>3. CASE Judge(w) \/ LogRejection(w)
  BY <1>3, <1>a, <1>b DEF Judge, LogRejection, Kept, counters
<1>4. CASE HitDevice(w)
  <2>1. CASE s = d /\ Hit(d)
    <3>1. w \in Pending(s) /\ hits'[s] = hits[s] + 1
      BY <1>4, <2>1, <1>a, <1>b DEF HitDevice, Hit, Labels
    <3>2. Pending(s)' \subseteq Pending(s) \ {w}
      BY <1>4, <2>1, <1>a, <1>b DEF HitDevice, Record, Labels
    <3> QED BY <3>1, <3>2 DEF Counted
  <2>2. CASE s # d /\ Hit(d)
    BY <1>4, <2>2, <1>a, <1>b DEF HitDevice, Record, Hit, Kept, Labels
  <2>3. CASE UNCHANGED counters
    BY <1>4, <2>3, <1>a, <1>b DEF HitDevice, Record, Kept, counters, Labels
  <2> QED BY <1>4, <2>1, <2>2, <2>3 DEF HitDevice, Record
<1>5. CASE HitTenant(w)
  <2>1. CASE s = Tenant /\ Hit(Tenant)
    <3>1. w \in Pending(s) /\ hits'[s] = hits[s] + 1
      BY <1>5, <2>1, <1>a, <1>b DEF HitTenant, Hit
    <3>2. Pending(s)' \subseteq Pending(s) \ {w}
      BY <1>5, <2>1, <1>a, <1>b DEF HitTenant, Record
    <3> QED BY <3>1, <3>2 DEF Counted
  <2>2. CASE s # Tenant /\ Hit(Tenant)
    BY <1>5, <2>2, <1>a, <1>b DEF HitTenant, Record, Hit, Kept
  <2>3. CASE UNCHANGED counters
    BY <1>5, <2>3, <1>a, <1>b DEF HitTenant, Record, Kept, counters
  <2> QED BY <1>5, <2>1, <2>2, <2>3 DEF HitTenant, Record
<1> QED BY <1>1, <1>2, <1>3, <1>4, <1>5 DEF Step

\* Whatever overlaps and fails, a window never holds more wrong codes than
\* its limit and the handlers that run at the same time (less one).
THEOREM OvershootHolds == Spec => []OvershootBounded
<1>1. Init => OvershootBounded
  <2> SUFFICES ASSUME Init, NEW s \in Scopes
               PROVE  hits[s] + Cardinality(Pending(s))
                         < Limit(s) + Cardinality(Workers)
    BY DEF OvershootBounded
  <2>1. hits[s] = 0 /\ Limit(s) \in Nat \ {0}
    BY ClaimLimitAssumption DEF Init, Limit
  <2> QED BY <2>1, PendingCount
<1>2. TypeOK /\ TypeOK' /\ OvershootBounded /\ [Next]_vars
        => OvershootBounded'
  <2> SUFFICES ASSUME TypeOK, TypeOK', OvershootBounded, [Next]_vars,
                      NEW s \in Scopes
               PROVE  hits'[s] + Cardinality(Pending(s)')
                         < Limit(s) + Cardinality(Workers)
    BY DEF OvershootBounded
  <2> SUFFICES Kept(s) \/ Admitted(s) \/ Counted(s)
    BY StillBounded
  <2>a. /\ pc \in [Workers -> Labels \cup Answers \cup {"idle"}]
        /\ hits \in [Scopes -> Nat] /\ ttl \in [Scopes -> 0 .. Window]
    BY DEF TypeOK
  <2>1. ASSUME NEW w \in Workers, NEW d \in Devices, NEW right \in BOOLEAN,
               Begin(w, d, right)
        PROVE  Kept(s)
    BY <2>1, <2>a DEF Begin, Goto, Kept, Pending, DeviceStages, TenantStages,
       counters
  <2>2. ASSUME NEW w \in Workers, Step(w)
        PROVE  Kept(s) \/ Admitted(s) \/ Counted(s)
    BY <2>2, StepKinds
  <2>3. CASE Tick
    BY <2>3, <2>a DEF Tick, Kept, Pending
  <2>4. CASE Crash
    BY <2>4, <2>a DEF Crash, Kept, Pending, DeviceStages, TenantStages,
       Labels, counters
  <2>5. CASE UNCHANGED vars
    BY <2>5, <2>a DEF vars, Kept, Pending
  <2> QED BY <2>1, <2>2, <2>3, <2>4, <2>5 DEF Next
<1> QED BY <1>1, <1>2, LimitTypes, PTL DEF Spec

-----------------------------------------------------------------------------
\* No code was wrong so far: nothing is counted, nobody is about to count, and
\* nobody was told to wait.
NothingCounted ==
    /\ \A s \in Scopes : hits[s] = 0
    /\ \A w \in Workers : pc[w] \notin {"hitDevice", "hitTenant", "throttled"}

\* Without a rejection that stays so: a counter at 0 blocks nobody.
LEMMA NothingCountedKept ==
    ASSUME TypeOK, NothingCounted, \A w \in Workers : pc[w] # "event", [Next]_vars
    PROVE  NothingCounted'
<1>0. /\ pc \in [Workers -> Labels \cup Answers \cup {"idle"}]
      /\ \A w \in Workers : pc[w] \in Labels => attempt[w].dev \in Devices
  BY DEF TypeOK
<1>1. \A s \in Scopes : ~ Blocked(s)
  BY ClaimLimitAssumption DEF NothingCounted, Blocked, Limit
<1>2. ASSUME NEW w \in Workers, Step(w) PROVE NothingCounted'
  <2>1. CheckDevice(w) \/ CheckTenant(w) \/ Judge(w)
    BY <1>2 DEF Step, NothingCounted, LogRejection, HitDevice, HitTenant
  <2>2. hits' = hits
    BY <2>1 DEF CheckDevice, CheckTenant, Check, Judge, counters
  <2>3. \E label \in (Labels \cup Answers) \ {"hitDevice", "hitTenant", "throttled"} :
           Goto(w, label)
    <3>1. CASE CheckDevice(w)
      <4>1. ~ Blocked(attempt[w].dev)
        BY <1>0, <1>1, <3>1 DEF CheckDevice, Labels, Scopes
      <4> QED
        BY <3>1, <4>1 DEF CheckDevice, Check, Answer, Onward, Labels, Answers
    <3>2. CASE CheckTenant(w)
      <4>1. ~ Blocked(Tenant)
        BY <1>1 DEF Scopes
      <4> QED
        BY <3>2, <4>1 DEF CheckTenant, Check, Answer, Onward, Labels, Answers
    <3>3. CASE Judge(w)
      BY <3>3 DEF Judge, Answer, Onward, Labels, Answers
    <3> QED BY <2>1, <3>1, <3>2, <3>3
  <2> QED BY <1>0, <2>2, <2>3 DEF NothingCounted, Goto
<1>3. ASSUME NEW w \in Workers, NEW d \in Devices, NEW right \in BOOLEAN,
             Begin(w, d, right)
      PROVE  NothingCounted'
  BY <1>0, <1>3 DEF Begin, Goto, NothingCounted, counters
<1>4. CASE Tick
  BY <1>4 DEF Tick, NothingCounted
<1>5. CASE Crash
  BY <1>0, <1>5 DEF Crash, NothingCounted, counters
<1>6. CASE UNCHANGED vars
  BY <1>6 DEF vars, NothingCounted
<1> QED BY <1>2, <1>3, <1>4, <1>5, <1>6 DEF Next

\* Activating many devices in a row with their right codes throttles nobody,
\* for any limits: only rejections are counted.
THEOREM SuccessHolds == Spec => SuccessNeverThrottled
<1> DEFINE NoneWrong == \A w \in Workers : pc[w] # "event"
           NoneThrottled == \A w \in Workers : pc[w] # "throttled"
<1>1. Init => NothingCounted
  BY DEF Init, NothingCounted
<1>2. TypeOK /\ NothingCounted /\ NoneWrong /\ [Next]_vars => NothingCounted'
  BY NothingCountedKept
<1>3. NothingCounted => NoneThrottled
  BY DEF NothingCounted
<1>4. SuccessNeverThrottled <=> ([]NoneWrong => []NoneThrottled)
  BY DEF SuccessNeverThrottled
<1> HIDE DEF NoneWrong, NoneThrottled
<1> QED BY <1>1, <1>2, <1>3, <1>4, LimitTypes, PTL DEF Spec

-----------------------------------------------------------------------------
(* The codes that are judged (ClaimCode). *)

\* A set of numbers has a least one (Min of FiniteSetsExt).
LEMMA Least ==
    ASSUME NEW I \in SUBSET Nat, I # {}
    PROVE  Min(I) \in I /\ \A i \in I : Min(I) <= i
<1>1. \E i \in I : \A j \in I : ~ (<<j, i>> \in OpToRel(<, Nat))
  BY NatLessThanWellFounded, WFMin
<1>2. PICK i \in I : \A j \in I : ~ (<<j, i>> \in OpToRel(<, Nat))
  BY <1>1
<1>3. ASSUME NEW j \in I PROVE i <= j
  <2>1. <<j, i>> \in Nat \X Nat /\ <<j, i>>[1] = j /\ <<j, i>>[2] = i
    OBVIOUS
  <2>2. j < i => <<j, i>> \in OpToRel(<, Nat)
    BY <2>1 DEF OpToRel
  <2>3. ~ (j < i)
    BY <1>2, <2>2, Zenon
  <2> QED BY <2>3
<1> QED BY <1>3 DEF Min

\* The first dash, if there is one.
LEMMA FirstDash ==
    ASSUME NEW Symbols, NEW text \in Seq(Symbols),
           NEW dash, dash = SelectInSeq(text, LAMBDA c : c = "-")
    PROVE  \/ /\ dash = 0
              /\ \A k \in DOMAIN text : text[k] # "-"
           \/ /\ dash \in DOMAIN text /\ text[dash] = "-"
              /\ \A k \in DOMAIN text : k < dash => text[k] # "-"
<1> DEFINE I == {i \in 1 .. Len(text) : text[i] = "-"}
<1>1. dash = IF I # {} THEN Min(I) ELSE 0
  BY DEF SelectInSeq
<1>2. I \in SUBSET Nat /\ DOMAIN text = 1 .. Len(text)
  OBVIOUS
<1>3. CASE I = {}
  BY <1>1, <1>2, <1>3
<1>4. CASE I # {}
  <2>1. dash \in I /\ \A i \in I : dash <= i
    <3> HIDE DEF I
    <3> QED BY <1>1, <1>2, <1>4, Least
  <2> QED BY <1>2, <2>1
<1> QED BY <1>3, <1>4

\* What the two translations make of one symbol.
LEMMA Symbol ==
    ASSUME NEW x
    PROVE  /\ Translate(Capital, x) = "-" <=> x = "-"
           /\ \A k \in 1 .. 3 :
                 Translate(Capital, x) = Prefix[k] <=> x \in Reading(k, Prefix[k])
           /\ \A c \in BodySymbols, k \in Nat : k > 3 =>
                 (Translate(Lookalikes, Translate(Capital, x)) = c
                  <=> x \in Reading(k, c))
<1>0. /\ DOMAIN Capital = {"v", "i", "o", "b"}
      /\ DOMAIN Lookalikes = {"0", "1", "8"}
      /\ Len(Prefix) = 3
  BY DEF Capital, Lookalikes, Prefix
<1>1. CASE x \in DOMAIN Capital
  BY <1>0, <1>1, ClaimCodeAssumption
     DEF Translate, Capital, Lookalikes, Reading, Prefix
<1>2. CASE x \in DOMAIN Lookalikes
  BY <1>0, <1>2, ClaimCodeAssumption
     DEF Translate, Capital, Lookalikes, Reading, Prefix
<1>3. CASE x \notin DOMAIN Capital /\ x \notin DOMAIN Lookalikes
  BY <1>0, <1>3, ClaimCodeAssumption
     DEF Translate, Capital, Lookalikes, Reading, Prefix
<1> QED BY <1>1, <1>2, <1>3

\* normalize_claim_code once the spaces are gone: a text is read as a printed
\* code exactly if it is a way of reading that code off the label, for any
\* length of the body and whatever is typed.
THEOREM ReadingsReadBack ==
    ASSUME NEW Symbols, NEW ink \in Seq(Symbols), NEW printed \in Printed
    PROVE  Partitioned(Upper(ink)) = printed <=> ReadAs(ink, printed)
<1> DEFINE text == Upper(ink)
           dash == SelectInSeq(text, LAMBDA c : c = "-")
           code == Partitioned(text)
<1>0. BodyLength \in Nat /\ Len(ink) \in Nat
  BY ClaimCodeAssumption
<1>1. PICK body \in [1 .. BodyLength -> BodySymbols] : printed = Prefix \o body
  BY DEF Printed
<1>2. /\ printed = [k \in 1 .. BodyLength + 3 |-> printed[k]]
      /\ Len(printed) = BodyLength + 3
      /\ \A k \in 1 .. 3 : printed[k] = Prefix[k]
      /\ \A k \in 4 .. BodyLength + 3 : printed[k] \in BodySymbols
      /\ Prefix[1] = "V" /\ Prefix[2] = "1" /\ Prefix[3] = "-"
  BY <1>0, <1>1 DEF Prefix
<1>3. /\ DOMAIN ink = 1 .. Len(ink) /\ DOMAIN text = DOMAIN ink
      /\ \A k \in DOMAIN ink : text[k] = Translate(Capital, ink[k])
      /\ text \in Seq({text[k] : k \in DOMAIN ink})
  BY DEF Upper
<1>4. code = [k \in DOMAIN ink |->
                IF dash # 0 /\ k > dash THEN Translate(Lookalikes, text[k])
                ELSE text[k]]
  BY <1>3 DEF Partitioned
<1>5. \/ dash = 0 /\ \A k \in DOMAIN ink : text[k] # "-"
      \/ /\ dash \in DOMAIN ink /\ text[dash] = "-"
         /\ \A k \in DOMAIN ink : k < dash => text[k] # "-"
  <2> HIDE DEF text
  <2> QED BY <1>3, FirstDash
<1> HIDE DEF text, dash, code
<1>6. ASSUME Len(ink) = BodyLength + 3,
             \A k \in 1 .. 3 : text[k] = Prefix[k]
      PROVE  dash = 3
  <2>1. 1 .. 3 \subseteq DOMAIN ink
    BY <1>0, <1>3, <1>6
  <2>2. text[1] # "-" /\ text[2] # "-" /\ text[3] = "-"
    BY <1>2, <1>6
  <2>3. dash # 0 /\ dash \in 1 .. Len(ink) /\ text[dash] = "-" /\ ~ (3 < dash)
    BY <1>3, <1>5, <2>1, <2>2
  <2> QED BY <1>3, <2>2, <2>3
<1>7. ASSUME Len(ink) = BodyLength + 3, dash = 3
      PROVE  code = printed <=> ReadAs(ink, printed)
  <2>1. \A k \in 1 .. 3 : code[k] = printed[k] <=> ink[k] \in Reading(k, printed[k])
    <3> TAKE k \in 1 .. 3
    <3>1. k \in DOMAIN ink /\ ~ (k > dash)
      BY <1>0, <1>3, <1>7
    <3>2. code[k] = Translate(Capital, ink[k])
      BY <1>3, <1>4, <3>1
    <3> QED BY <1>2, <3>2, Symbol
  <2>2. \A k \in 4 .. BodyLength + 3 :
            code[k] = printed[k] <=> ink[k] \in Reading(k, printed[k])
    <3> TAKE k \in 4 .. BodyLength + 3
    <3>1. k \in DOMAIN ink /\ k > dash /\ dash # 0
      BY <1>0, <1>3, <1>7
    <3>2. code[k] = Translate(Lookalikes, Translate(Capital, ink[k]))
      BY <1>3, <1>4, <3>1
    <3>3. printed[k] \in BodySymbols
      BY <1>2
    <3>4. k \in Nat /\ k > 3
      BY <1>0
    <3> QED BY <3>2, <3>3, <3>4, Symbol
  <2>3. \A k \in 1 .. BodyLength + 3 :
            code[k] = printed[k] <=> ink[k] \in Reading(k, printed[k])
    BY <1>0, <2>1, <2>2
  <2>4. code = printed <=> \A k \in 1 .. BodyLength + 3 : code[k] = printed[k]
    BY <1>2, <1>3, <1>4, <1>7
  <2> QED BY <1>2, <1>3, <1>7, <2>3, <2>4 DEF ReadAs
<1>8. ASSUME code = printed PROVE Len(ink) = BodyLength + 3 /\ dash = 3
  <2>1. 1 .. Len(ink) = 1 .. BodyLength + 3
    BY <1>2, <1>3, <1>4, <1>8
  <2>2. Len(ink) = BodyLength + 3
    <3>1. BodyLength + 3 \in 1 .. Len(ink)
      BY <1>0, <2>1
    <3>2. Len(ink) \in 1 .. Len(ink)
      BY <1>0, <3>1
    <3>3. Len(ink) \in 1 .. BodyLength + 3
      BY <2>1, <3>2
    <3>4. BodyLength + 3 <= Len(ink) /\ Len(ink) <= BodyLength + 3
      BY <1>0, <3>1, <3>3
    <3> QED BY <1>0, <3>4
  <2>3. code[1] = "V" /\ code[2] = "1" /\ code[3] = "-"
    BY <1>0, <1>2, <1>8
  <2>4. \A k \in 1 .. 3 : text[k] = Prefix[k]
    <3>1. 1 .. 3 \subseteq DOMAIN ink /\ DOMAIN ink = 1 .. Len(ink)
      BY <1>0, <1>3, <2>2
    <3>2. dash # 0 => code[dash] = "-" /\ dash \in 1 .. Len(ink)
      BY <1>3, <1>4, <1>5
    <3>3. dash # 1 /\ dash # 2
      BY <2>3, <3>2
    <3>4. \A k \in 1 .. 3 : ~ (dash # 0 /\ k > dash)
      BY <3>1, <3>2, <3>3
    <3>5. \A k \in 1 .. 3 : text[k] = code[k]
      BY <1>4, <3>1, <3>4
    <3> QED BY <1>2, <1>8, <3>5
  <2> QED BY <1>6, <2>2, <2>4
<1>9. ASSUME ReadAs(ink, printed) PROVE Len(ink) = BodyLength + 3 /\ dash = 3
  <2>1. Len(ink) = BodyLength + 3
        /\ \A k \in 1 .. 3 : ink[k] \in Reading(k, Prefix[k])
    <3>1. Len(ink) = BodyLength + 3
      BY <1>2, <1>9 DEF ReadAs
    <3>2. 1 .. 3 \subseteq DOMAIN ink
      BY <1>0, <1>3, <3>1
    <3>3. \A k \in DOMAIN ink : ink[k] \in Reading(k, printed[k])
      BY <1>9 DEF ReadAs
    <3> QED BY <1>2, <3>1, <3>2, <3>3
  <2>2. \A k \in 1 .. 3 : text[k] = Prefix[k]
    BY <1>0, <1>3, <2>1, Symbol
  <2> QED BY <1>6, <2>1, <2>2
<1> QED BY <1>7, <1>8, <1>9 DEF code, text

-----------------------------------------------------------------------------
\* What holds of 0 and passes from each number to the next holds up to n.
LEMMA Induction ==
    ASSUME NEW n \in Nat, NEW I, 0 \in I,
           \A k \in 0 .. n - 1 : k \in I => k + 1 \in I
    PROVE  \A k \in 0 .. n : k \in I
<1> DEFINE Bad == {k \in 0 .. n : k \notin I}
<1> SUFFICES ASSUME Bad # {} PROVE FALSE
  OBVIOUS
<1>1. Bad \in SUBSET Nat
  OBVIOUS
<1>2. Min(Bad) \in Bad /\ \A k \in Bad : Min(Bad) <= k
  <2> HIDE DEF Bad
  <2> QED BY <1>1, Least
<1>3. PICK m \in Bad : \A k \in Bad : m <= k
  BY <1>2
<1>4. m # 0 /\ m - 1 \in 0 .. n - 1 /\ m - 1 \notin Bad
  BY <1>3
<1> QED BY <1>3, <1>4

LEMMA Greatest ==
    ASSUME NEW n \in Nat, NEW I \in SUBSET (1 .. n), I # {}
    PROVE  Max(I) \in I /\ \A i \in I : i <= Max(I)
<1> DEFINE J == {n - i : i \in I}
<1>1. J \in SUBSET Nat /\ J # {}
  <2>1. PICK i \in I : TRUE
    OBVIOUS
  <2>2. n - i \in J
    OBVIOUS
  <2>3. \A k \in I : n - k \in Nat
    OBVIOUS
  <2> QED BY <2>2, <2>3
<1>2. Min(J) \in J /\ \A j \in J : Min(J) <= j
  <2> HIDE DEF J
  <2> QED BY <1>1, Least
<1>3. PICK i \in I : Min(J) = n - i
  BY <1>2
<1>4. ASSUME NEW k \in I PROVE i >= k
  <2>1. n - k \in J
    OBVIOUS
  <2>2. n - i <= n - k
    BY <1>2, <1>3, <2>1
  <2> QED BY <2>2
<1> QED BY <1>3, <1>4 DEF Max

\* ink[k] is what is left of the first k symbols of a text.
InkOf(ink, code) ==
    /\ ink[0] = <<>>
    /\ \A k \in 1 .. Len(code) :
          ink[k] = KeepInk(ink[k - 1], code[k])

\* A function that satisfies the recursion of Compact up to m.
Unrolled(g, code, m) ==
    g = [k \in 0 .. m |->
           IF k = 0 THEN <<>> ELSE KeepInk(g[k - 1], code[k])]

\* The recursion of Compact has a value.
LEMMA CompactDefined ==
    ASSUME NEW Symbols, NEW code \in Seq(Symbols)
    PROVE  \E ink : /\ InkOf(ink, code)
                    /\ Compact(code) = ink[Len(code)]
                    /\ \A k \in 0 .. Len(code) : ink[k] \in Seq(Symbols)
<1> DEFINE n == Len(code)
           I == {m \in 0 .. n : \E g : Unrolled(g, code, m)}
<1>0. n \in Nat
  OBVIOUS
<1>1. 0 \in I
  <2>1. Unrolled([k \in 0 .. 0 |-> <<>>], code, 0)
    BY DEF Unrolled
  <2>2. 0 \in 0 .. n
    BY <1>0
  <2> QED BY <2>1, <2>2
<1>2. ASSUME NEW m \in 0 .. n - 1, m \in I PROVE m + 1 \in I
  <2>1. PICK g : Unrolled(g, code, m)
    BY <1>2
  <2> DEFINE h == [k \in 0 .. m + 1 |->
                     IF k <= m THEN g[k] ELSE KeepInk(g[k - 1], code[k])]
  <2>2. Unrolled(h, code, m + 1)
    <3>0. m \in Nat
      BY <1>0
    <3>1. ASSUME NEW k \in 0 .. m
          PROVE  h[k] = g[k] /\ g[k] = IF k = 0 THEN <<>>
                                       ELSE KeepInk(g[k - 1], code[k])
      BY <2>1, <3>0 DEF Unrolled
    <3>2. h[m + 1] = KeepInk(g[m], code[m + 1])
      BY <3>0
    <3>3. ASSUME NEW k \in 0 .. m + 1
          PROVE  h[k] = IF k = 0 THEN <<>> ELSE KeepInk(h[k - 1], code[k])
      <4>1. CASE k = 0
        <5>1. 0 \in 0 .. m
          BY <3>0
        <5> HIDE DEF h
        <5> QED BY <3>1, <4>1, <5>1
      <4>2. CASE k \in 1 .. m
        <5>1. k - 1 \in 0 .. m /\ k \in 0 .. m /\ k # 0
          BY <3>0, <4>2
        <5> HIDE DEF h
        <5> QED BY <3>1, <5>1
      <4>3. CASE k = m + 1
        <5>1. k # 0 /\ k - 1 = m /\ m \in 0 .. m
          BY <3>0, <4>3
        <5> HIDE DEF h
        <5> QED BY <3>1, <3>2, <4>3, <5>1
      <4> QED BY <3>0, <4>1, <4>2, <4>3
    <3>4. h = [k \in 0 .. m + 1 |-> h[k]]
      OBVIOUS
    <3> HIDE DEF h
    <3> QED BY <3>3, <3>4 DEF Unrolled
  <2>3. m + 1 \in 0 .. n
    BY <1>0
  <2> HIDE DEF h
  <2> QED BY <2>2, <2>3
<1>3. PICK g : Unrolled(g, code, n)
  <2> HIDE DEF I
  <2>1. \A m \in 0 .. n : m \in I
    BY <1>0, <1>1, <1>2, Induction
  <2>2. n \in I
    BY <1>0, <2>1
  <2> QED BY <2>2 DEF I
<1> DEFINE ink == CHOOSE f : Unrolled(f, code, n)
<1>4. Unrolled(ink, code, n)
  BY <1>3
<1>5. Compact(code) = ink[n]
  BY DEF Compact, Unrolled
<1> HIDE DEF ink
<1>6. InkOf(ink, code)
  <2>1. \A k \in 0 .. n :
           ink[k] = IF k = 0 THEN <<>> ELSE KeepInk(ink[k - 1], code[k])
    BY <1>4 DEF Unrolled
  <2>2. 0 \in 0 .. n /\ \A k \in 1 .. n : k \in 0 .. n /\ k # 0
    BY <1>0
  <2> QED BY <2>1, <2>2 DEF InkOf
<1>7. \A k \in 0 .. n : ink[k] \in Seq(Symbols)
  <2> DEFINE T == {k \in 0 .. n : ink[k] \in Seq(Symbols)}
  <2>1. 0 \in T
    <3>1. 0 \in 0 .. n /\ <<>> \in Seq(Symbols)
      BY <1>0
    <3> QED BY <1>6, <3>1 DEF InkOf
  <2>2. ASSUME NEW k \in 0 .. n - 1, k \in T PROVE k + 1 \in T
    <3>1. k + 1 \in 1 .. n /\ (k + 1) - 1 = k
      BY <1>0
    <3>2. code[k + 1] \in Symbols
      BY <3>1
    <3>3. ink[k + 1] = KeepInk(ink[k], code[k + 1]) /\ ink[k] \in Seq(Symbols)
      BY <1>6, <2>2, <3>1 DEF InkOf
    <3>4. ink[k + 1] \in Seq(Symbols) /\ k + 1 \in 0 .. n
      BY <1>0, <3>2, <3>3 DEF KeepInk
    <3> QED BY <3>4
  <2> HIDE DEF T
  <2>3. \A k \in 0 .. n : k \in T
    BY <1>0, <2>1, <2>2, Induction
  <2> QED BY <2>3 DEF T
<1> QED BY <1>5, <1>6, <1>7

LEMMA UpperAppend ==
    ASSUME NEW Symbols, NEW text \in Seq(Symbols), NEW c
    PROVE  Upper(Append(text, c)) = Append(Upper(text), Translate(Capital, c))
BY DEF Upper

LEMMA UpperTwice ==
    ASSUME NEW text PROVE Upper(Upper(text)) = Upper(text)
BY DEF Upper, Translate, Capital

LEMMA Blank ==
    ASSUME NEW c PROVE Translate(Capital, c) = Space <=> c = Space
<1>1. DOMAIN Capital = {"v", "i", "o", "b"}
  BY DEF Capital
<1> QED BY <1>1 DEF Translate, Capital, Space

\* A text of spaces leaves nothing.
LEMMA OnlySpaces ==
    ASSUME NEW Symbols, NEW code \in Seq(Symbols),
           \A k \in DOMAIN code : code[k] = Space
    PROVE  Compact(code) = <<>>
<1> DEFINE n == Len(code)
<1>0. n \in Nat /\ DOMAIN code = 1 .. n
  OBVIOUS
<1>1. PICK ink : InkOf(ink, code) /\ Compact(code) = ink[n]
  BY CompactDefined
<1> DEFINE I == {k \in 0 .. n : ink[k] = <<>>}
<1>2. 0 \in I
  BY <1>0, <1>1 DEF InkOf
<1>3. ASSUME NEW k \in 0 .. n - 1, k \in I PROVE k + 1 \in I
  <2>1. k + 1 \in 1 .. n /\ (k + 1) - 1 = k
    BY <1>0
  <2> QED BY <1>0, <1>1, <1>3, <2>1 DEF InkOf, KeepInk
<1>4. \A k \in 0 .. n : k \in I
  <2> HIDE DEF I
  <2> QED BY <1>0, <1>2, <1>3, Induction
<1> QED BY <1>0, <1>1, <1>4

\* Cutting off the spaces around the ink and writing capitals changes nothing
\* of what is left when the spaces are dropped, but that it is in capitals.
LEMMA TrimmedInk ==
    ASSUME NEW Symbols, NEW typed \in Seq(Symbols),
           NEW a \in 1 .. Len(typed), NEW b \in a .. Len(typed),
           \A k \in 1 .. Len(typed) : typed[k] # Space => a <= k /\ k <= b
    PROVE  Compact(Upper(SubSeq(typed, a, b))) = Upper(Compact(typed))
<1> DEFINE n == Len(typed)
           m == b - a + 1
           text == Upper(SubSeq(typed, a, b))
           Capitals == {Translate(Capital, c) : c \in Symbols}
<1>0. /\ n \in Nat /\ m \in Nat /\ a \in Nat /\ b \in Nat
      /\ 1 <= a /\ a <= b /\ b <= n
  OBVIOUS
<1>1. /\ text \in Seq(Capitals) /\ Len(text) = m
      /\ \A k \in 1 .. m : text[k] = Translate(Capital, typed[a - 1 + k])
  <2>1. /\ SubSeq(typed, a, b) \in Seq(Symbols)
        /\ Len(SubSeq(typed, a, b)) = m
        /\ \A k \in 1 .. m : SubSeq(typed, a, b)[k] = typed[a - 1 + k]
    BY <1>0
  <2>2. text = [k \in 1 .. m |-> Translate(Capital, typed[a - 1 + k])]
    BY <2>1 DEF Upper
  <2>3. ASSUME NEW k \in 1 .. m
        PROVE  Translate(Capital, typed[a - 1 + k]) \in Capitals
    <3>1. a - 1 + k \in 1 .. n
      BY <1>0
    <3>2. typed[a - 1 + k] \in Symbols
      BY <3>1
    <3> QED BY <3>2
  <2> HIDE DEF text, Capitals
  <2> QED BY <1>0, <2>2, <2>3
<1> HIDE DEF text
<1>2. PICK f : /\ InkOf(f, typed) /\ Compact(typed) = f[n]
               /\ \A k \in 0 .. n : f[k] \in Seq(Symbols)
  BY CompactDefined
<1>3. PICK g : InkOf(g, text) /\ Compact(text) = g[m]
  BY <1>1, CompactDefined
<1>4. f[a - 1] = <<>>
  <2> DEFINE I == {k \in 0 .. a - 1 : f[k] = <<>>}
  <2>1. 0 \in I
    BY <1>0, <1>2 DEF InkOf
  <2>2. ASSUME NEW k \in 0 .. (a - 1) - 1, k \in I PROVE k + 1 \in I
    <3>1. k + 1 \in 1 .. n /\ (k + 1) - 1 = k /\ k + 1 < a
      BY <1>0
    <3>2. typed[k + 1] = Space
      BY <1>0, <3>1
    <3> QED BY <1>0, <1>2, <2>2, <3>1, <3>2 DEF InkOf, KeepInk
  <2>3. \A k \in 0 .. a - 1 : k \in I
    <3>1. a - 1 \in Nat
      BY <1>0
    <3> HIDE DEF I
    <3> QED BY <2>1, <2>2, <3>1, Induction
  <2> QED BY <1>0, <2>3
<1>5. g[m] = Upper(f[b])
  <2> DEFINE I == {k \in 0 .. m : g[k] = Upper(f[a - 1 + k])}
  <2>1. 0 \in I
    <3>1. g[0] = <<>> /\ f[a - 1 + 0] = <<>>
      BY <1>0, <1>3, <1>4 DEF InkOf
    <3> QED BY <1>0, <3>1 DEF Upper
  <2>2. ASSUME NEW k \in 0 .. m - 1, k \in I PROVE k + 1 \in I
    <3> DEFINE j == a + k
    <3>1. /\ k + 1 \in 1 .. m /\ (k + 1) - 1 = k
          /\ j \in 1 .. n /\ j - 1 = a - 1 + k /\ j = a - 1 + (k + 1)
          /\ j - 1 \in 0 .. n
      BY <1>0
    <3>2. g[k] = Upper(f[j - 1]) /\ f[j - 1] \in Seq(Symbols)
      BY <1>2, <2>2, <3>1
    <3>3. text[k + 1] = Translate(Capital, typed[j])
      BY <1>1, <3>1
    <3>4. f[j] = KeepInk(f[j - 1], typed[j])
      BY <1>2, <3>1 DEF InkOf
    <3>5. g[k + 1] = KeepInk(g[k], text[k + 1])
      BY <1>1, <1>3, <3>1 DEF InkOf
    <3>6. g[k + 1] = Upper(f[j])
      <4> HIDE DEF j
      <4>1. CASE typed[j] = Space
        BY <3>2, <3>3, <3>4, <3>5, <4>1, Blank DEF KeepInk
      <4>2. CASE typed[j] # Space
        <5>1. f[j] = Append(f[j - 1], typed[j])
          BY <3>4, <4>2 DEF KeepInk
        <5>2. g[k + 1] = Append(Upper(f[j - 1]), Translate(Capital, typed[j]))
          BY <3>2, <3>3, <3>5, <4>2, Blank DEF KeepInk
        <5> QED BY <3>2, <5>1, <5>2, UpperAppend
      <4> QED BY <4>1, <4>2
    <3> QED BY <3>1, <3>6
  <2>3. \A k \in 0 .. m : k \in I
    <3> HIDE DEF I
    <3> QED BY <1>0, <2>1, <2>2, Induction
  <2>4. m \in 0 .. m /\ a - 1 + m = b
    BY <1>0
  <2> QED BY <2>3, <2>4
<1>6. f[n] = f[b]
  <2> DEFINE I == {k \in 0 .. n - b : f[b + k] = f[b]}
  <2>0. n - b \in Nat
    BY <1>0
  <2>1. 0 \in I
    BY <1>0
  <2>2. ASSUME NEW k \in 0 .. (n - b) - 1, k \in I PROVE k + 1 \in I
    <3>1. /\ b + k + 1 \in 1 .. n /\ (b + k + 1) - 1 = b + k
          /\ b < b + k + 1 /\ b + (k + 1) = b + k + 1
          /\ k + 1 \in 0 .. n - b
      BY <1>0
    <3>2. typed[b + k + 1] = Space
      BY <1>0, <3>1
    <3>3. f[b + k + 1] = f[b + k]
      BY <1>2, <3>1, <3>2 DEF InkOf, KeepInk
    <3> QED BY <2>2, <3>1, <3>3
  <2>3. \A k \in 0 .. n - b : k \in I
    <3> HIDE DEF I
    <3> QED BY <2>0, <2>1, <2>2, Induction
  <2>4. n - b \in 0 .. n - b /\ b + (n - b) = n
    BY <1>0
  <2> QED BY <2>3, <2>4
<1> QED BY <1>2, <1>3, <1>5, <1>6 DEF text

\* What the wizard sends is read as what was typed, whatever was typed.
THEOREM WizardHarmless ==
    ASSUME NEW Symbols, NEW typed \in Seq(Symbols), Compact(typed) # <<>>
    PROVE  Normalize(Submitted(typed)) = Normalize(typed)
<1> DEFINE I == {i \in 1 .. Len(typed) : typed[i] # Space}
           a == Min(I)
           b == Max(I)
<1>0. Len(typed) \in Nat /\ DOMAIN typed = 1 .. Len(typed)
  OBVIOUS
<1>1. I # {}
  BY <1>0, OnlySpaces
<1>2. a \in I /\ \A i \in I : a <= i
  <2>1. I \in SUBSET Nat
    OBVIOUS
  <2> HIDE DEF I
  <2> QED BY <1>1, <2>1, Least
<1>3. b \in I /\ \A i \in I : i <= b
  <2>1. I \in SUBSET (1 .. Len(typed))
    OBVIOUS
  <2> HIDE DEF I
  <2> QED BY <1>0, <1>1, <2>1, Greatest
<1>4. Submitted(typed) = Upper(SubSeq(typed, a, b))
  BY <1>1 DEF Submitted, SelectInSeq, SelectLastInSeq
<1>5. /\ a \in 1 .. Len(typed) /\ b \in a .. Len(typed)
      /\ \A k \in 1 .. Len(typed) : typed[k] # Space => a <= k /\ k <= b
  <2>1. a \in 1 .. Len(typed) /\ b \in 1 .. Len(typed) /\ a <= b
    BY <1>2, <1>3
  <2>2. \A k \in 1 .. Len(typed) : typed[k] # Space => k \in I
    OBVIOUS
  <2> HIDE DEF I, a, b
  <2> QED BY <1>0, <1>2, <1>3, <2>1, <2>2
<1> HIDE DEF a, b, I
<1>6. Compact(Submitted(typed)) = Upper(Compact(typed))
  BY <1>4, <1>5, TrimmedInk
<1> QED BY <1>6, UpperTwice DEF Normalize

\* AcceptsReadings, for every alphabet and every length.
THEOREM AcceptsReadingsHold == AcceptsReadings
<1> SUFFICES ASSUME NEW typed \in BoundedSeq(Keyboard, MaxTyped),
                    NEW printed \in Printed
             PROVE  /\ Normalize(typed) = printed <=> IsReading(typed, printed)
                    /\ Compact(typed) # <<>> =>
                          Normalize(Submitted(typed)) = Normalize(typed)
  BY DEF AcceptsReadings
<1>1. typed \in Seq(Keyboard)
  <2>1. PICK m \in 0 .. MaxTyped : typed \in [1 .. m -> Keyboard]
    BY DEF BoundedSeq, SeqOf
  <2>2. m \in Nat
    BY ClaimCodeAssumption
  <2> QED BY <2>1, <2>2
<1>2. Compact(typed) \in Seq(Keyboard)
  <2>1. PICK ink : /\ Compact(typed) = ink[Len(typed)]
                   /\ \A k \in 0 .. Len(typed) : ink[k] \in Seq(Keyboard)
    BY <1>1, CompactDefined
  <2>2. Len(typed) \in 0 .. Len(typed)
    BY <1>1
  <2> QED BY <2>1, <2>2
<1>3. Normalize(typed) = printed <=> IsReading(typed, printed)
  BY <1>2, ReadingsReadBack DEF Normalize, IsReading
<1> QED BY <1>1, <1>3, WizardHarmless

\* No worker judges a code wrongly, for any number of workers, alphabet and
\* length of what is typed.
THEOREM CodesReadBackHolds == Spec => []CodesReadBack
<1>1. TypeOK => CodesReadBack
  BY AcceptsReadingsHold DEF CodesReadBack
<1> QED BY <1>1, LimitTypes, PTL
=============================================================================
