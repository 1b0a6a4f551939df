---------------------------- MODULE FactoryProofs ----------------------------
(***************************************************************************)
(* The safety of Factory, proved from the inductive invariant FactoryInv.  *)
(*                                                                         *)
(* A step of a run touches that run and its device only (StepFrame); what  *)
(* it does to them is one lemma for each conjunct of the invariant, with   *)
(* one case for each action.                                               *)
(***************************************************************************)
EXTENDS Factory, TLAPS

\* A fault is recorded, and none is forgotten.
LEMMA FaultTypes ==
    ASSUME spent \subseteq FaultKinds, NEW kind, Fault(kind)
    PROVE  spent' \subseteq FaultKinds /\ spent' = spent \cup {kind}
BY DEF Fault

\* What a run learns is written into its job, which stays what it was asked.
LEMMA JobTypes ==
    ASSUME NEW j \in Job
    PROVE  /\ j.version \in Versions
           /\ \A c \in Versions \cup {None} : [j EXCEPT !.code = c] \in Job
           /\ \A n \in Runs \cup {None} : [j EXCEPT !.name = n] \in Job
           /\ \A n \in Runs : [j EXCEPT !.name = n, !.polls = SignPolls] \in Job
           /\ [j EXCEPT !.name = None, !.polls = 0, !.signed = FALSE] \in Job
           /\ \A p \in 0 .. SignPolls : [j EXCEPT !.polls = p] \in Job
           /\ \A b \in BOOLEAN : [j EXCEPT !.signed = b] \in Job
<1>1. SignPolls \in 0 .. SignPolls /\ 0 \in 0 .. SignPolls
  BY FactoryAssumption
<1>2. /\ j.version \in Versions
      /\ \A c \in Versions \cup {None} : [j EXCEPT !.code = c] \in Job
      /\ \A n \in Runs \cup {None} : [j EXCEPT !.name = n] \in Job
  BY DEF Job
<1>3. /\ \A p \in 0 .. SignPolls : [j EXCEPT !.polls = p] \in Job
      /\ \A b \in BOOLEAN : [j EXCEPT !.signed = b] \in Job
  BY DEF Job
<1>4. \A n \in Runs : [j EXCEPT !.name = n, !.polls = SignPolls] \in Job
  BY <1>1 DEF Job
<1>5. [j EXCEPT !.name = None, !.polls = 0, !.signed = FALSE] \in Job
  BY <1>1 DEF Job
<1> QED BY <1>2, <1>3, <1>4, <1>5

\* What a step of a run leaves alone: the other runs, the other devices, and
\* what it was asked.
LEMMA StepFrame ==
    ASSUME TypeOK, RunsWaitedFor, OwnRequest, NEW r \in Runs, Step(r)
    PROVE  /\ pc[r] # "rest" /\ client[r] \in {"open", "failed"}
           /\ job[r] \in Job /\ Dev(r) \in Devices
           /\ \A q \in Runs \ {r} :
                 /\ pc'[q] = pc[q] /\ client'[q] = client[q] /\ job'[q] = job[q]
                 /\ requests'[q] = requests[q]
           /\ \A d \in Devices \ {Dev(r)} :
                 /\ row'[d] = row[d] /\ inserting'[d] = inserting[d]
                 /\ registered'[d] = registered[d] /\ disk'[d] = disk[d]
<1>0. /\ job \in [Runs -> Job \cup {NoJob}]
      /\ row \in [Devices -> Row \cup {NoRow}]
      /\ pc \in [Runs -> Handling \cup Writing \cup {"rest"}]
      /\ client \in [Runs -> {"none", "open", "done", "failed"}]
      /\ requests \in [Runs -> {"none", "pending", "signed", "denied"}]
      /\ disk \in [Devices -> Disk]
      /\ inserting \in [Devices -> Runs \cup {None}]
      /\ registered \in [Devices -> Nat]
  BY DEF TypeOK
<1>1. pc[r] # "rest"
  BY DEF Step, Read, Insert, Log, Check, Create, Poll, Cleanup, Save, WriteKey,
     WriteCert
<1>2. client[r] \in {"open", "failed"} /\ job[r] \in Job /\ Dev(r) \in Devices
  BY <1>1 DEF RunsWaitedFor, Dev, Job
<1> DEFINE Kept == /\ \A q \in Runs \ {r} :
                        /\ pc'[q] = pc[q] /\ client'[q] = client[q]
                        /\ job'[q] = job[q] /\ requests'[q] = requests[q]
                   /\ \A d \in Devices \ {Dev(r)} :
                        /\ row'[d] = row[d] /\ inserting'[d] = inserting[d]
                        /\ registered'[d] = registered[d] /\ disk'[d] = disk[d]
<1> SUFFICES Kept
  BY <1>1, <1>2
<1> USE <1>0 DEF Onward, Refuse, Goto, database, cluster
<1>3. CASE Read(r)
  BY <1>3 DEF Read, CodeAgain, HandOut
<1>4. CASE Insert(r)
  BY <1>4 DEF Insert
<1>5. CASE Log(r)
  BY <1>5 DEF Log, Committed, HandOut
<1>6. CASE Check(r)
  BY <1>6 DEF Check
<1>7. CASE Create(r)
  BY <1>7 DEF Create, Created, Taken
<1>8. CASE Poll(r)
  BY <1>8 DEF Poll, CleanUp
<1>9. CASE Cleanup(r)
  BY <1>9 DEF Cleanup, OwnRequest
<1>10. CASE Save(r)
  BY <1>10 DEF Save, Record
<1>11. CASE WriteKey(r) \/ WriteCert(r)
  BY <1>11 DEF WriteKey, WriteCert
<1> QED
  BY <1>3, <1>4, <1>5, <1>6, <1>7, <1>8, <1>9, <1>10, <1>11 DEF Step

\* The job of a run grows, and stays what it was asked.
LEMMA StepJob ==
    ASSUME TypeOK, RunsWaitedFor, OwnRequest, NEW r \in Runs, Step(r)
    PROVE  \E j \in Job : /\ job' = [job EXCEPT ![r] = j]
                          /\ j.tool = job[r].tool /\ j.dev = job[r].dev
                          /\ j.order = job[r].order
                          /\ j.version = job[r].version
<1>0. /\ job \in [Runs -> Job \cup {NoJob}] /\ job[r] \in Job
      /\ row \in [Devices -> Row \cup {NoRow}] /\ Dev(r) \in Devices
  BY StepFrame DEF TypeOK
<1> DEFINE Kept(j) == /\ job' = [job EXCEPT ![r] = j] /\ j \in Job
                      /\ j.tool = job[r].tool /\ j.dev = job[r].dev
                      /\ j.order = job[r].order /\ j.version = job[r].version
<1> SUFFICES \E j : Kept(j)
  OBVIOUS
<1>1. CASE UNCHANGED job
  <2>1. Kept(job[r])
    BY <1>0, <1>1
  <2> QED BY <2>1
<1>2. ASSUME NEW v \in Versions, HandOut(r, v)
      PROVE  \E j : Kept(j)
  <2> DEFINE c == IF client[r] = "open" THEN v ELSE job[r].code
             j == [job[r] EXCEPT !.code = c]
  <2>1. c \in Versions \cup {None}
    BY <1>0 DEF Job
  <2>2. Kept(j)
    BY <1>0, <1>2, <2>1, JobTypes DEF HandOut, Job
  <2> QED BY <2>2
<1>3. CASE Read(r)
  <2>1. row[Dev(r)] # NoRow => row[Dev(r)].version \in Versions
    BY <1>0 DEF Row
  <2> QED BY <1>1, <1>2, <1>3, <2>1 DEF Read, CodeAgain
<1>4. CASE Log(r)
  BY <1>0, <1>1, <1>2, <1>4, JobTypes DEF Log
<1>5. CASE Create(r)
  <2> DEFINE j == [job[r] EXCEPT !.name = r, !.polls = SignPolls]
  <2>1. CASE job' = [job EXCEPT ![r].name = r, ![r].polls = SignPolls]
    <3>1. job' = [job EXCEPT ![r] = j]
      BY <2>1
    <3>2. j \in Job
      BY <1>0, JobTypes
    <3>3. Kept(j)
      BY <1>0, <3>1, <3>2 DEF Job
    <3> QED BY <3>3
  <2> QED BY <1>1, <1>5, <2>1 DEF Create, Taken
<1>6. CASE Poll(r)
  <2>1. ASSUME NEW b \in BOOLEAN, CleanUp(r, b) PROVE \E j : Kept(j)
    <3>1. Kept([job[r] EXCEPT !.signed = b])
      BY <1>0, <2>1, JobTypes DEF CleanUp, Job
    <3> QED BY <3>1
  <2>2. ASSUME job[r].polls > 0, job' = [job EXCEPT ![r].polls = Left(r)]
        PROVE  \E j : Kept(j)
    <3>1. Left(r) \in 0 .. SignPolls
      BY <1>0, <2>2, FactoryAssumption DEF Left, Job
    <3>2. Kept([job[r] EXCEPT !.polls = Left(r)])
      BY <1>0, <2>2, <3>1, JobTypes DEF Job
    <3> QED BY <3>2
  <2> QED BY <1>6, <2>1, <2>2 DEF Poll
<1>7. CASE Cleanup(r)
  <2> DEFINE j == [job[r] EXCEPT !.name = None, !.polls = 0, !.signed = FALSE]
  <2>1. job' = [job EXCEPT ![r].name = None, ![r].polls = 0, ![r].signed = FALSE]
    BY <1>7 DEF Cleanup
  <2>2. job' = [job EXCEPT ![r] = j]
    BY <2>1
  <2>3. j \in Job
    BY <1>0, JobTypes
  <2>4. Kept(j)
    BY <1>0, <2>2, <2>3 DEF Job
  <2> QED BY <2>4
<1> QED
  BY <1>1, <1>3, <1>4, <1>5, <1>6, <1>7 DEF Step, Insert, Check, Save, WriteKey,
     WriteCert

\* A file is written into the directory of a device.
LEMMA DiskTypes ==
    ASSUME NEW f \in [Devices -> Disk], NEW d \in Devices
    PROVE  /\ \A v \in Versions : [f EXCEPT ![d].code = v] \in [Devices -> Disk]
           /\ \A r \in Runs : /\ [f EXCEPT ![d].key = r] \in [Devices -> Disk]
                              /\ [f EXCEPT ![d].cert = r] \in [Devices -> Disk]
BY DEF Disk

\* An answer, and who gets it: types.
LEMMA AnswerTypes ==
    ASSUME TypeOK, NEW r \in Runs, Dev(r) \in Devices
    PROVE  /\ \A label \in Handling \cup Writing \cup {"rest"} : Onward(r, label) =>
                 /\ pc' \in [Runs -> Handling \cup Writing \cup {"rest"}]
                 /\ client' \in [Runs -> {"none", "open", "done", "failed"}]
                 /\ disk' \in [Devices -> Disk]
           /\ Refuse(r) =>
                 /\ pc' \in [Runs -> Handling \cup Writing \cup {"rest"}]
                 /\ client' \in [Runs -> {"none", "open", "done", "failed"}]
                 /\ disk' \in [Devices -> Disk]
           /\ \A v \in Versions : HandOut(r, v) =>
                 /\ pc' \in [Runs -> Handling \cup Writing \cup {"rest"}]
                 /\ client' \in [Runs -> {"none", "open", "done", "failed"}]
                 /\ disk' \in [Devices -> Disk]
<1> DEFINE Labels == Handling \cup Writing \cup {"rest"}
           Ends == {"none", "open", "done", "failed"}
<1>0. /\ pc \in [Runs -> Labels] /\ client \in [Runs -> Ends]
      /\ disk \in [Devices -> Disk]
  BY DEF TypeOK
<1>1. "rest" \in Labels /\ "check" \in Labels
  BY DEF Handling
<1>2. ASSUME NEW label \in Labels, Onward(r, label)
      PROVE  pc' \in [Runs -> Labels] /\ UNCHANGED <<client, disk>>
  BY <1>0, <1>2 DEF Onward, Goto
<1>3. ASSUME Refuse(r)
      PROVE  pc' \in [Runs -> Labels] /\ client' \in [Runs -> Ends] /\ disk' = disk
  BY <1>0, <1>1, <1>3 DEF Refuse, Goto
<1>4. ASSUME NEW v \in Versions, HandOut(r, v)
      PROVE  /\ pc' \in [Runs -> Labels] /\ client' \in [Runs -> Ends]
             /\ disk' \in [Devices -> Disk]
  <2>1. CASE client[r] = "open" /\ job[r].tool
    <3>1. Goto(r, "check") /\ client' = client
          /\ disk' = [disk EXCEPT ![Dev(r)].code = v]
      BY <1>4, <2>1 DEF HandOut
    <3> QED BY <1>0, <1>1, <3>1, DiskTypes DEF Goto
  <2>2. CASE ~(client[r] = "open" /\ job[r].tool)
    <3>1. /\ Goto(r, "rest") /\ disk' = disk
          /\ client' = [client EXCEPT ![r] = IF @ = "open" THEN "done" ELSE @]
      BY <1>4, <2>2 DEF HandOut
    <3> QED BY <1>0, <1>1, <3>1 DEF Goto
  <2> QED BY <2>1, <2>2
<1> QED BY <1>0, <1>2, <1>3, <1>4

\* Every step of a run keeps the types.
LEMMA StepTypes ==
    ASSUME TypeOK, RunsWaitedFor, OwnRequest, NEW r \in Runs, Step(r)
    PROVE  TypeOK'
<1>0. /\ job[r] \in Job /\ Dev(r) \in Devices /\ Dev(r) = job[r].dev
      /\ row \in [Devices -> Row \cup {NoRow}]
      /\ inserting \in [Devices -> Runs \cup {None}]
      /\ registered \in [Devices -> Nat]
      /\ requests \in [Runs -> {"none", "pending", "signed", "denied"}]
      /\ fresh \subseteq Runs /\ spent \subseteq FaultKinds
      /\ pc \in [Runs -> Handling \cup Writing \cup {"rest"}]
      /\ client \in [Runs -> {"none", "open", "done", "failed"}]
      /\ disk \in [Devices -> Disk]
  BY StepFrame DEF TypeOK, Dev
<1>1. job' \in [Runs -> Job \cup {NoJob}]
  BY StepJob DEF TypeOK
<1> SUFFICES /\ row' \in [Devices -> Row \cup {NoRow}]
             /\ inserting' \in [Devices -> Runs \cup {None}]
             /\ registered' \in [Devices -> Nat]
             /\ requests' \in [Runs -> {"none", "pending", "signed", "denied"}]
             /\ fresh' \subseteq Runs
             /\ pc' \in [Runs -> Handling \cup Writing \cup {"rest"}]
             /\ client' \in [Runs -> {"none", "open", "done", "failed"}]
             /\ disk' \in [Devices -> Disk]
             /\ spent' \subseteq FaultKinds
  BY <1>1 DEF TypeOK
<1> DEFINE Labels == Handling \cup Writing \cup {"rest"}
           Answers == /\ pc' \in [Runs -> Labels]
                      /\ client' \in [Runs -> {"none", "open", "done", "failed"}]
                      /\ disk' \in [Devices -> Disk]
<1>2. /\ \A label \in Labels : Onward(r, label) => Answers
      /\ Refuse(r) => Answers
      /\ \A v \in Versions : HandOut(r, v) => Answers
  BY <1>0, AnswerTypes
<1>3. \A kind : Fault(kind) => spent' \subseteq FaultKinds
  BY <1>0, FaultTypes
<1>4. {"insert", "log", "create", "poll", "cleanup", "save", "writeKey", "rest",
       "writeCert"} \subseteq Labels
  BY DEF Handling, Writing
<1> HIDE DEF Labels, Answers
<1> USE DEF database, cluster
<1>5. CASE Read(r)
  <2>1. row[Dev(r)] # NoRow => row[Dev(r)].version \in Versions
    BY <1>0 DEF Row
  <2>2. Answers /\ spent' \subseteq FaultKinds
    BY <1>0, <1>2, <1>3, <1>4, <1>5, <2>1 DEF Read, CodeAgain
  <2> QED BY <1>0, <1>5, <2>2 DEF Read, Answers, Labels
<1>6. CASE Insert(r)
  <2>1. Answers /\ spent' \subseteq FaultKinds
    BY <1>0, <1>2, <1>3, <1>4, <1>6 DEF Insert
  <2> QED BY <1>0, <1>6, <2>1 DEF Insert, Answers, Labels
<1>7. CASE Log(r)
  <2>1. job[r].version \in Versions
    BY <1>0, JobTypes
  <2>2. Answers /\ spent' \subseteq FaultKinds
    BY <1>0, <1>2, <1>3, <1>4, <1>7, <2>1 DEF Log
  <2>3. [order |-> job[r].order, state |-> "PENDING",
         version |-> job[r].version, cert |-> None] \in Row
    BY <1>0 DEF Job, Row
  <2>4. /\ row' \in [Devices -> Row \cup {NoRow}]
        /\ registered' \in [Devices -> Nat]
    BY <1>0, <1>7, <2>3 DEF Log, Committed
  <2> QED BY <1>0, <1>7, <2>2, <2>4 DEF Log, Answers, Labels
<1>8. CASE Check(r)
  <2>1. Answers /\ spent' \subseteq FaultKinds
    BY <1>0, <1>2, <1>3, <1>4, <1>8 DEF Check
  <2> QED BY <1>0, <1>8, <2>1 DEF Check, Answers, Labels
<1>9. CASE Create(r)
  <2>1. Answers /\ spent' \subseteq FaultKinds
    BY <1>0, <1>2, <1>3, <1>4, <1>9 DEF Create, Taken
  <2>2. /\ requests' \in [Runs -> {"none", "pending", "signed", "denied"}]
        /\ fresh' \subseteq Runs
    BY <1>0, <1>9 DEF Create, Created
  <2> QED BY <1>0, <1>9, <2>1, <2>2 DEF Create, Answers, Labels
<1>10. CASE Poll(r)
  <2>1. Answers /\ spent' \subseteq FaultKinds
    BY <1>0, <1>2, <1>3, <1>4, <1>10 DEF Poll, CleanUp
  <2> QED BY <1>0, <1>10, <2>1 DEF Poll, Answers, Labels
<1>11. CASE Cleanup(r)
  <2>1. Answers /\ spent' \subseteq FaultKinds
    BY <1>0, <1>2, <1>3, <1>4, <1>11 DEF Cleanup
  <2>2. requests' \in [Runs -> {"none", "pending", "signed", "denied"}]
    BY <1>0, <1>11 DEF Cleanup
  <2> QED BY <1>0, <1>11, <2>1, <2>2 DEF Cleanup, Answers, Labels
<1>12. CASE Save(r)
  <2>1. Answers /\ spent' \subseteq FaultKinds
    BY <1>0, <1>2, <1>3, <1>4, <1>12 DEF Save
  <2>2. row[Dev(r)] \in Row
    BY <1>0, <1>12 DEF Save, RunsWaitedFor, Signing
  <2>3. row' \in [Devices -> Row \cup {NoRow}]
    BY <1>0, <1>12, <2>2 DEF Save, Record, Row
  <2> QED BY <1>0, <1>12, <2>1, <2>3 DEF Save, Answers, Labels
<1>13. CASE WriteKey(r)
  <2>1. disk' \in [Devices -> Disk] /\ pc' \in [Runs -> Labels]
    BY <1>0, <1>4, <1>13, DiskTypes DEF WriteKey, Goto, Labels
  <2> QED BY <1>0, <1>13, <2>1 DEF WriteKey, Labels
<1>14. CASE WriteCert(r)
  <2>1. disk' \in [Devices -> Disk] /\ pc' \in [Runs -> Labels]
    BY <1>0, <1>4, <1>14, DiskTypes DEF WriteCert, Goto, Labels
  <2> QED BY <1>0, <1>14, <2>1 DEF WriteCert, Labels
<1> QED
  BY <1>5, <1>6, <1>7, <1>8, <1>9, <1>10, <1>11, <1>12, <1>13, <1>14 DEF Step

\* NoRow and NoJob are what they say.
LEMMA Nothing ==
    /\ NoRow \notin Row
    /\ \A f \in Row : f # NoRow /\ f.state # "NONE"
    /\ NoJob.code = None
BY DEF NoRow, Row, NoJob

\* What the safety of the factory rests on in a step of a run: nothing that is
\* settled is taken back.  A client's end is final, a row keeps its order and
\* its version, a fault is not forgotten.
LEMMA StepSettled ==
    ASSUME TypeOK, RunsWaitedFor, OwnRequest, NEW r \in Runs, Step(r)
    PROVE  /\ client'[r] = "open" => client[r] = "open"
           /\ client'[r] # "none"
           /\ client'[r] = "done" => pc'[r] = "rest" /\ pc[r] \in {"read", "log", "writeCert"}
           /\ client[r] = "failed" => client'[r] = "failed"
           /\ pc'[r] # "rest" => client'[r] = client[r]
           /\ spent \subseteq spent'
<1>0. /\ client \in [Runs -> {"none", "open", "done", "failed"}]
      /\ pc \in [Runs -> Handling \cup Writing \cup {"rest"}]
      /\ client[r] \in {"open", "failed"}
  BY StepFrame DEF TypeOK
<1>1. \A kind : Fault(kind) => spent \subseteq spent'
  BY DEF Fault
<1> USE <1>0, <1>1 DEF Onward, Refuse, Goto, database, cluster
<1>2. CASE Read(r)
  BY <1>2 DEF Read, CodeAgain, HandOut
<1>3. CASE Insert(r)
  BY <1>3 DEF Insert
<1>4. CASE Log(r)
  BY <1>4 DEF Log, HandOut
<1>5. CASE Check(r)
  BY <1>5 DEF Check
<1>6. CASE Create(r)
  BY <1>6 DEF Create, Taken
<1>7. CASE Poll(r)
  BY <1>7 DEF Poll, CleanUp
<1>8. CASE Cleanup(r)
  BY <1>8 DEF Cleanup
<1>9. CASE Save(r)
  BY <1>9 DEF Save
<1>10. CASE WriteKey(r)
  BY <1>10 DEF WriteKey
<1>11. CASE WriteCert(r)
  <2>1. client[r] = "open"
    BY <1>11 DEF WriteCert, RunsWaitedFor, Writing
  <2> QED BY <1>11, <2>1 DEF WriteCert
<1> QED
  BY <1>2, <1>3, <1>4, <1>5, <1>6, <1>7, <1>8, <1>9, <1>10, <1>11 DEF Step

\* A row is born in Log and keeps its order and version; only Save touches
\* its fingerprint.
LEMMA StepRow ==
    ASSUME TypeOK, RunsWaitedFor, OwnRequest, InsertAlone, NEW r \in Runs, Step(r)
    PROVE  LET d == Dev(r) IN
           \/ row' = row /\ registered' = registered
           \/ /\ pc[r] = "log" /\ row[d] = NoRow /\ row'[d] # NoRow
              /\ row'[d].order = job[r].order /\ row'[d].version = job[r].version
              /\ row'[d].cert = None
              /\ registered'[d] = registered[d] + 1
           \/ /\ pc[r] = "save" /\ row[d] # NoRow /\ row'[d] # NoRow
              /\ row'[d].order = row[d].order /\ row'[d].version = row[d].version
              /\ row'[d].cert = r /\ registered' = registered
<1>0. /\ Dev(r) \in Devices /\ job[r] \in Job
      /\ row \in [Devices -> Row \cup {NoRow}] /\ registered \in [Devices -> Nat]
  BY StepFrame DEF TypeOK
<1> USE DEF database, cluster
<1>1. CASE Read(r) \/ Insert(r) \/ Check(r) \/ Create(r) \/ Poll(r) \/ Cleanup(r)
           \/ WriteKey(r) \/ WriteCert(r)
  BY <1>1 DEF Read, Insert, Check, Create, Poll, Cleanup, WriteKey, WriteCert
<1>2. CASE Log(r)
  <2>1. pc[r] = "log" /\ row[Dev(r)] = NoRow
    BY <1>2 DEF Log, InsertAlone
  <2>2. CASE UNCHANGED <<row, registered, job>>
    BY <2>2
  <2>3. CASE Committed(r)
    <3>1. row'[Dev(r)] = [order |-> job[r].order, state |-> "PENDING",
                          version |-> job[r].version, cert |-> None]
      BY <1>0, <2>3 DEF Committed
    <3>2. registered'[Dev(r)] = registered[Dev(r)] + 1
      BY <1>0, <2>3 DEF Committed
    <3>3. row'[Dev(r)].state # NoRow.state
      BY <3>1 DEF NoRow
    <3> QED BY <2>1, <3>1, <3>2, <3>3
  <2> QED BY <1>2, <2>2, <2>3 DEF Log
<1>3. CASE Save(r)
  <2>1. pc[r] = "save" /\ row[Dev(r)] \in Row /\ registered' = registered
    BY <1>0, <1>3 DEF Save, RunsWaitedFor, Signing
  <2>2. CASE row' = row
    BY <2>1, <2>2
  <2>3. CASE Record(r)
    <3>1. row'[Dev(r)] = [row[Dev(r)] EXCEPT !.cert = r]
      BY <1>0, <2>3 DEF Record
    <3>2. /\ row'[Dev(r)] \in Row /\ row'[Dev(r)].order = row[Dev(r)].order
          /\ row'[Dev(r)].version = row[Dev(r)].version /\ row'[Dev(r)].cert = r
      BY <2>1, <3>1 DEF Row
    <3> QED BY <2>1, <3>2, Nothing
  <2> QED BY <1>3, <2>2, <2>3 DEF Save
<1> QED
  BY <1>1, <1>2, <1>3 DEF Step

\* Nobody unregisters a device.
LEMMA StepKeepsRows ==
    ASSUME TypeOK, RunsWaitedFor, OwnRequest, InsertAlone, NEW r \in Runs, Step(r),
           NEW d \in Devices, row[d] # NoRow
    PROVE  /\ row'[d] # NoRow
           /\ row'[d].order = row[d].order /\ row'[d].version = row[d].version
BY StepFrame, StepRow

\* Who reaches the signing, and what it needs.
LEMMA StepSigning ==
    ASSUME TypeOK, RunsWaitedFor, OwnRequest, InsertAlone, NEW r \in Runs, Step(r),
           pc'[r] \in Signing
    PROVE  /\ job[r].tool /\ row'[Dev(r)] # NoRow
           /\ pc'[r] \in Writing => client'[r] = "open"
           /\ pc'[r] = "writeKey" => pc[r] = "save" /\ row'[Dev(r)].cert = r
           /\ pc'[r] = "writeCert" => pc[r] = "writeKey" /\ disk'[Dev(r)].key = r
<1>0. /\ Dev(r) \in Devices /\ job[r] \in Job /\ disk \in [Devices -> Disk]
      /\ row \in [Devices -> Row \cup {NoRow}]
      /\ client \in [Runs -> {"none", "open", "done", "failed"}]
      /\ pc \in [Runs -> Handling \cup Writing \cup {"rest"}]
  BY StepFrame DEF TypeOK
<1>1. row[Dev(r)] # NoRow => row'[Dev(r)] # NoRow
  BY <1>0, StepKeepsRows
<1>2. pc[r] \in Signing => job[r].tool /\ row'[Dev(r)] # NoRow
  BY <1>1 DEF RunsWaitedFor
<1>3. "rest" \notin Signing /\ "log" \notin Signing /\ "insert" \notin Signing
  BY DEF Signing, Writing
<1> USE <1>0 DEF Onward, Refuse, Goto
<1>4. CASE Read(r)
  BY <1>1, <1>3, <1>4 DEF Read, CodeAgain, HandOut, Writing
<1>5. CASE Insert(r)
  BY <1>3, <1>5 DEF Insert
<1>6. CASE Log(r)
  <2>1. row'[Dev(r)] # NoRow \/ Refuse(r)
    <3>1. Committed(r) => row'[Dev(r)].state = "PENDING"
      BY DEF Committed
    <3> QED BY <1>6, <3>1 DEF Log, NoRow
  <2> QED BY <1>3, <1>6, <2>1 DEF Log, HandOut, Writing
<1>7. CASE Check(r)
  <2>1. pc[r] = "check" /\ pc'[r] \in {"create", "rest"}
    BY <1>7 DEF Check
  <2> QED BY <1>2, <2>1 DEF Signing, Writing
<1>8. CASE Create(r)
  <2>1. pc[r] = "create" /\ pc'[r] \in {"poll", "rest"}
    BY <1>8 DEF Create, Taken
  <2> QED BY <1>2, <2>1 DEF Signing, Writing
<1>9. CASE Poll(r)
  <2>1. pc[r] = "poll" /\ pc'[r] \in {"poll", "cleanup"}
    BY <1>9 DEF Poll, CleanUp
  <2> QED BY <1>2, <2>1 DEF Signing, Writing
<1>10. CASE Cleanup(r)
  <2>1. pc[r] = "cleanup" /\ pc'[r] \in {"save", "rest"}
    BY <1>10 DEF Cleanup
  <2> QED BY <1>2, <2>1 DEF Signing, Writing
<1>11. CASE Save(r)
  <2>1. pc[r] = "save" /\ pc'[r] \in {"writeKey", "rest"}
    BY <1>11 DEF Save
  <2>2. pc'[r] = "writeKey" => Record(r) /\ client'[r] = "open"
    BY <1>11, <2>1 DEF Save
  <2>3. row[Dev(r)] \in Row
    BY <1>2, <2>1 DEF Signing, RunsWaitedFor
  <2>4. Record(r) => row'[Dev(r)].cert = r
    BY <2>3 DEF Record, Row
  <2> QED BY <1>2, <2>1, <2>2, <2>4 DEF Signing, Writing
<1>12. CASE WriteKey(r)
  <2>1. pc[r] = "writeKey" /\ pc'[r] = "writeCert" /\ client' = client
    BY <1>12 DEF WriteKey
  <2>2. disk'[Dev(r)].key = r
    BY <1>12 DEF WriteKey, Disk
  <2> QED BY <1>2, <2>1, <2>2 DEF Signing, Writing, RunsWaitedFor
<1>13. CASE WriteCert(r)
  BY <1>3, <1>13 DEF WriteCert
<1> QED
  BY <1>4, <1>5, <1>6, <1>7, <1>8, <1>9, <1>10, <1>11, <1>12, <1>13 DEF Step

\* Handlers at work are waited for, and only a tool signs.
LEMMA StepRunsWaitedFor ==
    ASSUME TypeOK, RunsWaitedFor, OwnRequest, InsertAlone, NEW r \in Runs, Step(r)
    PROVE  RunsWaitedFor'
<1> SUFFICES ASSUME NEW q \in Runs
             PROVE  /\ client'[q] # "none" => job'[q] \in Job
                    /\ pc'[q] # "rest" => client'[q] \in {"open", "failed"}
                    /\ pc'[q] \in Signing =>
                          job'[q].tool /\ row'[job'[q].dev] # NoRow
                    /\ pc'[q] \in Writing => client'[q] = "open"
  BY DEF RunsWaitedFor, Dev
<1>1. CASE q # r
  <2>1. pc'[q] = pc[q] /\ client'[q] = client[q] /\ job'[q] = job[q]
    BY <1>1, StepFrame
  <2>2. pc[q] \in Signing => Dev(q) \in Devices
    BY DEF RunsWaitedFor, Signing, Writing, Dev, Job
  <2> QED BY <2>1, <2>2, StepKeepsRows DEF RunsWaitedFor, Dev
<1>2. CASE q = r
  <2>1. job'[r] \in Job /\ job'[r].tool = job[r].tool /\ job'[r].dev = Dev(r)
    BY StepJob DEF TypeOK, Dev
  <2> QED BY <1>2, <2>1, StepFrame, StepSettled, StepSigning DEF Signing
<1> QED BY <1>1, <1>2

\* One tool at a time: only Begin opens a client.
LEMMA StepOneTool ==
    ASSUME TypeOK, RunsWaitedFor, OwnRequest, OneTool, NEW r \in Runs, Step(r)
    PROVE  OneTool'
<1>1. \A q \in Runs : job'[q].tool = job[q].tool
  BY StepFrame, StepJob DEF TypeOK
<1>2. \A q \in Runs : client'[q] = "open" => client[q] = "open"
  BY StepFrame, StepSettled
<1> QED BY <1>1, <1>2 DEF OneTool

\* The primary key keeps a second INSERT out until the first has ended.
LEMMA StepInsertAlone ==
    ASSUME TypeOK, RunsWaitedFor, OwnRequest, InsertAlone, NEW r \in Runs, Step(r)
    PROVE  InsertAlone'
<1> SUFFICES ASSUME NEW q \in Runs, pc'[q] = "log"
             PROVE  inserting'[job'[q].dev] = q /\ row'[job'[q].dev] = NoRow
  BY DEF InsertAlone, Dev
<1>0. /\ Dev(r) \in Devices /\ inserting \in [Devices -> Runs \cup {None}]
      /\ pc \in [Runs -> Handling \cup Writing \cup {"rest"}]
      /\ job'[q].dev = Dev(q)
  BY StepFrame, StepJob DEF TypeOK, Dev
<1>1. CASE q = r
  <2>1. Insert(r)
    <3> USE <1>0 DEF Onward, Refuse, Goto
    <3>1. "log" \notin Writing \cup {"rest"}
      BY DEF Writing
    <3> QED
      BY <1>1, <3>1 DEF Step, Read, Log, Check, Create, Poll, Cleanup, Save, WriteKey,
         WriteCert, CodeAgain, HandOut, Taken, CleanUp
  <2> QED BY <1>0, <1>1, <2>1 DEF Insert, Onward, Refuse, Goto
<1>2. CASE q # r
  <2>1. pc[q] = "log" /\ inserting[Dev(q)] = q /\ row[Dev(q)] = NoRow
    BY <1>2, StepFrame DEF InsertAlone
  <2>2. Dev(q) \in Devices
    BY <2>1 DEF RunsWaitedFor, Dev, Job
  <2>3. CASE Dev(q) # Dev(r)
    BY <1>0, <2>1, <2>2, <2>3, StepFrame
  <2>4. CASE Dev(q) = Dev(r)
    <3>1. pc[r] # "log"
      BY <1>2, <2>1, <2>4 DEF InsertAlone
    <3>2. pc[r] # "save"
      BY <2>1, <2>4 DEF RunsWaitedFor, Signing
    <3>3. row' = row
      BY <3>1, <3>2, StepRow
    <3>4. ~Insert(r)
      BY <1>0, <2>1, <2>4, FactoryAssumption DEF Insert, Unique
    <3>5. inserting' = inserting
      BY <3>1, <3>4 DEF Step, Read, Log, Check, Create, Poll, Cleanup, Save, WriteKey,
         WriteCert, database
    <3> QED BY <1>0, <2>1, <3>3, <3>5
  <2> QED BY <2>3, <2>4
<1> QED BY <1>1, <1>2

\* A code that is handed out is that of the row, which will not change.
LEMMA StepCodeStands ==
    ASSUME TypeOK, RunsWaitedFor, OwnRequest, InsertAlone, CodeStands,
           NEW r \in Runs, Step(r)
    PROVE  CodeStands'
<1> SUFFICES ASSUME NEW q \in Runs, job'[q].code # None
             PROVE  LET found == row'[job'[q].dev] IN
                    /\ found # NoRow
                    /\ job'[q].code = found.version
                    /\ job'[q].order = found.order
  BY DEF CodeStands, Dev
<1>0. /\ Dev(r) \in Devices /\ job \in [Runs -> Job \cup {NoJob}] /\ job[r] \in Job
      /\ row \in [Devices -> Row \cup {NoRow}]
      /\ job'[q].dev = Dev(q) /\ job'[q].order = job[q].order
  BY StepFrame, StepJob DEF TypeOK, Dev
<1>1. CASE job'[q].code = job[q].code
  <2>1. Dev(q) \in Devices
    BY <1>0, <1>1, Nothing DEF Dev, Job
  <2> QED BY <1>0, <1>1, <2>1, StepKeepsRows DEF CodeStands
<1>2. CASE job'[q].code # job[q].code
  <2>1. q = r
    BY <1>2, StepFrame
  <2>2. ASSUME NEW v, HandOut(r, v) PROVE job'[r].code = v
    BY <1>0, <1>2, <2>1, <2>2 DEF HandOut, Job
  <2>3. CASE Read(r)
    <3>1. HandOut(r, row[Dev(r)].version) /\ row[Dev(r)] # NoRow
          /\ row[Dev(r)].order = job[r].order /\ row' = row
      BY <1>2, <2>1, <2>3 DEF Read, CodeAgain, database
    <3> QED BY <1>0, <2>1, <2>2, <3>1
  <2>4. CASE Log(r)
    <3>1. HandOut(r, job[r].version) /\ Committed(r)
      BY <1>2, <2>1, <2>4 DEF Log
    <3>2. row'[Dev(r)] = [order |-> job[r].order, state |-> "PENDING",
                          version |-> job[r].version, cert |-> None]
      BY <1>0, <3>1 DEF Committed
    <3> QED BY <1>0, <2>1, <2>2, <3>1, <3>2 DEF NoRow
  <2>5. CASE Create(r)
    BY <1>0, <1>2, <2>1, <2>5 DEF Create, Taken, Job
  <2>6. CASE Poll(r)
    BY <1>0, <1>2, <2>1, <2>6 DEF Poll, CleanUp, Job
  <2>7. CASE Cleanup(r)
    BY <1>0, <1>2, <2>1, <2>7 DEF Cleanup, Job
  <2> QED
    BY <1>2, <2>1, <2>3, <2>4, <2>5, <2>6, <2>7 DEF Step, Insert, Check, Save,
       WriteKey, WriteCert
<1> QED BY <1>1, <1>2

\* A row comes with its event, and no second one.
LEMMA StepRegisteredOnce ==
    ASSUME TypeOK, RunsWaitedFor, OwnRequest, InsertAlone, RegisteredOnce,
           NEW r \in Runs, Step(r)
    PROVE  RegisteredOnce'
<1> SUFFICES ASSUME NEW d \in Devices
             PROVE  registered'[d] = IF row'[d] = NoRow THEN 0 ELSE 1
  BY DEF RegisteredOnce
<1>1. CASE d # Dev(r)
  BY <1>1, StepFrame DEF RegisteredOnce
<1>2. CASE d = Dev(r)
  BY <1>2, StepRow DEF RegisteredOnce
<1> QED BY <1>1, <1>2

\* The request of a signing is its own, and nobody else deletes it.
LEMMA StepOwnRequest ==
    ASSUME TypeOK, RunsWaitedFor, OwnRequest, NEW r \in Runs, Step(r)
    PROVE  OwnRequest'
<1> SUFFICES ASSUME NEW q \in Runs, pc'[q] \in {"poll", "cleanup"}
             PROVE  job'[q].name = q /\ requests'[q] # "none"
  BY DEF OwnRequest
<1>0. /\ pc \in [Runs -> Handling \cup Writing \cup {"rest"}]
      /\ job \in [Runs -> Job \cup {NoJob}] /\ job[r] \in Job
      /\ requests \in [Runs -> {"none", "pending", "signed", "denied"}]
  BY StepFrame DEF TypeOK
<1>1. CASE q # r
  BY <1>1, StepFrame DEF OwnRequest
<1>2. CASE q = r
  <2> USE <1>0 DEF Onward, Refuse, Goto
  <2>1. Create(r) \/ Poll(r)
    BY <1>2 DEF Step, Read, CodeAgain, HandOut, Insert, Log, Check, Cleanup, Save,
       WriteKey, WriteCert
  <2>2. CASE Create(r)
    <3>1. /\ requests' = [requests EXCEPT ![r] = "pending"]
          /\ job' = [job EXCEPT ![r].name = r, ![r].polls = SignPolls]
      BY <1>2, <2>2 DEF Create, Taken, Created
    <3>2. job'[r].name = r
      BY <3>1 DEF Job
    <3> QED BY <1>2, <3>1, <3>2
  <2>3. CASE Poll(r)
    <3>1. requests' = requests /\ pc[r] = "poll"
      BY <2>3 DEF Poll, cluster
    <3>2. job'[r].name = job[r].name
      BY <2>3 DEF Poll, CleanUp, Job
    <3> QED BY <1>2, <3>1, <3>2 DEF OwnRequest
  <2> QED BY <2>1, <2>2, <2>3
<1> QED BY <1>1, <1>2

\* A request outlives its signing only by a failure.
LEMMA StepRequestsLeft ==
    ASSUME TypeOK, RunsWaitedFor, OwnRequest, RequestsLeft, NEW r \in Runs, Step(r)
    PROVE  RequestsLeft'
<1> SUFFICES ASSUME NEW q \in Runs, requests'[q] # "none",
                    pc'[q] \notin {"poll", "cleanup"}
             PROVE  spent' \cap {"api", "network", "crash"} # {}
  BY DEF RequestsLeft
<1>0. /\ pc \in [Runs -> Handling \cup Writing \cup {"rest"}]
      /\ requests \in [Runs -> {"none", "pending", "signed", "denied"}]
      /\ spent \subseteq spent'
  BY StepSettled DEF TypeOK
<1>1. CASE requests[q] # "none" /\ pc[q] \notin {"poll", "cleanup"}
  BY <1>0, <1>1 DEF RequestsLeft
<1>2. CASE requests[q] = "none"
  <2>1. q = r
    BY <1>2, StepFrame
  <2>2. Create(r)
    BY <1>0, <1>2, <2>1 DEF Step, Read, Insert, Log, Check, Poll, Cleanup, Save,
       WriteKey, WriteCert, cluster
  <2>3. Created(r) /\ pc'[r] # "poll"
    BY <1>2, <2>1, <2>2 DEF Create, cluster
  <2>4. Fault("network")
    BY <1>0, <2>1, <1>2, <2>2, <2>3 DEF Create, Taken, Onward, Goto, cluster
  <2> QED BY <2>4 DEF Fault
<1>3. CASE pc[q] \in {"poll", "cleanup"}
  <2>1. q = r
    BY <1>3, StepFrame
  <2>2. pc[r] # "poll"
    BY <1>0, <2>1 DEF Step, Read, Insert, Log, Check, Create, Poll, CleanUp, Cleanup,
       Save, WriteKey, WriteCert, Onward, Goto
  <2>3. Cleanup(r)
    BY <1>3, <2>1, <2>2 DEF Step, Read, Insert, Log, Check, Create, Poll, Save,
       WriteKey, WriteCert
  <2>4. job[r].name = r
    BY <1>3, <2>1 DEF OwnRequest
  <2>5. Fault("api") \/ Fault("network")
    BY <1>0, <2>1, <2>3, <2>4 DEF Cleanup
  <2> QED BY <2>5 DEF Fault
<1> QED BY <1>1, <1>2, <1>3

\* Key and certificate are written by the last two steps of the tool only.
LEMMA StepDisk ==
    ASSUME TypeOK, RunsWaitedFor, OwnRequest, NEW r \in Runs, Step(r)
    PROVE  LET old == disk[Dev(r)]
               new == disk'[Dev(r)] IN
           \/ new.key = old.key /\ new.cert = old.cert /\ pc[r] \notin Writing
           \/ /\ new.key = r /\ new.cert = old.cert
              /\ pc[r] = "writeKey" /\ pc'[r] = "writeCert"
              /\ row' = row /\ client' = client
           \/ /\ new.key = old.key /\ new.cert = r
              /\ pc[r] = "writeCert" /\ pc'[r] = "rest"
              /\ row' = row /\ client'[r] = "done"
<1>0. /\ Dev(r) \in Devices /\ disk \in [Devices -> Disk]
      /\ pc \in [Runs -> Handling \cup Writing \cup {"rest"}]
      /\ client \in [Runs -> {"none", "open", "done", "failed"}]
  BY StepFrame DEF TypeOK
<1>1. CASE WriteKey(r)
  BY <1>0, <1>1 DEF WriteKey, Goto, Disk, database
<1>2. CASE WriteCert(r)
  BY <1>0, <1>2 DEF WriteCert, Goto, Disk, database
<1>3. CASE ~WriteKey(r) /\ ~WriteCert(r)
  <2>1. pc[r] \notin Writing
    BY <1>3 DEF Step, Read, Insert, Log, Check, Create, Poll, Cleanup, Save, Writing
  <2>2. ASSUME NEW v, HandOut(r, v)
        PROVE  /\ disk'[Dev(r)].key = disk[Dev(r)].key
               /\ disk'[Dev(r)].cert = disk[Dev(r)].cert
    BY <1>0, <2>2 DEF HandOut, Disk
  <2> QED
    BY <1>3, <2>1, <2>2 DEF Step, Read, CodeAgain, Insert, Log, Check, Create, Taken,
       Poll, CleanUp, Cleanup, Save, Onward, Refuse
<1> QED BY <1>1, <1>2, <1>3

\* The fingerprint of a row is that of a run on the same device, which wrote it
\* down last or has lost its client.
LEMMA StepCertOfDevice ==
    ASSUME TypeOK, RunsWaitedFor, OwnRequest, InsertAlone, OneTool, CertOfDevice,
           NEW r \in Runs, Step(r)
    PROVE  CertOfDevice'
<1>0. /\ Dev(r) \in Devices /\ row \in [Devices -> Row \cup {NoRow}]
      /\ disk \in [Devices -> Disk]
      /\ \A q \in Runs : job'[q].dev = Dev(q)
      /\ \A q \in Runs : client[q] # "none" => client'[q] # "none"
      /\ \A q \in Runs : client[q] = "failed" => client'[q] = "failed"
  BY StepFrame, StepSettled, StepJob DEF TypeOK, Dev
<1>1. ASSUME NEW d \in Devices, row'[d] = NoRow \/ disk'[d].key = None
      PROVE  disk'[d].cert = None
  <2>1. CASE d # Dev(r)
    BY <1>1, <2>1, StepFrame DEF CertOfDevice
  <2>2. CASE d = Dev(r)
    <3>1. row'[d] = NoRow => row[d] = NoRow
      BY StepKeepsRows
    <3>2. pc[r] # "writeCert"
      <4>1. pc[r] = "writeCert" => row[d] # NoRow /\ disk[d].key = r
        BY <2>2 DEF RunsWaitedFor, Signing, Writing, CertOfDevice
      <4> QED BY <1>1, <2>2, <3>1, <4>1, StepDisk, FactoryAssumption
    <3> QED
      BY <1>1, <2>2, <3>1, <3>2, StepDisk, FactoryAssumption DEF CertOfDevice
  <2> QED BY <2>1, <2>2
<1>2. ASSUME NEW d \in Devices, row'[d] # NoRow, row'[d].cert # None
      PROVE  LET c == row'[d].cert IN
             /\ job'[c].dev = d /\ client'[c] # "none"
             /\ pc'[c] \in Writing \cup {"rest"}
  <2> DEFINE c == row'[d].cert
  <2>1. CASE row'[d] = row[d]
    <3>1. /\ c \in Runs /\ Dev(c) = d /\ client[c] # "none"
          /\ pc[c] \in Writing \cup {"rest"}
      BY <1>0, <1>2, <2>1 DEF CertOfDevice, Row
    <3>2. pc'[c] \in Writing \cup {"rest"}
      BY <3>1, StepFrame, StepDisk DEF Writing
    <3> QED BY <1>0, <3>1, <3>2
  <2>2. CASE row'[d] # row[d]
    <3>1. d = Dev(r) /\ c = r /\ pc[r] = "save"
      BY <1>2, <2>2, StepFrame, StepRow
    <3>2. pc'[r] \in Writing \cup {"rest"}
      <4>1. Save(r)
        BY <3>1 DEF Step, Read, Insert, Log, Check, Create, Poll, Cleanup, WriteKey,
           WriteCert
      <4> QED BY <4>1 DEF Save, Onward, Refuse, Goto, Writing, TypeOK
    <3> QED BY <1>0, <3>1, <3>2, StepSettled
  <2> QED BY <2>1, <2>2
<1>3. ASSUME NEW q \in Runs, pc'[q] \in Writing
      PROVE  LET c == row'[job'[q].dev].cert IN
             /\ c # None
             /\ c = q \/ client'[c] = "failed"
  <2> DEFINE c == row'[Dev(q)].cert
  <2> SUFFICES c # None /\ (c = q \/ client'[c] = "failed")
    BY <1>0
  <2>1. CASE pc[q] \in Writing
    <3>1. /\ Dev(q) \in Devices /\ row[Dev(q)] \in Row
          /\ row[Dev(q)].cert # None
          /\ row[Dev(q)].cert = q \/ client[row[Dev(q)].cert] = "failed"
      BY <1>0, <2>1 DEF RunsWaitedFor, Signing, Writing, CertOfDevice, Dev, Job
    <3>2. CASE row'[Dev(q)] = row[Dev(q)]
      BY <1>0, <3>1, <3>2 DEF Row
    <3>3. CASE row'[Dev(q)] # row[Dev(q)]
      <4>1. Dev(q) = Dev(r) /\ c = r /\ pc[r] = "save"
        BY <3>1, <3>3, StepFrame, StepRow, Nothing
      <4>2. q # r
        BY <2>1, <4>1 DEF Writing
      <4>3. job[q].tool /\ client[q] = "open" /\ job[r].tool
        BY <2>1, <4>1 DEF RunsWaitedFor, Signing
      <4>4. client[r] = "failed"
        BY <4>1, <4>2, <4>3, StepFrame DEF OneTool
      <4> QED BY <1>0, <4>1, <4>4, FactoryAssumption
    <3> QED BY <3>2, <3>3
  <2>2. CASE pc[q] \notin Writing
    <3>1. q = r
      BY <1>3, <2>2, StepFrame
    <3>2. pc'[r] # "writeCert" /\ pc'[r] \in Signing
      BY <1>3, <2>2, <3>1, StepSigning DEF Writing, Signing
    <3> QED BY <1>3, <3>1, <3>2, StepSigning, FactoryAssumption DEF Writing
  <2> QED BY <2>1, <2>2
<1>4. ASSUME NEW q \in Runs, pc'[q] = "writeCert"
      PROVE  disk'[job'[q].dev].key = q
  <2>1. CASE q = r
    BY <1>0, <1>4, <2>1, StepSigning DEF Signing, Writing
  <2>2. CASE q # r
    <3>1. pc[q] = "writeCert" /\ disk[Dev(q)].key = q /\ Dev(q) \in Devices
      BY <1>4, <2>2, StepFrame DEF CertOfDevice, RunsWaitedFor, Dev, Job
    <3>2. pc[r] # "writeKey"
      BY <2>2, <3>1 DEF RunsWaitedFor, Signing, Writing, OneTool
    <3> QED BY <1>0, <3>1, <3>2, StepFrame, StepDisk
  <2> QED BY <2>1, <2>2
<1>5. ASSUME NEW d \in Devices, disk'[d].key # None
      PROVE  job'[disk'[d].key].dev = d /\ client'[disk'[d].key] # "none"
  <2>1. CASE disk'[d].key = disk[d].key
    BY <1>0, <1>5, <2>1 DEF CertOfDevice, Disk
  <2>2. CASE disk'[d].key # disk[d].key
    BY <1>0, <2>2, StepFrame, StepDisk, StepSettled
  <2> QED BY <2>1, <2>2
<1> QED BY <1>1, <1>2, <1>3, <1>4, <1>5 DEF CertOfDevice, Dev

\* Key and certificate are of one run, or the tool is between the two files.
LEMMA StepBundleMatches ==
    ASSUME TypeOK, RunsWaitedFor, OwnRequest, CertOfDevice, BundleMatches,
           NEW r \in Runs, Step(r)
    PROVE  BundleMatches'
<1> SUFFICES ASSUME NEW d \in Devices
             PROVE  \/ disk'[d].key = disk'[d].cert
                    \/ pc'[disk'[d].key] = "writeCert"
                    \/ "client" \in spent' /\ client'[disk'[d].key] = "failed"
  BY DEF BundleMatches
<1>0. disk \in [Devices -> Disk]
  BY DEF TypeOK
<1>1. CASE d = Dev(r) /\ pc[r] \in Writing
  BY <1>1, StepDisk DEF CertOfDevice, Writing
<1>2. CASE ~(d = Dev(r) /\ pc[r] \in Writing)
  <2>1. disk'[d].key = disk[d].key /\ disk'[d].cert = disk[d].cert
    BY <1>2, StepFrame, StepDisk DEF Writing
  <2>2. CASE disk[d].key = disk[d].cert
    BY <2>1, <2>2
  <2>3. CASE disk[d].key # disk[d].cert
    <3>1. disk[d].key \in Runs /\ Dev(disk[d].key) = d
      BY <1>0, <2>3 DEF CertOfDevice, Disk
    <3>2. pc[disk[d].key] = "writeCert" => disk[d].key # r
      BY <1>2, <3>1 DEF Writing
    <3>3. CASE "client" \in spent /\ client[disk[d].key] = "failed"
      BY <2>1, <3>1, <3>3, StepFrame, StepSettled
    <3>4. CASE pc[disk[d].key] = "writeCert"
      BY <2>1, <3>1, <3>2, <3>4, StepFrame
    <3> QED BY <2>3, <3>3, <3>4 DEF BundleMatches
  <2> QED BY <2>2, <2>3
<1> QED BY <1>1, <1>2

\* The registry knows the certificate on the disk, or that of a lost client.
LEMMA StepFingerprintKnown ==
    ASSUME TypeOK, RunsWaitedFor, OwnRequest, InsertAlone, CertOfDevice,
           FingerprintKnown, NEW r \in Runs, Step(r)
    PROVE  FingerprintKnown'
<1> SUFFICES ASSUME NEW d \in Devices, row'[d] # NoRow
             PROVE  \/ row'[d].cert = disk'[d].cert
                    \/ row'[d].cert # None /\ client'[row'[d].cert] # "done"
  BY DEF FingerprintKnown
<1>0. row \in [Devices -> Row \cup {NoRow}] /\ disk \in [Devices -> Disk]
  BY DEF TypeOK
<1>1. CASE d # Dev(r)
  <2>1. row'[d] = row[d] /\ disk'[d] = disk[d] /\ row[d] \in Row
    BY <1>0, <1>1, StepFrame
  <2>2. CASE row[d].cert # None /\ client[row[d].cert] # "done"
    <3>1. row[d].cert \in Runs /\ Dev(row[d].cert) = d
      BY <2>1, <2>2, Nothing DEF CertOfDevice, Row
    <3> QED BY <1>1, <2>1, <2>2, <3>1, StepFrame
  <2> QED BY <2>1, <2>2, Nothing DEF FingerprintKnown
<1>2. CASE d = Dev(r)
  <2>1. CASE pc[r] = "writeCert"
    <3>1. disk'[d].cert = r /\ row' = row
      BY <1>2, <2>1, StepDisk DEF Writing
    <3>2. /\ row[d] \in Row /\ row[d].cert # None
          /\ row[d].cert = r \/ client[row[d].cert] = "failed"
      BY <1>0, <1>2, <2>1, <3>1 DEF CertOfDevice, Writing
    <3>3. CASE client[row[d].cert] = "failed"
      BY <3>1, <3>2, <3>3, StepFrame, StepSettled DEF Row
    <3> QED BY <3>1, <3>2, <3>3
  <2>2. CASE pc[r] # "writeCert"
    <3>1. disk'[d].cert = disk[d].cert
      BY <1>2, <2>2, StepDisk
    <3>2. CASE row'[d].cert = r /\ pc[r] = "save"
      BY <3>2, StepSettled, FactoryAssumption
    <3>3. CASE row[d] = NoRow
      BY <1>2, <3>1, <3>3, StepRow DEF CertOfDevice
    <3>4. CASE row[d] # NoRow /\ row'[d] = row[d]
      <4>1. CASE row[d].cert # None /\ client[row[d].cert] # "done"
        <5>1. row[d].cert \in Runs /\ pc[row[d].cert] \in Writing \cup {"rest"}
          BY <1>0, <3>4, <4>1 DEF CertOfDevice, Row
        <5>2. row[d].cert = r => client'[r] # "done"
          BY <2>2, <5>1, StepSettled DEF Writing
        <5> QED BY <3>4, <4>1, <5>1, <5>2, StepFrame
      <4> QED BY <3>1, <3>4, <4>1 DEF FingerprintKnown
    <3> QED BY <1>2, <3>2, <3>3, <3>4, StepRow
  <2> QED BY <2>1, <2>2
<1> QED BY <1>1, <1>2

\* A step of a handler or of the tool keeps the invariant.
LEMMA StepInv ==
    ASSUME FactoryInv, NEW r \in Runs, Step(r)
    PROVE  FactoryInv'
<1> USE DEF FactoryInv
<1>1. TypeOK' /\ RunsWaitedFor' /\ OneTool' /\ InsertAlone'
  BY StepTypes, StepRunsWaitedFor, StepOneTool, StepInsertAlone
<1>2. CodeStands' /\ RegisteredOnce' /\ OwnRequest' /\ RequestsLeft'
  BY StepCodeStands, StepRegisteredOnce, StepOwnRequest, StepRequestsLeft
<1>3. CertOfDevice' /\ BundleMatches' /\ FingerprintKnown'
  BY StepCertOfDevice, StepBundleMatches, StepFingerprintKnown
<1> QED BY <1>1, <1>2, <1>3

-----------------------------------------------------------------------------
\* Nothing has happened yet.
LEMMA InitInv == Init => FactoryInv
<1> SUFFICES ASSUME Init PROVE FactoryInv
  OBVIOUS
<1>1. TypeOK
  BY DEF Init, TypeOK, Disk
<1>2. /\ \A r \in Runs : /\ pc[r] = "rest" /\ client[r] = "none"
                         /\ requests[r] = "none" /\ job[r].code = None
      /\ \A d \in Devices : /\ row[d] = NoRow /\ registered[d] = 0
                            /\ disk[d].key = None /\ disk[d].cert = None
  BY Nothing DEF Init
<1> QED
  BY <1>1, <1>2 DEF FactoryInv, RunsWaitedFor, OneTool, InsertAlone, CodeStands,
     RegisteredOnce, OwnRequest, RequestsLeft, CertOfDevice, BundleMatches,
     FingerprintKnown, Signing, Writing

\* A new use of the factory: its run has done nothing yet, and if it is the
\* tool, no other run of the tool is at work.
LEMMA BeginInv ==
    ASSUME FactoryInv, NEW r \in Runs, NEW tool \in BOOLEAN, NEW d \in Devices,
           NEW order \in Orders, NEW version \in Versions,
           Begin(r, tool, d, order, version)
    PROVE  FactoryInv'
<1> DEFINE j == [tool |-> tool, dev |-> d, order |-> order, version |-> version,
                 code |-> None, name |-> None, polls |-> 0, signed |-> FALSE]
<1>0. /\ job \in [Runs -> Job \cup {NoJob}] /\ disk \in [Devices -> Disk]
      /\ row \in [Devices -> Row \cup {NoRow}]
      /\ pc \in [Runs -> Handling \cup Writing \cup {"rest"}]
      /\ client \in [Runs -> {"none", "open", "done", "failed"}]
  BY DEF FactoryInv, TypeOK
<1>1. /\ client[r] = "none" /\ pc[r] = "rest"
      /\ tool => \A q \in Runs : job[q].tool => client[q] # "open"
  BY DEF Begin, FactoryInv, RunsWaitedFor
<1>2. /\ row' = row /\ inserting' = inserting /\ registered' = registered
      /\ requests' = requests /\ fresh' = fresh /\ disk' = disk /\ spent' = spent
  BY DEF Begin, database, cluster
<1>3. /\ client' = [client EXCEPT ![r] = "open"] /\ pc' = [pc EXCEPT ![r] = "read"]
      /\ job' = [job EXCEPT ![r] = j]
  BY DEF Begin, Goto
<1>4. /\ client'[r] = "open" /\ pc'[r] = "read" /\ job'[r] = j
      /\ \A q \in Runs \ {r} :
            client'[q] = client[q] /\ pc'[q] = pc[q] /\ job'[q] = job[q]
  BY <1>0, <1>3
<1>5. j \in Job
  BY FactoryAssumption DEF Job
<1>6. TypeOK'
  <2>1. /\ job' \in [Runs -> Job \cup {NoJob}]
        /\ client' \in [Runs -> {"none", "open", "done", "failed"}]
        /\ pc' \in [Runs -> Handling \cup Writing \cup {"rest"}]
    BY <1>0, <1>3, <1>5 DEF Handling
  <2> QED BY <1>2, <2>1 DEF FactoryInv, TypeOK
<1>7. RunsWaitedFor'
  BY <1>2, <1>4, <1>5 DEF FactoryInv, RunsWaitedFor, Dev, Signing, Writing
<1>8. OneTool'
  BY <1>1, <1>4 DEF FactoryInv, OneTool
<1>9. InsertAlone' /\ OwnRequest' /\ RegisteredOnce'
  BY <1>2, <1>4 DEF FactoryInv, InsertAlone, OwnRequest, RegisteredOnce, Dev
<1>10. CodeStands'
  BY <1>2, <1>4 DEF FactoryInv, CodeStands, Dev
<1>11. RequestsLeft'
  BY <1>1, <1>2, <1>4 DEF FactoryInv, RequestsLeft
<1>12. CertOfDevice'
  <2>1. \A e \in Devices :
           /\ disk[e].key # None => disk[e].key \in Runs \ {r}
           /\ row[e] # NoRow /\ row[e].cert # None => row[e].cert \in Runs \ {r}
    BY <1>0, <1>1 DEF FactoryInv, CertOfDevice, Disk, Row
  <2>2. \A q \in Runs : pc'[q] \in Writing =>
           /\ q # r /\ Dev(q) \in Devices /\ row[Dev(q)] # NoRow
    BY <1>4 DEF FactoryInv, RunsWaitedFor, Signing, Writing, Dev, Job
  <2> QED BY <1>2, <1>4, <2>1, <2>2 DEF FactoryInv, CertOfDevice, Dev, Writing
<1>13. BundleMatches'
  <2>1. \A e \in Devices : disk[e].key # disk[e].cert => disk[e].key \in Runs \ {r}
    BY <1>0, <1>1 DEF FactoryInv, CertOfDevice, Disk
  <2> QED BY <1>2, <1>4, <2>1 DEF FactoryInv, BundleMatches
<1>14. FingerprintKnown'
  <2>1. \A e \in Devices : row[e] # NoRow /\ row[e].cert # None => row[e].cert \in Runs
    BY <1>0 DEF Row
  <2> QED BY <1>2, <1>4, <2>1 DEF FactoryInv, FingerprintKnown
<1> QED
  BY <1>6, <1>7, <1>8, <1>9, <1>10, <1>11, <1>12, <1>13, <1>14 DEF FactoryInv

\* The client goes away.  The directory is left between key and certificate
\* at worst, and that is the failure BundleMatches names.
LEMMA GiveUpInv ==
    ASSUME FactoryInv, NEW r \in Runs, GiveUp(r)
    PROVE  FactoryInv'
<1>0. /\ job \in [Runs -> Job \cup {NoJob}] /\ disk \in [Devices -> Disk]
      /\ row \in [Devices -> Row \cup {NoRow}]
      /\ pc \in [Runs -> Handling \cup Writing \cup {"rest"}]
      /\ client \in [Runs -> {"none", "open", "done", "failed"}]
  BY DEF FactoryInv, TypeOK
<1>1. /\ row' = row /\ inserting' = inserting /\ registered' = registered
      /\ requests' = requests /\ fresh' = fresh /\ disk' = disk /\ job' = job
      /\ client[r] = "open" /\ client' = [client EXCEPT ![r] = "failed"]
      /\ pc' = [pc EXCEPT ![r] = IF pc[r] \in Writing THEN "rest" ELSE pc[r]]
  BY DEF GiveUp, Goto, database, cluster
<1>2. spent' = spent \cup {"client"} /\ spent' \subseteq FaultKinds
  BY FaultTypes DEF GiveUp, FactoryInv, TypeOK
<1>3. /\ client'[r] = "failed"
      /\ pc'[r] = IF pc[r] \in Writing THEN "rest" ELSE pc[r]
      /\ \A q \in Runs \ {r} : client'[q] = client[q] /\ pc'[q] = pc[q]
  BY <1>0, <1>1
<1>4. /\ "rest" \notin Signing /\ Writing \subseteq Signing
      /\ Writing = {"writeKey", "writeCert"}
  BY DEF Signing, Writing
<1>5. TypeOK'
  <2>1. /\ client' \in [Runs -> {"none", "open", "done", "failed"}]
        /\ pc' \in [Runs -> Handling \cup Writing \cup {"rest"}]
    BY <1>0, <1>1
  <2> QED BY <1>1, <1>2, <2>1 DEF FactoryInv, TypeOK
<1>6. RunsWaitedFor'
  BY <1>1, <1>3, <1>4 DEF FactoryInv, RunsWaitedFor, Dev
<1>7. OneTool'
  BY <1>1, <1>3 DEF FactoryInv, OneTool
<1>8. InsertAlone' /\ OwnRequest' /\ RegisteredOnce' /\ CodeStands'
  BY <1>1, <1>3 DEF FactoryInv, InsertAlone, OwnRequest, RegisteredOnce, CodeStands,
     Dev
<1>9. RequestsLeft'
  BY <1>1, <1>2, <1>3, <1>4 DEF FactoryInv, RequestsLeft
<1>10. CertOfDevice'
  <2>1. \A e \in Devices :
           /\ disk[e].key # None => disk[e].key \in Runs
           /\ row[e] # NoRow /\ row[e].cert # None => row[e].cert \in Runs
    BY <1>0 DEF Disk, Row
  <2>2. \A q \in Runs : pc'[q] \in Writing =>
           pc[q] = pc'[q] /\ Dev(q) \in Devices /\ row[Dev(q)] # NoRow
    BY <1>3, <1>4 DEF FactoryInv, RunsWaitedFor, Dev, Job
  <2>3. \A q \in Runs : client'[q] = client[q] \/ client'[q] = "failed"
    BY <1>3
  <2>4. \A q \in Runs :
           pc[q] \in Writing \cup {"rest"} => pc'[q] \in Writing \cup {"rest"}
    BY <1>3
  <2>5. \A q \in Runs : pc'[q] \in Writing =>
           row[Dev(q)].cert # None /\ row[Dev(q)].cert \in Runs
    BY <1>0, <2>1, <2>2 DEF FactoryInv, CertOfDevice
  <2> QED
    BY <1>1, <1>4, <2>1, <2>2, <2>3, <2>4, <2>5 DEF FactoryInv, CertOfDevice, Dev
<1>11. BundleMatches'
  <2>1. \A e \in Devices : disk[e].key # disk[e].cert => disk[e].key \in Runs
    BY <1>0 DEF FactoryInv, CertOfDevice, Disk
  <2> QED BY <1>1, <1>2, <1>3, <1>4, <2>1 DEF FactoryInv, BundleMatches
<1>12. FingerprintKnown'
  <2>1. \A e \in Devices : row[e] # NoRow /\ row[e].cert # None => row[e].cert \in Runs
    BY <1>0 DEF Row
  <2> QED BY <1>1, <1>3, <2>1 DEF FactoryInv, FingerprintKnown
<1> QED
  BY <1>5, <1>6, <1>7, <1>8, <1>9, <1>10, <1>11, <1>12 DEF FactoryInv

\* The backend dies.  Whoever was served is gone, and a request left behind is
\* put down to it.
LEMMA CrashInv ==
    ASSUME FactoryInv, Crash
    PROVE  FactoryInv'
<1>0. /\ disk \in [Devices -> Disk] /\ row \in [Devices -> Row \cup {NoRow}]
      /\ pc \in [Runs -> Handling \cup Writing \cup {"rest"}]
      /\ client \in [Runs -> {"none", "open", "done", "failed"}]
  BY DEF FactoryInv, TypeOK
<1>1. /\ row' = row /\ registered' = registered /\ requests' = requests
      /\ fresh' = fresh /\ disk' = disk /\ job' = job
      /\ inserting' = [d \in Devices |-> None]
      /\ pc' = [r \in Runs |-> IF pc[r] \in Handling THEN "rest" ELSE pc[r]]
      /\ client' = [r \in Runs |-> IF pc[r] \in Handling /\ client[r] = "open"
                                   THEN "failed" ELSE client[r]]
  BY DEF Crash, cluster
<1>2. spent' = spent \cup {"crash"} /\ spent' \subseteq FaultKinds
  BY FaultTypes DEF Crash, FactoryInv, TypeOK
<1>3. \A q \in Runs :
         /\ pc'[q] \in Writing \cup {"rest"}
         /\ pc'[q] \in Writing => pc'[q] = pc[q] /\ client'[q] = client[q]
         /\ pc[q] \in Writing \cup {"rest"} => pc'[q] = pc[q]
         /\ client'[q] # "none" => client[q] # "none"
         /\ client[q] # "none" => client'[q] # "none"
         /\ client'[q] = "open" => client[q] = "open"
         /\ client[q] = "failed" => client'[q] = "failed"
         /\ client'[q] = "done" => client[q] = "done"
  BY <1>0, <1>1 DEF Handling, Writing
<1>4. /\ "rest" \notin Signing /\ Writing \subseteq Signing
      /\ Writing = {"writeKey", "writeCert"}
  BY DEF Signing, Writing
<1>5. TypeOK'
  <2>1. /\ client' \in [Runs -> {"none", "open", "done", "failed"}]
        /\ pc' \in [Runs -> Handling \cup Writing \cup {"rest"}]
        /\ inserting' \in [Devices -> Runs \cup {None}]
    BY <1>0, <1>1
  <2> QED BY <1>1, <1>2, <2>1 DEF FactoryInv, TypeOK
<1>6. RunsWaitedFor'
  BY <1>1, <1>3, <1>4 DEF FactoryInv, RunsWaitedFor, Dev
<1>7. OneTool'
  BY <1>1, <1>3 DEF FactoryInv, OneTool
<1>8. InsertAlone' /\ OwnRequest' /\ RegisteredOnce' /\ CodeStands'
  BY <1>1, <1>3, <1>4 DEF FactoryInv, InsertAlone, OwnRequest, RegisteredOnce,
     CodeStands, Dev
<1>9. RequestsLeft'
  BY <1>2 DEF RequestsLeft
<1>10. CertOfDevice'
  <2>1. \A e \in Devices :
           /\ disk[e].key # None => disk[e].key \in Runs
           /\ row[e] # NoRow /\ row[e].cert # None => row[e].cert \in Runs
    BY <1>0 DEF Disk, Row
  <2>2. \A q \in Runs : pc'[q] \in Writing =>
           /\ pc[q] = pc'[q] /\ Dev(q) \in Devices /\ row[Dev(q)] # NoRow
           /\ row[Dev(q)].cert # None /\ row[Dev(q)].cert \in Runs
    BY <1>0, <1>3, <1>4, <2>1 DEF FactoryInv, RunsWaitedFor, CertOfDevice, Dev, Job
  <2> QED BY <1>1, <1>3, <1>4, <2>1, <2>2 DEF FactoryInv, CertOfDevice, Dev
<1>11. BundleMatches'
  <2>1. \A e \in Devices : disk[e].key # disk[e].cert => disk[e].key \in Runs
    BY <1>0 DEF FactoryInv, CertOfDevice, Disk
  <2> QED BY <1>1, <1>2, <1>3, <1>4, <2>1 DEF FactoryInv, BundleMatches
<1>12. FingerprintKnown'
  <2>1. \A e \in Devices : row[e] # NoRow /\ row[e].cert # None => row[e].cert \in Runs
    BY <1>0 DEF Row
  <2> QED BY <1>1, <1>3, <2>1 DEF FactoryInv, FingerprintKnown
<1> QED
  BY <1>5, <1>6, <1>7, <1>8, <1>9, <1>10, <1>11, <1>12 DEF FactoryInv

\* cert-manager decides a request that is there, and it stays there.
LEMMA DecideInv ==
    ASSUME FactoryInv, NEW r \in Runs, Decide(r)
    PROVE  FactoryInv'
<1>1. /\ row' = row /\ inserting' = inserting /\ registered' = registered
      /\ fresh' = fresh /\ disk' = disk /\ job' = job /\ pc' = pc /\ client' = client
      /\ spent \subseteq spent'
  BY DEF Decide, database, Fault
<1>2. /\ requests' \in [Runs -> {"none", "pending", "signed", "denied"}]
      /\ \A q \in Runs : requests'[q] # "none" <=> requests[q] # "none"
  BY DEF Decide, FactoryInv, TypeOK
<1>3. spent' \subseteq FaultKinds
  BY FaultTypes DEF Decide, FactoryInv, TypeOK
<1>4. TypeOK'
  BY <1>1, <1>2, <1>3 DEF FactoryInv, TypeOK
<1>5. RunsWaitedFor' /\ OneTool' /\ InsertAlone' /\ CodeStands' /\ RegisteredOnce'
  BY <1>1 DEF FactoryInv, RunsWaitedFor, OneTool, InsertAlone, CodeStands,
     RegisteredOnce, Dev
<1>6. OwnRequest' /\ RequestsLeft'
  BY <1>1, <1>2 DEF FactoryInv, OwnRequest, RequestsLeft
<1>7. CertOfDevice' /\ BundleMatches' /\ FingerprintKnown'
  BY <1>1 DEF FactoryInv, CertOfDevice, BundleMatches, FingerprintKnown, Dev
<1> QED BY <1>4, <1>5, <1>6, <1>7 DEF FactoryInv

\* The tenant's claim or revocation leaves order, version and fingerprint.
LEMMA TransitionInv ==
    ASSUME FactoryInv, NEW d \in Devices, Transition(d)
    PROVE  FactoryInv'
<1>0. row \in [Devices -> Row \cup {NoRow}] /\ row[d] \in Row
  BY DEF FactoryInv, TypeOK, Transition
<1>1. /\ inserting' = inserting /\ registered' = registered /\ requests' = requests
      /\ fresh' = fresh /\ disk' = disk /\ job' = job /\ pc' = pc /\ client' = client
      /\ spent' = spent
  BY DEF Transition, cluster
<1>2. PICK s \in {"CLAIMED", "REVOKED"} : row' = [row EXCEPT ![d].state = s]
  BY DEF Transition
<1>3. row'[d] \in Row /\ row'[d] = [row[d] EXCEPT !.state = s]
  BY <1>0, <1>2 DEF Row
<1>4. /\ row' \in [Devices -> Row \cup {NoRow}]
      /\ \A e \in Devices : /\ row'[e] = NoRow <=> row[e] = NoRow
                            /\ row[e] # NoRow =>
                                  /\ row'[e].order = row[e].order
                                  /\ row'[e].version = row[e].version
                                  /\ row'[e].cert = row[e].cert
  BY <1>0, <1>2, <1>3, Nothing DEF Row
<1>5. TypeOK'
  BY <1>1, <1>4 DEF FactoryInv, TypeOK
<1>6. \A r \in Runs :
         pc[r] \in Signing \cup {"log"} \/ job[r].code # None => Dev(r) \in Devices
  <2>1. "rest" \notin Signing \cup {"log"}
    BY DEF Signing, Writing
  <2> QED BY <2>1, Nothing DEF FactoryInv, TypeOK, RunsWaitedFor, Dev, Job
<1>7. RunsWaitedFor' /\ OneTool'
  BY <1>1, <1>4, <1>6 DEF FactoryInv, RunsWaitedFor, OneTool, Dev
<1>8. InsertAlone' /\ CodeStands'
  BY <1>1, <1>4, <1>6 DEF FactoryInv, InsertAlone, CodeStands, Dev
<1>9. RegisteredOnce' /\ OwnRequest' /\ RequestsLeft' /\ BundleMatches'
  BY <1>1, <1>4 DEF FactoryInv, RegisteredOnce, OwnRequest, RequestsLeft,
     BundleMatches
<1>10. CertOfDevice'
  <2>1. \A r \in Runs : pc[r] \in Writing => Dev(r) \in Devices /\ row[Dev(r)] # NoRow
    BY <1>6 DEF FactoryInv, RunsWaitedFor, Signing
  <2> QED BY <1>1, <1>4, <2>1 DEF FactoryInv, CertOfDevice, Dev
<1>11. FingerprintKnown'
  BY <1>1, <1>4 DEF FactoryInv, FingerprintKnown
<1> QED BY <1>5, <1>7, <1>8, <1>9, <1>10, <1>11 DEF FactoryInv

\* A second passes, or nothing at all happens.
LEMMA QuietInv ==
    ASSUME FactoryInv, Tick \/ UNCHANGED vars
    PROVE  FactoryInv'
<1>1. /\ row' = row /\ inserting' = inserting /\ registered' = registered
      /\ requests' = requests /\ disk' = disk /\ job' = job /\ pc' = pc
      /\ client' = client /\ spent' = spent /\ fresh' \subseteq Runs
  BY DEF Tick, database, vars, FactoryInv, TypeOK
<1> QED
  BY <1>1 DEF FactoryInv, TypeOK, RunsWaitedFor, OneTool, InsertAlone, CodeStands,
     RegisteredOnce, OwnRequest, RequestsLeft, CertOfDevice, BundleMatches,
     FingerprintKnown, Dev

\* The inductive invariant of the factory, for any number of runs and devices
\* and any mixture of failures.
THEOREM FactoryInvHolds == Spec => []FactoryInv
<1>1. ASSUME FactoryInv, [Next]_vars PROVE FactoryInv'
  BY <1>1, StepInv, BeginInv, GiveUpInv, DecideInv, TransitionInv, CrashInv, QuietInv
     DEF Next
<1> QED BY InitInv, <1>1, PTL DEF Spec

-----------------------------------------------------------------------------
\* The state of the registry, of the handlers, of the cluster and of the
\* directories is always of the form that the code writes.
THEOREM FactoryTypes == Spec => []TypeOK
<1>1. FactoryInv => TypeOK
  BY DEF FactoryInv
<1> QED BY FactoryInvHolds, <1>1, PTL

\* Whatever overlaps with whatever, a claim code that reached a client is the
\* one the registry will accept: it never changes once it was handed out.
THEOREM CodeStandsHolds == Spec => []CodeStands
<1>1. FactoryInv => CodeStands
  BY DEF FactoryInv
<1> QED BY FactoryInvHolds, <1>1, PTL

\* Overlapping registrations of one device make one row and one event.
THEOREM RegisteredOnceHolds == Spec => []RegisteredOnce
<1>1. FactoryInv => RegisteredOnce
  BY DEF FactoryInv
<1> QED BY FactoryInvHolds, <1>1, PTL

\* The second a request is named after does not make two signings share one.
THEOREM OwnRequestHolds == Spec => []OwnRequest
<1>1. FactoryInv => OwnRequest
  BY DEF FactoryInv
<1> QED BY FactoryInvHolds, <1>1, PTL

\* A signing leaves no request behind unless Kubernetes or the process failed.
THEOREM RequestsCleanedHolds == Spec => []RequestsCleaned
<1>1. FactoryInv => RequestsCleaned
  BY DEF FactoryInv, RequestsLeft, RequestsCleaned
<1> QED BY FactoryInvHolds, <1>1, PTL

\* Key and certificate in a directory are a pair, but for a tool that is
\* between the two or was stopped there.
THEOREM BundleMatchesHolds == Spec => []BundleMatches
<1>1. FactoryInv => BundleMatches
  BY DEF FactoryInv
<1> QED BY FactoryInvHolds, <1>1, PTL

\* The registry knows the certificate of a directory, or a later one that
\* never reached it.
THEOREM FingerprintKnownHolds == Spec => []FingerprintKnown
<1>1. FactoryInv => FingerprintKnown
  BY DEF FactoryInv
<1> QED BY FactoryInvHolds, <1>1, PTL

-----------------------------------------------------------------------------
(* The promise of Registration. *)

\* Who has not begun has nothing.
NotBegun == \A r \in Runs : client[r] = "none" => job[r] = NoJob

LEMMA NotBegunInvariant == Spec => []NotBegun
<1>1. Init => NotBegun
  BY DEF Init, NotBegun
<1>2. FactoryInv /\ NotBegun /\ [Next]_vars => NotBegun'
  <2> SUFFICES ASSUME FactoryInv, NotBegun, [Next]_vars PROVE NotBegun'
    OBVIOUS
  <2>0. client \in [Runs -> {"none", "open", "done", "failed"}]
        /\ job \in [Runs -> Job \cup {NoJob}]
    BY DEF FactoryInv, TypeOK
  <2>1. ASSUME NEW r \in Runs, Step(r) PROVE NotBegun'
    BY <2>1, StepFrame, StepSettled DEF FactoryInv, NotBegun
  <2>2. CASE UNCHANGED <<client, job>>
    BY <2>2 DEF NotBegun
  <2>3. ASSUME NEW r \in Runs, GiveUp(r) PROVE NotBegun'
    BY <2>0, <2>3 DEF GiveUp, NotBegun
  <2>4. CASE Crash
    BY <2>0, <2>4 DEF Crash, NotBegun
  <2>5. ASSUME NEW r \in Runs, NEW tool, NEW d, NEW order, NEW version,
               Begin(r, tool, d, order, version)
        PROVE  NotBegun'
    BY <2>0, <2>5 DEF Begin, NotBegun
  <2> QED
    BY <2>1, <2>2, <2>3, <2>4, <2>5 DEF Next, Decide, Transition, Tick, vars
<1> QED BY <1>1, <1>2, FactoryInvHolds, PTL DEF Spec

\* A step that leaves the rows, the codes people have and those that lie with
\* the devices alone is invisible to Registration.
LEMMA ToldKept ==
    ASSUME \A q \in Runs : /\ job'[q].code = job[q].code
                           /\ job[q].code # None =>
                                 job'[q].dev = job[q].dev /\ job'[q].order = job[q].order
    PROVE  Told' = Told
<1>1. \A q \in Runs : job[q].code # None =>
         [dev |-> Dev(q), entry |-> [order |-> job[q].order, version |-> job[q].code]]'
         = [dev |-> Dev(q), entry |-> [order |-> job[q].order, version |-> job[q].code]]
  BY DEF Dev
<1>2. {q \in Runs : job[q].code # None}' = {q \in Runs : job[q].code # None}
  OBVIOUS
<1> QED BY <1>1, <1>2 DEF Told

LEMMA Unseen ==
    ASSUME row' = row,
           \A q \in Runs : /\ job'[q].code = job[q].code
                           /\ job[q].code # None =>
                                 job'[q].dev = job[q].dev /\ job'[q].order = job[q].order,
           \A d \in Devices : disk'[d].code = disk[d].code
    PROVE  UNCHANGED Reg!vars
<1>1. Told' = Told
  BY ToldKept
<1>2. Entry' = Entry /\ Stage' = Stage /\ Certificate' = Certificate /\ Label' = Label
  BY DEF Entry, Stage, Certificate, Label
<1> QED BY <1>1, <1>2 DEF Reg!vars

\* An answer with a code tells the code of the registration.
LEMMA HandOutTells ==
    ASSUME FactoryInv, NEW r \in Runs, job[r] \in Job, Dev(r) \in Devices,
           NEW v \in Versions, HandOut(r, v), job[r].code \in {None, v},
           Entry'[Dev(r)] = [order |-> job[r].order, version |-> v]
    PROVE  Reg!Tell(Dev(r)) \/ UNCHANGED <<Told, Label>>
<1>0. /\ job \in [Runs -> Job \cup {NoJob}] /\ disk \in [Devices -> Disk]
      /\ v # None
  BY FactoryAssumption DEF FactoryInv, TypeOK
<1>1. CASE client[r] # "open"
  <2>1. job' = job
    BY <1>0, <1>1 DEF HandOut, Job
  <2>2. disk' = disk
    BY <1>1 DEF HandOut
  <2> QED BY <2>1, <2>2 DEF Told, Label, Dev
<1>2. CASE client[r] = "open"
  <2> DEFINE new == [dev |-> Dev(r), entry |-> [order |-> job[r].order, version |-> v]]
             Of(q) == [dev |-> Dev(q),
                       entry |-> [order |-> job[q].order, version |-> job[q].code]]
  <2>1. /\ job'[r].code = v /\ job'[r].dev = Dev(r) /\ job'[r].order = job[r].order
        /\ \A q \in Runs \ {r} : job'[q] = job[q]
    BY <1>0, <1>2 DEF HandOut, Job, Dev
  <2>2. Told' = Told \cup {new}
    <3>1. Of(r)' = new /\ job'[r].code # None
      BY <1>0, <2>1 DEF Dev
    <3>2. \A q \in Runs \ {r} : Of(q)' = Of(q) /\ job'[q].code = job[q].code
      BY <2>1 DEF Dev
    <3>3. job[r].code # None => Of(r) = new
      OBVIOUS
    <3>4. Told = {Of(q) : q \in {p \in Runs : job[p].code # None}}
      BY DEF Told
    <3>5. Told' = {Of(q)' : q \in {p \in Runs : job'[p].code # None}}
      BY DEF Told
    <3> HIDE DEF new, Of
    <3>6. \A x : x \in Told' <=> \E q \in Runs : job'[q].code # None /\ x = Of(q)'
      BY <3>5
    <3>7. \A x : x \in Told <=> \E q \in Runs : job[q].code # None /\ x = Of(q)
      BY <3>4
    <3> QED BY <3>1, <3>2, <3>3, <3>6, <3>7
  <2>3. \/ disk' = disk
        \/ disk' = [disk EXCEPT ![Dev(r)].code = v]
    BY <1>2 DEF HandOut
  <2>4. Label' = Label \/ Label' = [Label EXCEPT ![Dev(r)] = v]
    BY <1>0, <2>3 DEF Label, Disk
  <2>5. Entry'[Dev(r)] # Reg!NoEntry
    BY <1>0 DEF Reg!NoEntry
  <2> QED BY <2>2, <2>4, <2>5 DEF Reg!Tell
<1> QED BY <1>1, <1>2

\* The row of a registration, and what Registration sees of it.
LEMMA CommittedRegisters ==
    ASSUME FactoryInv, NEW r \in Runs, Log(r), Committed(r),
           Reg!Tell(Dev(r)) \/ UNCHANGED <<Told, Label>>
    PROVE  Reg!Register(Dev(r), job[r].order, job[r].version)
<1> DEFINE d == Dev(r)
<1>0. /\ row \in [Devices -> Row \cup {NoRow}] /\ d \in Devices
      /\ row[d] = NoRow
  BY StepFrame DEF FactoryInv, TypeOK, InsertAlone, Step, Log
<1>1. row' = [row EXCEPT ![d] = [order |-> job[r].order, state |-> "PENDING",
                                 version |-> job[r].version, cert |-> None]]
  BY DEF Committed
<1>2. row'[d].state = "PENDING" /\ row'[d] # NoRow
  BY <1>0, <1>1 DEF NoRow
<1>3. /\ Entry[d] = Reg!NoEntry
      /\ Entry' = [Entry EXCEPT ![d] = [order |-> job[r].order,
                                        version |-> job[r].version]]
  BY <1>0, <1>1, <1>2 DEF Entry, Reg!NoEntry
<1>4. Stage' = [Stage EXCEPT ![d] = "PENDING"]
  BY <1>0, <1>1 DEF Stage
<1>5. Certificate' = Certificate
  BY <1>0, <1>1, <1>2 DEF Certificate
<1> HIDE DEF d
<1> QED BY <1>3, <1>4, <1>5 DEF Reg!Register, d

\* A signing that is recorded leaves the registration and the life of the
\* device as they are, whatever the tenant did since it began.
LEMMA RecordCertifies ==
    ASSUME FactoryInv, NEW r \in Runs, Save(r), Record(r)
    PROVE  Reg!Certify(Dev(r), r)
<1> DEFINE d == Dev(r)
<1>0. /\ row \in [Devices -> Row \cup {NoRow}] /\ d \in Devices /\ row[d] \in Row
  BY StepFrame DEF FactoryInv, TypeOK, RunsWaitedFor, Step, Save, Signing
<1>1. row' = [row EXCEPT ![d] = [row[d] EXCEPT !.cert = r]]
  BY DEF Record
<1>2. /\ row'[d].order = row[d].order /\ row'[d].state = row[d].state
      /\ row'[d].version = row[d].version /\ row'[d].cert = r
      /\ row'[d] # NoRow /\ row[d] # NoRow
      /\ \A e \in Devices \ {d} : row'[e] = row[e]
  <2>1. row'[d] = [row[d] EXCEPT !.cert = r]
    BY <1>0, <1>1
  <2>2. row'[d] \in Row
    BY <1>0, <2>1 DEF Row
  <2> QED BY <1>0, <1>1, <2>1, <2>2, Nothing DEF Row
<1>3. Entry' = Entry /\ Stage' = Stage
  BY <1>2 DEF Entry, Stage
<1>4. Certificate' = [Certificate EXCEPT ![d] = r]
  BY <1>2 DEF Certificate
<1>5. Entry[d] # Reg!NoEntry
  BY <1>0, <1>2, FactoryAssumption DEF Entry, Reg!NoEntry, Row
<1>6. job' = job /\ disk' = disk
  BY DEF Save, Onward, Refuse
<1>7. Told' = Told /\ Label' = Label
  BY <1>6 DEF Told, Label, Dev
<1> HIDE DEF d
<1> QED BY <1>3, <1>4, <1>5, <1>7 DEF Reg!Certify, d

LEMMA StepRegisters ==
    ASSUME FactoryInv, NEW r \in Runs, Step(r)
    PROVE  [Reg!Next]_(Reg!vars)
<1> DEFINE d == Dev(r)
<1>0. /\ d \in Devices /\ job[r] \in Job /\ job \in [Runs -> Job \cup {NoJob}]
      /\ row \in [Devices -> Row \cup {NoRow}] /\ disk \in [Devices -> Disk]
  BY StepFrame DEF FactoryInv, TypeOK
<1>1. job[r].order \in Orders /\ job[r].version \in Versions
  BY <1>0 DEF Job
<1>2. ASSUME UNCHANGED <<row, job, disk>> PROVE UNCHANGED Reg!vars
  BY <1>2, Unseen
<1>3. CASE Read(r)
  <2>1. CASE row[d] # NoRow /\ row[d].order = job[r].order /\ HandOut(r, row[d].version)
    <3>1. row[d] \in Row /\ row' = row /\ row[d].version \in Versions
      BY <1>0, <1>3, <2>1 DEF Read, database, Row
    <3>2. Entry' = Entry /\ Stage' = Stage /\ Certificate' = Certificate
      BY <3>1 DEF Entry, Stage, Certificate
    <3>3. Entry'[d] = [order |-> job[r].order, version |-> row[d].version]
      BY <1>0, <2>1, <3>2 DEF Entry
    <3>4. job[r].code \in {None, row[d].version}
      BY DEF FactoryInv, CodeStands
    <3>5. Reg!Tell(d) \/ UNCHANGED <<Told, Label>>
      BY <1>0, <2>1, <3>1, <3>3, <3>4, HandOutTells
    <3>6. CASE Reg!Tell(d)
      <4>1. Reg!TellAgain(d)
        BY <3>2, <3>6 DEF Reg!TellAgain
      <4> QED BY <1>0, <4>1 DEF Reg!Next
    <3>7. CASE UNCHANGED <<Told, Label>>
      BY <3>2, <3>7 DEF Reg!vars
    <3> QED BY <3>5, <3>6, <3>7
  <2>2. CASE UNCHANGED <<row, job, disk>>
    BY <1>2, <2>2
  <2> QED BY <1>3, <2>1, <2>2 DEF Read, CodeAgain, Refuse, Onward, database
<1>4. CASE Log(r)
  <2>1. CASE Committed(r)
    <3>1. row[d] = NoRow
      BY <1>4 DEF FactoryInv, InsertAlone, Log
    <3>2. row'[d] = [order |-> job[r].order, state |-> "PENDING",
                     version |-> job[r].version, cert |-> None]
      BY <1>0, <2>1 DEF Committed
    <3>3. Entry'[d] = [order |-> job[r].order, version |-> job[r].version]
      BY <1>0, <3>2 DEF Entry, NoRow
    <3>4. job[r].code = None
      BY <3>1 DEF FactoryInv, CodeStands
    <3>5. Reg!Tell(d) \/ UNCHANGED <<Told, Label>>
      <4>1. CASE HandOut(r, job[r].version)
        BY <1>0, <1>1, <3>3, <3>4, <4>1, HandOutTells
      <4>2. CASE UNCHANGED <<job, disk>>
        BY <4>2 DEF Told, Label, Dev
      <4> QED BY <1>4, <4>1, <4>2 DEF Log, Refuse
    <3>6. Reg!Register(d, job[r].order, job[r].version)
      BY <1>4, <2>1, <3>5, CommittedRegisters
    <3> QED BY <1>0, <1>1, <3>6 DEF Reg!Next
  <2>2. CASE UNCHANGED <<row, registered, job>> /\ Refuse(r)
    BY <1>2, <2>2 DEF Refuse
  <2> QED BY <1>4, <2>1, <2>2 DEF Log
<1>5. CASE Save(r)
  <2>1. CASE Record(r)
    BY <1>0, <1>5, <2>1, RecordCertifies DEF Reg!Next
  <2>2. CASE row' = row
    <3>1. job' = job /\ disk' = disk
      BY <1>5 DEF Save, Onward, Refuse
    <3> QED BY <1>2, <2>2, <3>1
  <2> QED BY <1>5, <2>1, <2>2 DEF Save
<1>6. CASE Insert(r) \/ Check(r)
  BY <1>2, <1>6 DEF Insert, Check, Onward, Refuse, database
<1>7. CASE Create(r) \/ Poll(r) \/ Cleanup(r)
  <2>1. row' = row /\ disk' = disk
    BY <1>7 DEF Create, Poll, Cleanup, Taken, CleanUp, Onward, Refuse, database
  <2>2. \A q \in Runs \ {r} : job'[q] = job[q]
    BY StepFrame DEF FactoryInv
  <2>3. /\ job'[r].code = job[r].code /\ job'[r].dev = job[r].dev
        /\ job'[r].order = job[r].order
    BY <1>0, <1>7 DEF Create, Poll, Cleanup, Taken, CleanUp, Job
  <2> QED BY <2>1, <2>2, <2>3, Unseen
<1>8. CASE WriteKey(r) \/ WriteCert(r)
  <2>1. row' = row /\ job' = job
    BY <1>8 DEF WriteKey, WriteCert, database
  <2>2. \A e \in Devices : disk'[e].code = disk[e].code
    BY <1>0, <1>8 DEF WriteKey, WriteCert, Disk
  <2> QED BY <2>1, <2>2, Unseen
<1> QED
  BY <1>3, <1>4, <1>5, <1>6, <1>7, <1>8 DEF Step

\* What the tenant does to a device is what Registration lets it.
LEMMA TransitionRegisters ==
    ASSUME FactoryInv, NEW d \in Devices, Transition(d)
    PROVE  Reg!Claim(d) \/ Reg!Retire(d)
<1>0. row \in [Devices -> Row \cup {NoRow}] /\ row[d] \in Row
  BY DEF FactoryInv, TypeOK, Transition
<1>1. Told' = Told /\ Label' = Label
  BY DEF Transition, Told, Label, Dev
<1>2. ASSUME NEW s \in {"CLAIMED", "REVOKED"}, row' = [row EXCEPT ![d].state = s]
      PROVE  /\ Stage' = [Stage EXCEPT ![d] = s]
             /\ Entry' = Entry /\ Certificate' = Certificate
  <2>1. row'[d] = [row[d] EXCEPT !.state = s] /\ row'[d] \in Row
    BY <1>0, <1>2 DEF Row
  <2>2. /\ row'[d].order = row[d].order /\ row'[d].version = row[d].version
        /\ row'[d].cert = row[d].cert /\ row'[d].state = s
        /\ row'[d] # NoRow /\ row[d] # NoRow
        /\ \A e \in Devices \ {d} : row'[e] = row[e]
    BY <1>0, <1>2, <2>1, Nothing DEF Row
  <2> QED BY <2>2 DEF Stage, Entry, Certificate
<1>3. CASE row[d].state = "PENDING" /\ row' = [row EXCEPT ![d].state = "CLAIMED"]
  BY <1>1, <1>2, <1>3 DEF Reg!Claim, Stage
<1>4. CASE row[d].state # "REVOKED" /\ row' = [row EXCEPT ![d].state = "REVOKED"]
  <2>1. Stage[d] \in {"PENDING", "CLAIMED"}
    BY <1>0, <1>4 DEF Stage, Row
  <2> QED BY <1>1, <1>2, <1>4, <2>1 DEF Reg!Retire
<1> QED BY <1>3, <1>4 DEF Transition

\* api/factory.py and the tool, with everything that can overlap and fail in
\* them, implement the promise of Registration.
THEOREM RegistrationImplemented == Spec => RegistrationHolds
<1>1. Init => Reg!Init
  BY DEF Init, Reg!Init, Reg!NoEntry, Entry, Stage, Certificate, Label, Told,
     NoRow, NoJob
<1>2. FactoryInv /\ NotBegun /\ [Next]_vars => [Reg!Next]_(Reg!vars)
  <2> SUFFICES ASSUME FactoryInv, NotBegun, [Next]_vars
               PROVE  [Reg!Next]_(Reg!vars)
    OBVIOUS
  <2>1. CASE UNCHANGED <<row, job, disk>>
    BY <2>1, Unseen
  <2>2. ASSUME NEW r \in Runs, NEW tool, NEW d, NEW order, NEW version,
               Begin(r, tool, d, order, version)
        PROVE  UNCHANGED Reg!vars
    <3>1. job \in [Runs -> Job \cup {NoJob}] /\ job[r].code = None
      BY <2>2, Nothing DEF FactoryInv, TypeOK, NotBegun, Begin
    <3>2. job'[r].code = None /\ \A q \in Runs \ {r} : job'[q] = job[q]
      BY <2>2, <3>1 DEF Begin
    <3>3. row' = row /\ disk' = disk
      BY <2>2 DEF Begin, database
    <3> QED BY <3>1, <3>2, <3>3, Unseen
  <2>3. ASSUME NEW d \in Devices, Transition(d) PROVE Reg!Next
    BY <2>3, TransitionRegisters DEF Reg!Next
  <2> QED
    BY <2>1, <2>2, <2>3, StepRegisters
    DEF Next, GiveUp, Decide, Tick, Crash, vars, database
<1> QED
  BY <1>1, <1>2, FactoryInvHolds, NotBegunInvariant, PTL
  DEF Spec, RegistrationHolds, Reg!Spec
=============================================================================
