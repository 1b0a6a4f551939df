-------------------------- MODULE MigrationsProofs --------------------------
(***************************************************************************)
(* The migrations of any number of pods with any images, under any number  *)
(* of failures: applied in order, each once, and before the API serves.    *)
(* Schema and pods do nothing that Rollout does not allow.                 *)
(***************************************************************************)
EXTENDS Migrations, TLAPS

\* From the first read of the versions to the end of the run, the run has the
\* lock: nobody else is in between.
Holding == {"read", "next", "commit", "unlock"}

LockHeld == \A p \in Pods : pc[p] \in Holding => lock = p

\* A run starts with the first file.
Fresh ==
    \A p \in Pods : pc[p] \notin {"next", "commit", "unlock"} => file[p] = 0

\* Between two files, what is applied is what was read and what came since.
NextKnows ==
    \A p \in Pods : pc[p] = "next" =>
        /\ done[p] \subseteq applied /\ 1 .. file[p] \subseteq applied
        /\ applied \subseteq done[p] \cup 1 .. file[p]

\* The file of an open transaction is the first one that is not applied.
CommitKnows ==
    \A p \in Pods : pc[p] = "commit" =>
        /\ file[p] = Len(executed) + 1
        /\ file[p] \notin applied
        /\ done[p] \subseteq applied
        /\ applied \subseteq done[p] \cup 1 .. (file[p] - 1)

\* The initContainer has ended well.
After == {"starting", "exited", "serving"}

Finished ==
    \A p \in Pods :
        /\ pc[p] \in {"unlock"} \cup After => 1 .. Image[p] \subseteq applied
        /\ pc[p] = "serving" => Configured(p)

IInv ==
    /\ TypeOK /\ AppliedInOrder /\ LockHeld /\ Fresh /\ NextKnows
    /\ CommitKnows /\ Finished /\ NoConflict

-----------------------------------------------------------------------------
LEMMA FilesAreNumbers == Files \subseteq Nat \ {0}
  BY MigrationsAssumption DEF Files

LEMMA FileIsNumber == ASSUME NEW p \in Pods, TypeOK PROVE file[p] \in Nat
  <1>1. file[p] \in Files \cup {0}
    BY DEF TypeOK
  <1>2. 0 \in Nat
    OBVIOUS
  <1> QED
    BY <1>1, <1>2, FilesAreNumbers, Zenon

LEMMA ImageFiles == \A p \in Pods : 1 .. Image[p] \subseteq Files /\ Image[p] \in Nat
  BY MigrationsAssumption DEF Files

\* After an exception the run keeps nothing, and the schema is as it was.
LEMMA FailKeeps ==
  ASSUME NEW p \in Pods, IInv, Fail(p), UNCHANGED schema, faults' \in Nat,
         faults' >= faults, faults' > 0 \/ "POSTGRES_URL" \notin Env[p]
  PROVE  IInv'
  <1> USE DEF IInv, Fail, Goto, Released, schema
  <1>1. TypeOK'
    BY DEF TypeOK
  <1>2. AppliedInOrder'
    BY DEF AppliedInOrder
  <1>3. LockHeld'
    BY MigrationsAssumption DEF LockHeld, Holding, TypeOK
  <1>4. NextKnows' /\ Fresh'
    BY DEF NextKnows, Fresh, TypeOK
  <1>5. CommitKnows'
    BY DEF CommitKnows, TypeOK
  <1>6. Finished'
    BY DEF Finished, After, TypeOK
  <1>7. NoConflict'
    BY DEF NoConflict, TypeOK
  <1> QED
    BY <1>1, <1>2, <1>3, <1>4, <1>5, <1>6, <1>7

\* A committed file is the next one, and nobody else is between two files.
LEMMA CommitKeeps ==
  ASSUME NEW p \in Pods, IInv, pc[p] = "commit", Committed(p)
  PROVE  /\ executed' \in Seq(Files) /\ applied' \subseteq Files
         /\ AppliedInOrder'
         /\ applied \subseteq applied'
         /\ file[p] \in applied'
         /\ applied' = applied \cup {file[p]}
  <1> USE DEF IInv, Committed, CommitKnows
  <1>1. executed \in Seq(Files) /\ applied \subseteq Files /\ file[p] \in Files \cup {0}
    BY DEF TypeOK
  <1>2. file[p] \in Files
    BY <1>1
  <1>3. Len(executed) \in Nat /\ Len(executed') = Len(executed) + 1
    BY <1>1, <1>2
  <1>4. executed' \in Seq(Files)
    BY <1>1, <1>2
  <1>5. \A i \in 1 .. Len(executed') : executed'[i] = i
    BY <1>1, <1>2, <1>3 DEF AppliedInOrder
  <1>6. executed' = [i \in 1 .. Len(executed') |-> i]
    <2>1. executed' = [i \in 1 .. Len(executed') |-> executed'[i]]
      BY <1>4
    <2> QED
      BY <2>1, <1>5
  <1>7. applied' = 1 .. Len(executed')
    BY <1>3 DEF AppliedInOrder
  <1> QED
    BY <1>1, <1>2, <1>4, <1>6, <1>7 DEF AppliedInOrder

LEMMA CrashKeeps == ASSUME NEW p \in Pods, IInv, Crash(p) PROVE IInv'
  <1> USE DEF IInv, Crash, Goto, schema, Fault
  <1>1. TypeOK' /\ faults' > 0
    BY DEF TypeOK
  <1>2. AppliedInOrder'
    BY DEF AppliedInOrder
  <1>3. LockHeld'
    BY MigrationsAssumption DEF LockHeld, Holding, TypeOK
  <1>4. NextKnows' /\ CommitKnows' /\ Fresh'
    BY DEF NextKnows, CommitKnows, Fresh, TypeOK
  <1>5. Finished' /\ NoConflict'
    BY <1>1 DEF Finished, After, NoConflict, TypeOK
  <1> QED
    BY <1>1, <1>2, <1>3, <1>4, <1>5

-----------------------------------------------------------------------------
LEMMA Initially == Init => IInv
  <1> SUFFICES ASSUME Init PROVE IInv
    OBVIOUS
  <1>1. TypeOK
    BY DEF Init, TypeOK
  <1>2. AppliedInOrder
    <2>1. Len(executed) = 0 /\ executed = [i \in 1 .. 0 |-> i]
      BY DEF Init
    <2> QED
      BY <2>1 DEF Init, AppliedInOrder
  <1>3. LockHeld /\ Fresh /\ NextKnows /\ CommitKnows /\ Finished /\ NoConflict
    BY DEF Init, LockHeld, Holding, Fresh, NextKnows, CommitKnows, Finished,
      After, NoConflict
  <1> QED
    BY <1>1, <1>2, <1>3 DEF IInv

LEMMA Inductive == IInv /\ [Next]_vars => IInv'
  <1> SUFFICES ASSUME IInv, [Next]_vars PROVE IInv'
    OBVIOUS
  <1>0. faults \in Nat
    BY DEF IInv, TypeOK
  <1> USE DEF Goto, Fault
  <1>1. ASSUME NEW p \in Pods, Connect(p) PROVE IInv'
    <2>1. CASE Fail(p) /\ Fault("connection")
      BY <1>0, <1>1, <2>1, FailKeeps DEF Connect
    <2>3. CASE "POSTGRES_URL" \notin Env[p] /\ Fail(p) /\ UNCHANGED faults
      BY <1>0, <1>1, <2>3, FailKeeps DEF Connect
    <2>2. CASE Goto(p, "lock") /\ UNCHANGED <<lock, done, file, faults>>
      BY <1>1, <2>2 DEF Connect, schema, IInv, TypeOK, AppliedInOrder, LockHeld,
        Holding, Fresh, NextKnows, CommitKnows, Finished, After, NoConflict
    <2> QED
      BY <1>1, <2>1, <2>2, <2>3 DEF Connect
  <1>2. ASSUME NEW p \in Pods, Lock(p) PROVE IInv'
    <2>1. CASE Fail(p) /\ Fault("connection")
      BY <1>0, <1>2, <2>1, FailKeeps DEF Lock
    <2>2. CASE /\ Unlocked /\ lock' = p
               /\ Goto(p, "read") /\ UNCHANGED <<done, file, faults>>
      <3>1. \A q \in Pods : pc[q] \notin Holding
        BY <2>2, MigrationsAssumption DEF Unlocked, IInv, LockHeld
      <3>2. TypeOK' /\ AppliedInOrder'
        BY <1>2, <2>2 DEF Lock, schema, IInv, TypeOK, AppliedInOrder
      <3>3. LockHeld' /\ Fresh'
        BY <1>2, <2>2, <3>1 DEF Lock, IInv, LockHeld, Holding, Fresh, TypeOK
      <3>4. NextKnows' /\ CommitKnows'
        BY <1>2, <2>2, <3>1 DEF Lock, schema, IInv, TypeOK, NextKnows, CommitKnows
      <3>5. Finished' /\ NoConflict'
        BY <1>2, <2>2 DEF Lock, schema, IInv, TypeOK, Finished, After, NoConflict
      <3> QED
        BY <3>2, <3>3, <3>4, <3>5 DEF IInv
    <2> QED
      BY <1>2, <2>1, <2>2 DEF Lock
  <1>3. ASSUME NEW p \in Pods, Read(p) PROVE IInv'
    <2>1. CASE Fail(p) /\ Fault("connection")
      BY <1>0, <1>3, <2>1, FailKeeps DEF Read
    <2>2. CASE /\ done' = [done EXCEPT ![p] = applied]
               /\ Goto(p, "next") /\ UNCHANGED <<lock, file, faults>>
      <3>1. TypeOK' /\ AppliedInOrder'
        BY <1>3, <2>2 DEF Read, schema, IInv, TypeOK, AppliedInOrder
      <3>2. LockHeld' /\ CommitKnows' /\ Fresh'
        BY <1>3, <2>2 DEF Read, schema, IInv, TypeOK, LockHeld, Holding,
          CommitKnows, Fresh
      <3>3. file[p] = 0
        BY <1>3 DEF Read, IInv, Fresh
      <3>4. NextKnows'
        BY <1>3, <2>2, <3>3 DEF Read, schema, IInv, TypeOK, NextKnows
      <3>5. Finished' /\ NoConflict'
        BY <1>3, <2>2 DEF Read, schema, IInv, TypeOK, Finished, After, NoConflict
      <3> QED
        BY <3>1, <3>2, <3>4, <3>5 DEF IInv
    <2> QED
      BY <1>3, <2>1, <2>2 DEF Read
  <1>4. ASSUME NEW p \in Pods, Execute(p) PROVE IInv'
    <2>1. CASE Fail(p) /\ Fault("sql")
      BY <1>0, <1>4, <2>1, FailKeeps DEF Execute
    <2>2. ASSUME NEW f \in Missing(p), \A g \in Missing(p) : f <= g,
                 file' = [file EXCEPT ![p] = f],
                 Goto(p, "commit"), UNCHANGED <<lock, done, faults>>
          PROVE  IInv'
      <3>1. f \in 1 .. Image[p] /\ f > file[p] /\ f \notin done[p] /\ f \in Files
        BY ImageFiles DEF Missing
      <3>2. pc[p] = "next" /\ UNCHANGED schema /\ lock = p
        BY <1>4 DEF Execute, IInv, LockHeld, Holding
      <3>3. TypeOK' /\ AppliedInOrder'
        BY <2>2, <3>1, <3>2 DEF schema, IInv, TypeOK, AppliedInOrder
      <3>4. LockHeld' /\ NextKnows' /\ Fresh'
        BY <2>2, <3>2 DEF schema, IInv, TypeOK, LockHeld, Holding, NextKnows, Fresh
      <3>5. Finished' /\ NoConflict'
        BY <2>2, <3>2 DEF schema, IInv, TypeOK, Finished, After, NoConflict
      <3>6. f = Len(executed) + 1 /\ f \notin applied
            /\ applied \subseteq done[p] \cup 1 .. (f - 1)
        <4>1. /\ done[p] \subseteq applied /\ 1 .. file[p] \subseteq applied
              /\ applied \subseteq done[p] \cup 1 .. file[p]
              /\ applied = 1 .. Len(executed) /\ Len(executed) \in Nat
              /\ file[p] \in Nat /\ f \in Nat /\ Image[p] \in Nat
          <5>1. f \in Nat /\ Image[p] \in Nat
            BY <3>1, ImageFiles
          <5>2. file[p] \in Nat
            BY FileIsNumber DEF IInv
          <5>3. Len(executed) \in Nat
            BY DEF IInv, TypeOK
          <5> QED
            BY <3>2, <5>1, <5>2, <5>3 DEF IInv, NextKnows, AppliedInOrder
        <4>2. f \notin applied
          BY <3>1, <4>1
        <4>3. \A g \in 1 .. (f - 1) : g \in applied
          <5>1. SUFFICES ASSUME NEW g \in 1 .. (f - 1), g \notin applied PROVE FALSE
            OBVIOUS
          <5>2. g > file[p] /\ g \notin done[p]
            BY <4>1, <5>1
          <5>3. g \in Missing(p)
            BY <3>1, <4>1, <5>2 DEF Missing
          <5> QED
            BY <2>2, <4>1, <5>3
        <4>4. f > Len(executed)
          BY <3>1, <4>1, <4>2
        <4>5. f - 1 <= Len(executed)
          BY <3>1, <4>1, <4>3
        <4> QED
          BY <3>1, <4>1, <4>2, <4>4, <4>5
      <3>7. CommitKnows'
        <4>1. \A q \in Pods \ {p} : pc[q] # "commit"
          BY <3>2 DEF IInv, LockHeld, Holding
        <4>2. pc[p] = "next" /\ done[p] \subseteq applied
          BY <3>2 DEF IInv, NextKnows
        <4> QED
          BY <2>2, <3>2, <3>6, <4>1, <4>2 DEF schema, IInv, TypeOK, CommitKnows
      <3> QED
        BY <3>3, <3>4, <3>5, <3>7 DEF IInv
    <2> QED
      BY <1>4, <2>1, <2>2 DEF Execute
  <1>5. ASSUME NEW p \in Pods, Commit(p) PROVE IInv'
    <2>0. pc[p] = "commit" /\ lock = p /\ file[p] \notin applied
      BY <1>5 DEF Commit, IInv, LockHeld, Holding, CommitKnows
    <2>1. CASE Fail(p) /\ Fault("connection") /\ UNCHANGED schema
      BY <1>0, <1>5, <2>1, FailKeeps
    <2>2. CASE Committed(p) /\ Goto(p, "next") /\ UNCHANGED <<lock, done, file, faults>>
      <3>1. /\ TypeOK' /\ AppliedInOrder'
            /\ applied \subseteq applied' /\ applied' = applied \cup {file[p]}
        BY <2>0, <2>2, CommitKeeps DEF IInv, TypeOK
      <3>2. LockHeld' /\ Fresh'
        BY <2>0, <2>2 DEF IInv, LockHeld, Holding, Fresh, TypeOK
      <3>3. \A q \in Pods \ {p} : pc'[q] \notin {"next", "commit"}
        BY <2>0, <2>2 DEF IInv, TypeOK, LockHeld, Holding
      <3>4. NextKnows'
        <4>1. /\ done[p] \subseteq applied
              /\ applied \subseteq done[p] \cup 1 .. (file[p] - 1)
              /\ file[p] = Len(executed) + 1 /\ applied = 1 .. Len(executed)
              /\ Len(executed) \in Nat
          BY <2>0 DEF IInv, CommitKnows, AppliedInOrder, TypeOK
        <4>2. /\ done[p] \subseteq applied' /\ 1 .. file[p] \subseteq applied'
              /\ applied' \subseteq done[p] \cup 1 .. file[p]
          BY <3>1, <4>1
        <4> QED
          BY <2>2, <3>3, <4>2 DEF NextKnows, IInv, TypeOK
      <3>5. CommitKnows'
        BY <2>2, <3>3 DEF CommitKnows, IInv, TypeOK
      <3>6. Finished' /\ NoConflict'
        BY <2>2, <3>1 DEF IInv, TypeOK, Finished, After, NoConflict
      <3> QED
        BY <3>1, <3>2, <3>4, <3>5, <3>6 DEF IInv
    <2>3. CASE Committed(p) /\ Fault("lostCommit") /\ Fail(p)
      <3>1. /\ TypeOK' /\ AppliedInOrder'
            /\ applied \subseteq applied'
        BY <1>0, <2>0, <2>3, CommitKeeps DEF IInv, TypeOK, Fail, Released
      <3>2. LockHeld' /\ Fresh'
        BY <2>0, <2>3, MigrationsAssumption
          DEF IInv, LockHeld, Holding, Fresh, TypeOK, Fail, Released
      <3>3. \A q \in Pods : pc'[q] \notin {"next", "commit"}
        BY <2>0, <2>3 DEF IInv, TypeOK, LockHeld, Holding, Fail
      <3>4. NextKnows' /\ CommitKnows'
        BY <3>3 DEF NextKnows, CommitKnows
      <3>5. Finished' /\ NoConflict'
        BY <1>0, <2>3, <3>1 DEF IInv, TypeOK, Finished, After, NoConflict, Fail
      <3> QED
        BY <3>1, <3>2, <3>4, <3>5 DEF IInv
    <2> QED
      BY <1>5, <2>0, <2>1, <2>2, <2>3 DEF Commit
  <1>6. ASSUME NEW p \in Pods, NothingLeft(p) PROVE IInv'
    <2>1. /\ pc[p] = "next" /\ Missing(p) = {} /\ Goto(p, "unlock")
          /\ UNCHANGED <<schema, lock, done, file, faults>>
      BY <1>6 DEF NothingLeft
    <2>2. 1 .. Image[p] \subseteq applied
      <3>1. /\ done[p] \subseteq applied /\ 1 .. file[p] \subseteq applied
            /\ file[p] \in Nat /\ Image[p] \in Nat
        BY <2>1, ImageFiles, FileIsNumber DEF IInv, NextKnows
      <3> QED
        BY <2>1, <3>1 DEF Missing
    <2>3. TypeOK' /\ AppliedInOrder' /\ LockHeld' /\ Fresh'
      BY <2>1 DEF schema, IInv, TypeOK, AppliedInOrder, LockHeld, Holding, Fresh
    <2>4. NextKnows' /\ CommitKnows'
      BY <2>1 DEF schema, IInv, TypeOK, NextKnows, CommitKnows
    <2>5. Finished' /\ NoConflict'
      BY <2>1, <2>2 DEF schema, IInv, TypeOK, Finished, After, NoConflict
    <2> QED
      BY <2>3, <2>4, <2>5 DEF IInv
  <1>7. ASSUME NEW p \in Pods, Unlock(p) PROVE IInv'
    <2>1. CASE Fail(p) /\ Fault("connection")
      BY <1>0, <1>7, <2>1, FailKeeps DEF Unlock
    <2>2. CASE /\ Goto(p, "starting") /\ Released(p)
               /\ done' = [done EXCEPT ![p] = {}]
               /\ file' = [file EXCEPT ![p] = 0]
               /\ UNCHANGED faults
      <3>1. pc[p] = "unlock" /\ UNCHANGED schema
        BY <1>7 DEF Unlock
      <3>2. TypeOK' /\ AppliedInOrder'
        BY <2>2, <3>1 DEF schema, Released, IInv, TypeOK, AppliedInOrder
      <3>3. LockHeld' /\ Fresh'
        BY <2>2, <3>1, MigrationsAssumption
          DEF Released, IInv, LockHeld, Holding, Fresh, TypeOK
      <3>4. NextKnows' /\ CommitKnows'
        BY <2>2, <3>1 DEF schema, IInv, TypeOK, NextKnows, CommitKnows
      <3>5. Finished' /\ NoConflict'
        BY <2>2, <3>1 DEF schema, IInv, TypeOK, Finished, After, NoConflict
      <3> QED
        BY <3>2, <3>3, <3>4, <3>5 DEF IInv
    <2> QED
      BY <1>7, <2>1, <2>2 DEF Unlock
  <1>8. ASSUME NEW p \in Pods, Restart(p) PROVE IInv'
    BY <1>8 DEF Restart, schema, IInv, TypeOK, AppliedInOrder, LockHeld, Holding,
      Fresh, NextKnows, CommitKnows, Finished, After, NoConflict
  <1>11. ASSUME NEW p \in Pods, Start(p) \/ Exit(p) PROVE IInv'
    <2>1. /\ pc[p] \in After
          /\ \/ pc' = [pc EXCEPT ![p] = "serving"] /\ Configured(p)
             \/ pc' = [pc EXCEPT ![p] = "exited"]
          /\ UNCHANGED <<schema, lock, done, file>>
          /\ faults' \in Nat /\ faults' >= faults
      BY <1>0, <1>11 DEF Start, Exit, After
    <2>2. TypeOK' /\ AppliedInOrder'
      BY <2>1 DEF schema, IInv, TypeOK, AppliedInOrder
    <2>3. LockHeld' /\ Fresh' /\ NextKnows' /\ CommitKnows'
      BY <2>1 DEF schema, IInv, TypeOK, LockHeld, Holding, Fresh, NextKnows,
        CommitKnows, After
    <2>4. Finished' /\ NoConflict'
      BY <1>0, <2>1 DEF schema, IInv, TypeOK, Finished, After, NoConflict
    <2> QED
      BY <2>2, <2>3, <2>4 DEF IInv
  <1>9. ASSUME Notice PROVE IInv'
    BY <1>9, MigrationsAssumption DEF Notice, schema, IInv, TypeOK, AppliedInOrder,
      LockHeld, Holding, Fresh, NextKnows, CommitKnows, Finished, After, NoConflict
  <1>10. CASE UNCHANGED vars
    BY <1>10 DEF vars, schema, IInv, TypeOK, AppliedInOrder, LockHeld, Holding,
      Fresh, NextKnows, CommitKnows, Finished, After, NoConflict
  <1> QED
    BY <1>1, <1>2, <1>3, <1>4, <1>5, <1>6, <1>7, <1>8, <1>9, <1>10,
      <1>11, CrashKeeps
      DEF Next, Step

LEMMA Invariance == Spec => []IInv
  BY Initially, Inductive, PTL DEF Spec

-----------------------------------------------------------------------------
\* What is applied are files of some image, and the lock is a session's.
THEOREM MigrationTypes == Spec => []TypeOK
  <1>1. IInv => TypeOK
    BY DEF IInv
  <1> QED
    BY <1>1, Invariance, PTL

\* The effects of the files are committed in name order, each once and with
\* its version: migrate.py, for any pods, images and failures.
THEOREM AppliedInOrderHolds == Spec => []AppliedInOrder
  <1>1. IInv => AppliedInOrder
    BY DEF IInv
  <1> QED
    BY <1>1, Invariance, PTL

\* No API serves before all files of its image are applied, nor without a value
\* for each setting that validate_required asks for.
THEOREM ServedAfterMigrationsHolds == Spec => []ServedAfterMigrations
  <1>1. IInv => ServedAfterMigrations
    BY DEF IInv, Finished, After, ServedAfterMigrations
  <1> QED
    BY <1>1, Invariance, PTL

\* The advisory lock keeps runs from failing on each other's files.
THEOREM NoConflictHolds == Spec => []NoConflict
  <1>1. IInv => NoConflict
    BY DEF IInv
  <1> QED
    BY <1>1, Invariance, PTL

-----------------------------------------------------------------------------
\* The pods that serve, as Rollout sees them.
Serving == {p \in Pods : pc[p] = "serving"}

\* A step of one pod that leaves the schema alone and the pod not serving is
\* a stop of the pod, or nothing.
LEMMA NotServing ==
  ASSUME TypeOK, NEW p \in Pods, NEW label, label # "serving",
         UNCHANGED schema, Goto(p, label)
  PROVE  Rol!Stop(p) \/ UNCHANGED Rol!vars
  <1>1. pc' = [pc EXCEPT ![p] = label]
        /\ DOMAIN pc = Pods /\ UNCHANGED <<executed, applied>>
    BY DEF TypeOK, Goto, schema
  <1>2. Serving' = Serving \ {p}
    BY <1>1 DEF Serving
  <1>3. CASE p \in Serving
    BY <1>1, <1>2, <1>3 DEF Serving, Rol!Stop
  <1>4. CASE p \notin Serving
    BY <1>1, <1>2, <1>4 DEF Serving, Rol!vars
  <1> QED
    BY <1>3, <1>4

\* The file of a commit is the next one, of the image of the pod.
LEMMA CommitApplies ==
  ASSUME IInv, NEW p \in Pods, pc[p] = "commit", Committed(p),
         NEW label, label # "serving", Goto(p, label)
  PROVE  Rol!Apply
  <1>1. file[p] = Len(executed) + 1 /\ Len(executed) \in Nat
    BY DEF IInv, CommitKnows, TypeOK
  <1>2. file[p] \in Files
    BY <1>1 DEF IInv, TypeOK
  <1>3. \E q \in Pods : file[p] <= Image[q]
    BY <1>2, MigrationsAssumption DEF Files
  <1>4. Serving' = Serving
    BY DEF Serving, Goto, IInv, TypeOK
  <1> QED
    BY <1>1, <1>3, <1>4 DEF Committed, Serving, Rol!Apply

\* A pod that comes to serve may do so.
LEMMA StartServes ==
  ASSUME IInv, NEW p \in Pods, pc[p] = "starting", Configured(p),
         Goto(p, "serving"), UNCHANGED schema
  PROVE  Rol!Serve(p)
  <1>1. 1 .. Image[p] \subseteq applied
    BY DEF IInv, Finished, After
  <1>2. Serving' = Serving \cup {p} /\ p \notin Serving
    BY DEF Serving, Goto, IInv, TypeOK
  <1>3. p \in {q \in Pods : Configured(q)}
    OBVIOUS
  <1> QED
    BY <1>1, <1>2, <1>3 DEF Serving, schema, Rol!Serve

\* Every step of a pod is a step of Rollout, or none it can see.
LEMMA PodSimulated ==
  ASSUME IInv, NEW p \in Pods, Step(p) \/ Exit(p) \/ Crash(p)
  PROVE  [Rol!Next]_(Rol!vars)
  <1>1. ASSUME NEW label, label # "serving", UNCHANGED schema, Goto(p, label)
        PROVE  [Rol!Next]_(Rol!vars)
    BY <1>1, NotServing DEF IInv, Rol!Next
  <1>2. ASSUME UNCHANGED schema, Fail(p) PROVE [Rol!Next]_(Rol!vars)
    BY <1>1, <1>2 DEF Fail
  <1>3. CASE Connect(p) \/ Lock(p) \/ Read(p) \/ Execute(p) \/ NothingLeft(p)
             \/ Unlock(p) \/ Exit(p) \/ Crash(p) \/ Restart(p)
    BY <1>1, <1>2, <1>3
      DEF Connect, Lock, Read, Execute, NothingLeft, Unlock, Exit, Crash, Restart
  <1>4. CASE Commit(p)
    <2>1. CASE Committed(p) /\ (Goto(p, "next") \/ Fail(p))
      BY <1>4, <2>1, CommitApplies DEF Commit, Fail, Rol!Next
    <2>2. CASE UNCHANGED schema /\ Fail(p)
      BY <1>2, <2>2
    <2> QED
      BY <1>4, <2>1, <2>2 DEF Commit
  <1>5. CASE Start(p)
    <2>1. CASE Configured(p) /\ Goto(p, "serving")
      BY <1>5, <2>1, StartServes DEF Start, schema, Rol!Next
    <2>2. CASE Goto(p, "exited")
      BY <1>1, <1>5, <2>2 DEF Start, schema
    <2> QED
      BY <1>5, <2>1, <2>2 DEF Start
  <1> QED
    BY <1>3, <1>4, <1>5 DEF Step

\* migrate.py and the start of the API, for any pods, images and failures,
\* implement Rollout: whatever dies where, the schema only goes forward, file
\* by file, and no pod serves before it may.
THEOREM RolloutImplemented == Spec => RolloutHolds
  <1>1. Init => Rol!Init
    BY DEF Init, Rol!Init
  <1>2. IInv /\ [Next]_vars => [Rol!Next]_(Rol!vars)
    <2> SUFFICES ASSUME IInv, [Next]_vars PROVE [Rol!Next]_(Rol!vars)
      OBVIOUS
    <2>1. CASE Notice \/ UNCHANGED vars
      BY <2>1 DEF Notice, vars, schema, Rol!vars
    <2> QED
      BY <2>1, PodSimulated DEF Next
  <1> QED
    BY <1>1, <1>2, Invariance, PTL DEF Spec, RolloutHolds, Rol!Spec
=============================================================================
