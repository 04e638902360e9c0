-------------------------- MODULE StateLockProofs --------------------------
(***************************************************************************)
(* Until a process dies the state lock excludes, for any number of         *)
(* processes and however slow they are: a stale lock is never broken while *)
(* its holder lives.                                                       *)
(***************************************************************************)
EXTENDS StateLock, TLAPS

\* Nobody is dead, so nobody has decided to break a lock.
NobodyBreaks == \A p \in Procs : pc[p] \notin {"dead", "break"}

\* A lock outlives LOCK_STALE_MS at most: no one has seen an ancient one.
NothingAncient == file.age # "ancient" /\ \A p \in Procs : seen[p].age # "ancient"

\* isProcessAlive is asked about a process that did write the file.
ProbesAProcess == \A p \in Procs : pc[p] = "probe" => seen[p].pid \in Procs

\* The file is that of the one process past its exclusive create.
FileIsHolders ==
    /\ Exists => pc[file.by] \in Holding
    /\ \A p \in Procs : pc[p] \in Holding => file.by = p
    /\ \A p \in Procs : pc[p] \in {"held", "releasing"} => file.written

CrashFree == NobodyBreaks /\ NothingAncient /\ ProbesAProcess /\ FileIsHolders
LockInv == TypeOK /\ (crashes = 0 => CrashFree)

USE DEF Ages, Files, NoFile, NothingSeen, Exists, Dead, Holding, Goto

\* The first state satisfies the inductive invariant: no file, nobody inside.
LEMMA LockInit == Init => LockInv
  BY ProcsAssumption, AttemptsAssumption, CrashesAssumption
  DEF Init, LockInv, TypeOK, CrashFree, NobodyBreaks, NothingAncient, ProbesAProcess, FileIsHolders

\* What GiveUp and Retry do to the caller's own entries.
LEMMA LeavingTypes ==
  ASSUME TypeOK, NEW p \in Procs, GiveUp(p) \/ Retry(p)
  PROVE /\ pc' \in [Procs -> {"out", "create", "write", "stat", "read", "probe", "break",
                              "held", "releasing", "dead"}]
        /\ attempt' \in [Procs -> 0 .. MaxAttempts - 1]
        /\ seen' \in [Procs -> [age : Ages, pid : Procs \cup {NoProc}]]
        /\ pc'[p] \in {"out", "create"}
        /\ seen'[p].age = "fresh"
        /\ \A q \in Procs : q # p => pc'[q] = pc[q] /\ seen'[q] = seen[q]
  BY AttemptsAssumption DEF TypeOK, GiveUp, Retry

\* Every step keeps the type of the lock's state.
LEMMA LockTypes == TypeOK /\ [Next]_vars => TypeOK'
  <1> SUFFICES ASSUME TypeOK, [Next]_vars PROVE TypeOK'
    OBVIOUS
  <1>1. CASE UNCHANGED vars
    BY <1>1 DEF vars, TypeOK
  <1>2. CASE Older
    BY <1>2 DEF Older, TypeOK
  <1>3. ASSUME NEW p \in Procs, Crash(p) PROVE TypeOK'
    BY <1>3, CrashesAssumption DEF Crash, TypeOK
  <1>4. ASSUME NEW p \in Procs, Step(p) PROVE TypeOK'
    <2>1. CASE Begin(p)
      BY <2>1 DEF Begin, TypeOK
    <2>2. CASE Create(p)
      <3>1. [by |-> p, written |-> FALSE, age |-> "fresh"] \in Files
        BY Zenon
      <3>2. file' = file \/ file' = [by |-> p, written |-> FALSE, age |-> "fresh"]
        BY <2>2 DEF Create
      <3>3. file' \in Files
        BY <3>1, <3>2 DEF TypeOK
      <3> QED
        BY <2>2, <3>3 DEF Create, TypeOK
    <2>3. CASE WriteHolder(p)
      BY <2>3, AttemptsAssumption DEF WriteHolder, TypeOK
    <2>4. CASE Stat(p)
      <3>1. CASE GiveUp(p) \/ Retry(p)
        BY <2>4, <3>1, LeavingTypes DEF Stat, TypeOK
      <3>2. CASE ~(GiveUp(p) \/ Retry(p))
        BY <2>4, <3>2 DEF Stat, TypeOK
      <3> QED
        BY <3>1, <3>2
    <2>5. CASE ReadHolder(p)
      <3>1. CASE GiveUp(p) \/ Retry(p)
        BY <2>5, <3>1, LeavingTypes DEF ReadHolder, TypeOK
      <3>2. CASE ~(GiveUp(p) \/ Retry(p))
        BY <2>5, <3>2 DEF ReadHolder, TypeOK
      <3> QED
        BY <3>1, <3>2
    <2>6. CASE Probe(p)
      <3>1. CASE GiveUp(p)
        BY <2>6, <3>1, LeavingTypes DEF Probe, TypeOK
      <3>2. CASE ~GiveUp(p)
        BY <2>6, <3>2 DEF Probe, TypeOK
      <3> QED
        BY <3>1, <3>2
    <2>7. CASE Break(p)
      BY <2>7, LeavingTypes DEF Break, TypeOK
    <2>8. CASE CheckHolder(p)
      BY <2>8 DEF CheckHolder, TypeOK
    <2>9. CASE Unlink(p)
      BY <2>9 DEF Unlink, TypeOK
    <2> QED
      BY <1>4, <2>1, <2>2, <2>3, <2>4, <2>5, <2>6, <2>7, <2>8, <2>9 DEF Step
  <1> QED
    BY <1>1, <1>2, <1>3, <1>4 DEF Next

\* A step of a process that waits for the lock, and goes on waiting, leaves
\* the file in its holder's hands.
LEMMA Waiting ==
  ASSUME TypeOK, CrashFree, NEW p \in Procs,
         pc[p] \notin Holding,
         pc'[p] \notin Holding \cup {"dead", "break"},
         pc'[p] = "probe" => seen'[p].pid \in Procs,
         seen'[p].age # "ancient",
         file' = file,
         \A q \in Procs : q # p => pc'[q] = pc[q] /\ seen'[q] = seen[q]
  PROVE  CrashFree'
  <1> USE DEF CrashFree
  <1>1. NobodyBreaks' /\ NothingAncient' /\ ProbesAProcess'
    BY DEF NobodyBreaks, NothingAncient, ProbesAProcess
  <1>2. Exists => file.by \in Procs
    BY DEF TypeOK
  <1>3. FileIsHolders'
    BY <1>2 DEF FileIsHolders
  <1> QED
    BY <1>1, <1>3

\* While nobody has died, every step keeps the file in its holder's hands.
LEMMA LockSteps == ASSUME TypeOK, CrashFree, [Next]_vars, crashes' = 0 PROVE CrashFree'
  <1> USE DEF CrashFree, NobodyBreaks, NothingAncient, ProbesAProcess, FileIsHolders
  <1>1. CASE UNCHANGED vars
    BY <1>1 DEF vars
  <1>2. CASE Older
    BY <1>2, ProcsAssumption DEF Older, TypeOK
  <1>3. ASSUME NEW p \in Procs, Crash(p) PROVE CrashFree'
    BY <1>3, CrashesAssumption DEF Crash, TypeOK
  <1>4. ASSUME NEW p \in Procs, Step(p) PROVE CrashFree'
    <2>1. CASE Begin(p)
      BY <2>1, ProcsAssumption DEF Begin, TypeOK
    <2>2. CASE Create(p)
      BY <2>2, ProcsAssumption DEF Create, TypeOK
    <2>3. CASE WriteHolder(p)
      BY <2>3, ProcsAssumption DEF WriteHolder, TypeOK
    <2>4. CASE Stat(p)
      <3>1. pc[p] = "stat" /\ file' = file
        BY <2>4 DEF Stat
      <3>2. CASE GiveUp(p) \/ Retry(p)
        BY <3>1, <3>2, LeavingTypes, Waiting
      <3>3. CASE ~(GiveUp(p) \/ Retry(p))
        <4>1. pc'[p] = "read" /\ seen'[p].age = file.age
          BY <2>4, <3>3 DEF Stat, TypeOK
        <4>2. \A q \in Procs : q # p => pc'[q] = pc[q] /\ seen'[q] = seen[q]
          BY <2>4, <3>3 DEF Stat, TypeOK
        <4> QED
          BY <3>1, <4>1, <4>2, Waiting
      <3> QED
        BY <3>2, <3>3
    <2>5. CASE ReadHolder(p)
      <3>1. pc[p] = "read" /\ file' = file
        BY <2>5 DEF ReadHolder
      <3>2. CASE GiveUp(p) \/ Retry(p)
        BY <3>1, <3>2, LeavingTypes, Waiting
      <3>3. CASE ~(GiveUp(p) \/ Retry(p))
        <4>1. Exists /\ Goto(p, "probe") /\ seen' = [seen EXCEPT ![p].pid = file.by]
          BY <2>5, <3>3 DEF ReadHolder
        <4>2. file.by \in Procs
          BY <4>1 DEF TypeOK
        <4>3. pc'[p] = "probe" /\ seen'[p].pid = file.by /\ seen'[p].age = seen[p].age
          BY <4>1 DEF TypeOK
        <4>4. \A q \in Procs : q # p => pc'[q] = pc[q] /\ seen'[q] = seen[q]
          BY <4>1 DEF TypeOK
        <4> QED
          BY <3>1, <4>2, <4>3, <4>4, Waiting
      <3> QED
        BY <3>2, <3>3
    <2>6. CASE Probe(p)
      <3>1. pc[p] = "probe" /\ file' = file /\ GiveUp(p)
        BY <2>6 DEF Probe, TypeOK
      <3> QED
        BY <3>1, LeavingTypes, Waiting
    <2>7. CASE Break(p)
      BY <2>7 DEF Break
    <2>8. CASE CheckHolder(p)
      BY <2>8, ProcsAssumption DEF CheckHolder, TypeOK
    <2>9. CASE Unlink(p)
      BY <2>9, ProcsAssumption DEF Unlink, TypeOK
    <2> QED
      BY <1>4, <2>1, <2>2, <2>3, <2>4, <2>5, <2>6, <2>7, <2>8, <2>9 DEF Step
  <1> QED
    BY <1>1, <1>2, <1>3, <1>4 DEF Next

\* The number of deaths only grows.
LEMMA DeathsGrow == ASSUME TypeOK, [Next]_vars, crashes' = 0 PROVE crashes = 0
  <1>1. crashes' = crashes \/ crashes' = crashes + 1
    BY DEF Next, vars, Older, Step, Begin, Create, WriteHolder, Stat, ReadHolder, Probe,
           Break, CheckHolder, Unlink, Crash
  <1> QED
    BY <1>1, CrashesAssumption DEF TypeOK

\* The inductive invariant of the state lock.
THEOREM LockInvariance == Spec => []LockInv
  <1>1. LockInv /\ [Next]_vars => LockInv'
    BY LockTypes, LockSteps, DeathsGrow DEF LockInv
  <1> QED
    BY LockInit, <1>1, PTL DEF Spec

\* The state of acquireLock and releaseLock keeps its type, the attempts of
\* one acquireLock their limit.
THEOREM LockTypeCorrect == Spec => []TypeOK
  <1>1. LockInv => TypeOK
    BY DEF LockInv
  <1> QED
    BY LockInvariance, <1>1, PTL

\* Until a process dies no two processes are in the section withLock guards.
THEOREM ExclusionUntilDeath == Spec => [](crashes = 0 => MutualExclusion)
  <1>1. LockInv => (crashes = 0 => MutualExclusion)
    BY DEF LockInv, CrashFree, FileIsHolders, MutualExclusion
  <1> QED
    BY LockInvariance, <1>1, PTL

\* Until a process dies releaseLock finds the caller's own lock file.
THEOREM ReleaseUntilDeath == Spec => [](crashes = 0 => ReleaseSucceeds)
  <1>1. LockInv => (crashes = 0 => ReleaseSucceeds)
    BY DEF LockInv, CrashFree, FileIsHolders, ReleaseSucceeds
  <1> QED
    BY LockInvariance, <1>1, PTL
=============================================================================
