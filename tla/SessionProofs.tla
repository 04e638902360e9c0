---------------------------- MODULE SessionProofs ----------------------------
(***************************************************************************)
(* Theorems about a worker's session: who starts it (SessionStart) and     *)
(* what a structured one does with its commands (CodexSession), for any    *)
(* number of sessions, coordinators, crashes, runs, commands and timeouts. *)
(*                                                                         *)
(* SessionStart.  The lock excludes as long as at most one coordinator at  *)
(* a time is on its way to it.  Its owner is then found by the lock at     *)
(* every moment, so whoever is spawned is spawned while nobody lives.      *)
(*                                                                         *)
(* CodexSession.  What the adapter keeps of a session is true of the       *)
(* provider's turns (ObjectsTrue), and as long as no call of the session   *)
(* was given up, the turn that is not over is the one in flight or the     *)
(* active one (Tracked).  A command is submitted when neither is there.    *)
(***************************************************************************)
EXTENDS SessionStart, CodexSession, FiniteSetTheorems, TLAPS

-----------------------------------------------------------------------------
(* SessionStart: one coordinator.                                          *)

\* What the argument needs of the types.
LockTypes ==
    /\ file \in [by : 0 .. MaxCoords, written : BOOLEAN]
    /\ coord \in [Coords -> Live \cup {"none", "dead", "lost"}]

\* Of all coordinators, those that acquire the lock included, one lives.
OneLives == \A c, d \in Coords : coord[c] \in Live /\ coord[d] \in Live => c = d

\* The file a coordinator has created is there until it has written it.
OpenedIsThere == \A c \in Coords : coord[c] = "opened" => file = [by |-> c, written |-> FALSE]

LockInv == LockTypes /\ OneLives /\ OpenedIsThere /\ LockNamesCoordinator

\* Nobody lives at first.
LEMMA LockInitially == Init => LockInv
<1> SUFFICES ASSUME Init PROVE LockInv
  OBVIOUS
<1>1. 0 \in 0 .. MaxCoords BY BoundsAssumption
<1> QED BY <1>1 DEF Init, LockInv, LockTypes, OneLives, OpenedIsThere, LockNamesCoordinator, Works, Live, NoFile

\* A coordinator's own step: nobody else lives, so nobody else is concerned.
LEMMA CoordinatorKeeps ==
    ASSUME LockInv, NEW c \in Coords, Coordinator(c) \/ Exits(c) \/ Dies(c)
    PROVE  LockInv'
<1> USE DEF LockInv, LockTypes, NoFile, Live, Acquiring
<1>1. \A d \in Coords : d # c => coord[d] \notin Live
  BY DEF OneLives, Coordinator, Open, WritePid, ReadOther, UnlinkStale, Exits, Dies
<1>2. c \in 0 .. MaxCoords /\ 0 \in 0 .. MaxCoords BY BoundsAssumption DEF Coords
<1>3. \A d \in Coords : d # c => coord'[d] = coord[d]
  BY DEF Coordinator, Open, WritePid, ReadOther, UnlinkStale, Exits, Dies
<1>4. OneLives' BY <1>1, <1>3 DEF OneLives
<1> HIDE DEF Live
<1>5. \A d \in Coords : d # c => coord'[d] # "opened" /\ ~Works(d)' BY <1>1, <1>3 DEF Live, Works
<1> USE DEF Live
<1>6. CASE Open(c)
  <2>1. file' = [by |-> c, written |-> FALSE] /\ coord' = [coord EXCEPT ![c] = "opened"] BY <1>6 DEF Open
  <2>2. LockTypes' BY <1>2, <2>1
  <2>3. OpenedIsThere' BY <1>5, <2>1 DEF OpenedIsThere
  <2>4. ~Works(c)' BY <2>1 DEF Works
  <2>5. LockNamesCoordinator' BY <1>5, <2>4 DEF LockNamesCoordinator
  <2> QED BY <1>4, <2>2, <2>3, <2>5
<1>7. CASE WritePid(c)
  <2>1. file = [by |-> c, written |-> FALSE] BY <1>7 DEF WritePid, OpenedIsThere
  <2>2. file' = [by |-> c, written |-> TRUE] /\ coord' = [coord EXCEPT ![c] = "running"]
    BY <1>7, <2>1 DEF WritePid
  <2>3. LockTypes' BY <1>2, <2>2
  <2>4. OpenedIsThere' BY <1>5, <2>2 DEF OpenedIsThere
  <2>5. LockNamesCoordinator' BY <1>5, <2>2 DEF LockNamesCoordinator
  <2> QED BY <1>4, <2>3, <2>4, <2>5
<1>8. CASE ReadOther(c) \/ UnlinkStale(c) \/ Exits(c) \/ Dies(c)
  <2>1. coord'[c] \in {"dead", "lost", "breaking", "spawned"}
    BY <1>8 DEF ReadOther, UnlinkStale, Exits, Dies
  <2>2. file' \in {file, [by |-> 0, written |-> FALSE]}
    BY <1>8 DEF ReadOther, UnlinkStale, Exits, Dies, releaseCoordinatorLock
  <2>3. coord' \in [Coords -> Live \cup {"none", "dead", "lost"}]
    <3>1. CASE ReadOther(c) BY <3>1 DEF ReadOther
    <3>2. CASE UnlinkStale(c) BY <3>2 DEF UnlinkStale
    <3>3. CASE Exits(c) BY <3>3 DEF Exits
    <3>4. CASE Dies(c) BY <3>4 DEF Dies
    <3> QED BY <1>8, <3>1, <3>2, <3>3, <3>4
  <2>4. LockTypes'
    <3>1. file \in [by : 0 .. MaxCoords, written : BOOLEAN] OBVIOUS
    <3>2. [by |-> 0, written |-> FALSE] \in [by : 0 .. MaxCoords, written : BOOLEAN] BY <1>2
    <3> HIDE DEF Live
    <3> QED BY <2>2, <2>3, <3>1, <3>2
  <2>5. ~Works(c)' /\ coord'[c] # "opened" BY <2>1 DEF Works
  <2>6. OpenedIsThere' BY <1>5, <2>5 DEF OpenedIsThere
  <2>7. LockNamesCoordinator' BY <1>5, <2>5 DEF LockNamesCoordinator
  <2> QED BY <1>4, <2>4, <2>6, <2>7
<1> QED BY <1>6, <1>7, <1>8 DEF Coordinator

\* SIGTERM: a coordinator that worked goes on working, until it stops.
LEMMA StopKeeps ==
    ASSUME LockInv, NEW s \in Sessions, stopCoordinator(s)
    PROVE  LockInv'
<1> DEFINE v == victim[s]
<1>1. UNCHANGED file /\ (coord' = coord \/ coord' = [coord EXCEPT ![v] = IF @ = "running" THEN "stopping" ELSE @])
  BY DEF stopCoordinator
<1>2. CASE coord' = coord BY <1>1, <1>2 DEF LockInv, LockTypes, OneLives, OpenedIsThere, LockNamesCoordinator, Works
<1>3. CASE coord' = [coord EXCEPT ![v] = IF @ = "running" THEN "stopping" ELSE @]
  <2> HIDE DEF v
  <2>1. \A c \in Coords : \/ coord'[c] = coord[c]
                          \/ coord[c] = "running" /\ coord'[c] = "stopping"
    BY <1>3 DEF LockInv, LockTypes
  <2>2. LockTypes' BY <1>1, <1>3, <2>1 DEF LockInv, LockTypes, Live
  <2>3. OneLives' BY <2>1 DEF LockInv, OneLives, Live
  <2>4. OpenedIsThere' BY <1>1, <2>1 DEF LockInv, OpenedIsThere
  <2>5. LockNamesCoordinator' BY <1>1, <2>1 DEF LockInv, LockNamesCoordinator, Works
  <2> QED BY <2>2, <2>3, <2>4, <2>5 DEF LockInv
<1> QED BY <1>1, <1>2, <1>3

\* The session removes the lock of the coordinator it stopped, and that one
\* no longer lives.
LEMMA RemovalKeeps ==
    ASSUME LockInv, NEW s \in Sessions, Stopped(s)
    PROVE  LockInv'
<1>1. UNCHANGED coord BY DEF Stopped
<1>2. \/ UNCHANGED file
      \/ file.written /\ coord[file.by] \notin Live /\ file' = [by |-> 0, written |-> FALSE]
  BY DEF Stopped, removeCoordinatorPidFileIfMatches, NoFile
<1>3. CASE UNCHANGED file
  BY <1>1, <1>3 DEF LockInv, LockTypes, OneLives, OpenedIsThere, LockNamesCoordinator, Works
<1>4. CASE file.written /\ coord[file.by] \notin Live /\ file' = [by |-> 0, written |-> FALSE]
  <2>1. \A c \in Coords : coord[c] # "opened"
    BY <1>4 DEF LockInv, OpenedIsThere
  <2>2. \A c \in Coords : ~Works(c)
    BY <1>4 DEF LockInv, LockNamesCoordinator, Works, Live
  <2>3. 0 \in 0 .. MaxCoords BY BoundsAssumption
  <2> QED BY <1>1, <1>4, <2>1, <2>2, <2>3
       DEF LockInv, LockTypes, OneLives, OpenedIsThere, LockNamesCoordinator, Works
<1> QED BY <1>2, <1>3, <1>4

\* A coordinator is spawned while no other lives: one at work would be found
\* by the lock, and one on its way to it would be the second.
LEMMA LaunchKeeps ==
    ASSUME LockInv, MaxStarting <= 1, NEW s \in Sessions, Launches(s)
    PROVE  LockInv'
<1>1. UNCHANGED file BY DEF Launches
<1>2. CASE UNCHANGED coord
  BY <1>1, <1>2 DEF LockInv, LockTypes, OneLives, OpenedIsThere, LockNamesCoordinator, Works
<1>3. CASE /\ NeedsCoordinator(s)
           /\ Cardinality({c \in Coords : coord[c] \in Acquiring}) < MaxStarting
           /\ \E c \in Coords : coord' = [coord EXCEPT ![c] = "spawned"]
  <2>1. PICK n \in Coords : coord' = [coord EXCEPT ![n] = "spawned"] BY <1>3
  <2> DEFINE A == {c \in Coords : coord[c] \in Acquiring}
  <2>2. A = {}
    <3>1. IsFiniteSet(Coords) BY BoundsAssumption, FS_Interval DEF Coords
    <3>2. IsFiniteSet(A) BY <3>1, FS_Subset
    <3>3. Cardinality(A) \in Nat BY <3>2, FS_CardinalityType
    <3>4. Cardinality(A) < MaxStarting BY <1>3
    <3> HIDE DEF A
    <3>5. Cardinality(A) = 0 BY <3>3, <3>4, BoundsAssumption
    <3> QED BY <3>2, <3>5, FS_EmptySet
  <2>3. \A c \in Coords : ~Works(c)
    <3> SUFFICES ASSUME NEW c \in Coords, Works(c) PROVE FALSE
      OBVIOUS
    <3>1. file.by = c /\ file.written BY DEF LockInv, LockNamesCoordinator
    <3>2. coord[c] \in Live BY DEF Works, Live
    <3>3. c # 0 BY BoundsAssumption DEF Coords
    <3> QED BY <1>3, <3>1, <3>2, <3>3 DEF NeedsCoordinator, coordinatorStatus, isCoordinatorLockHeld
  <2>4. \A c \in Coords : coord[c] \notin Live
    BY <2>2, <2>3 DEF Works, Live, Acquiring
  <2>5. LockTypes' BY <1>1, <2>1 DEF LockInv, LockTypes, Live
  <2>6. OneLives' BY <2>1, <2>4 DEF LockInv, LockTypes, OneLives
  <2>7. \A c \in Coords : coord'[c] # "opened" /\ ~Works(c)'
    BY <2>1, <2>4 DEF LockInv, LockTypes, Works, Live
  <2> QED BY <2>5, <2>6, <2>7 DEF LockInv, OpenedIsThere, LockNamesCoordinator
<1> QED BY <1>2, <1>3 DEF Launches

\* One step for each process that touches the lock; the others leave it.
LEMMA LockStep == MaxStarting <= 1 /\ LockInv /\ [Next]_vars => LockInv'
<1> SUFFICES ASSUME MaxStarting <= 1, LockInv, [Next]_vars PROVE LockInv'
  OBVIOUS
<1>1. CASE UNCHANGED <<file, coord>>
  BY <1>1 DEF LockInv, LockTypes, OneLives, OpenedIsThere, LockNamesCoordinator, Works
<1>2. CASE \E c \in Coords : Coordinator(c) \/ Exits(c) \/ Dies(c) \/ PidReused(c)
  BY <1>1, <1>2, CoordinatorKeeps DEF PidReused
<1>3. CASE \E r \in Runs : claimTask(r) \/ finishRun(r) BY <1>1, <1>3 DEF claimTask, finishRun
<1>4. ASSUME NEW s \in Sessions, \/ promptCoordinatorAction(s) \/ StillRunning(s) \/ Prepares(s)
                                 \/ PreparationFails(s) \/ LaunchFails(s) \/ Leaves(s)
      PROVE  LockInv'
  BY <1>1, <1>4 DEF promptCoordinatorAction, StillRunning, Prepares, PreparationFails, LaunchFails, Leaves
<1>5. ASSUME NEW s \in Sessions, stopCoordinator(s) \/ Stopped(s) \/ Launches(s) PROVE LockInv'
  BY <1>5, StopKeeps, RemovalKeeps, LaunchKeeps
<1>6. CASE UNCHANGED vars BY <1>1, <1>6 DEF vars
<1> QED BY <1>2, <1>3, <1>4, <1>5, <1>6 DEF Next

\* The lock names whoever works, in every reachable state, as long as the
\* coordinators that acquire it do so one at a time.
THEOREM LockInvariant == ASSUME MaxStarting <= 1 PROVE Spec => []LockInv
<1>1. LockInv /\ [Next]_vars => LockInv' BY LockStep
<1> QED BY <1>1, LockInitially, PTL DEF Spec

\* acquireCoordinatorLock: with one coordinator starting at a time, crashes,
\* stale and half-written locks, reused PIDs and sessions that terminate a
\* coordinator never leave two at work.
THEOREM NeverTwoCoordinators == ASSUME MaxStarting <= 1 PROVE Spec => []OneCoordinator
<1>1. LockInv => OneCoordinator
  <2> SUFFICES ASSUME LockInv PROVE OneCoordinator
    OBVIOUS
  <2> DEFINE W == {c \in Coords : Works(c)}
  <2>1. CASE W = {}
    <3>1. Cardinality({}) = 0 BY FS_EmptySet
    <3> QED BY <2>1, <3>1 DEF OneCoordinator
  <2>2. CASE W # {}
    <3>1. PICK c \in Coords : Works(c) BY <2>2
    <3>2. W = {c} BY <3>1 DEF LockInv, OneLives, Works, Live
    <3>3. Cardinality({c}) = 1 BY FS_Singleton
    <3> QED BY <3>2, <3>3 DEF OneCoordinator
  <2> QED BY <2>1, <2>2
<1> QED BY <1>1, LockInvariant, PTL

\* status, terminate and kill-all find the coordinator that works: neither a
\* reset nor another coordinator's end takes its lock away.
THEOREM CoordinatorIsFound == ASSUME MaxStarting <= 1 PROVE Spec => []LockNamesCoordinator
<1>1. LockInv => LockNamesCoordinator BY DEF LockInv
<1> QED BY <1>1, LockInvariant, PTL

-----------------------------------------------------------------------------
(* The rollback.                                                           *)

\* A task that is done belongs to no run, so no late finish touches it.
DoneIsUnbound == task.status = "done" => task.run = NoRun

\* Only a finished run makes a task done, and it gives it up.
LEMMA DoneStep ==
    DoneIsUnbound /\ [Next]_vars => DoneIsUnbound' /\ (task.status = "done" => task'.status = "done")
<1> SUFFICES ASSUME DoneIsUnbound, [Next]_vars
             PROVE  DoneIsUnbound' /\ (task.status = "done" => task'.status = "done")
  OBVIOUS
<1> USE DEF DoneIsUnbound
<1>1. CASE UNCHANGED task BY <1>1
<1>2. ASSUME NEW r \in Runs, claimTask(r) PROVE task.status # "done" /\ task'.status # "done"
  BY <1>2 DEF claimTask
<1>3. ASSUME NEW r \in Runs, finishRun(r)
      PROVE  task' = task \/ (task.status # "done" /\ task'.run = NoRun)
  BY <1>3, RunsAssumption DEF finishRun
<1>4. ASSUME NEW s \in Sessions, Prepares(s)
      PROVE  task' = task \/ (task.status # "done" /\ task'.run = NoRun)
  BY <1>4 DEF Prepares, NoState, runtime
<1>5. ASSUME NEW s \in Sessions, LaunchFails(s)
      PROVE  task' = task \/ (task.status # "done" /\ task'.status # "done")
  BY <1>5 DEF LaunchFails, restoreBacklogStatuses
<1>6. \/ UNCHANGED task
      \/ \E r \in Runs : claimTask(r) \/ finishRun(r)
      \/ \E s \in Sessions : Prepares(s) \/ LaunchFails(s)
  BY DEF Next, vars, runtime, Coordinator, Open, WritePid, ReadOther, UnlinkStale, Exits, Dies, PidReused,
         promptCoordinatorAction, stopCoordinator, Stopped, StillRunning, PreparationFails, Launches, Leaves
<1> QED BY <1>1, <1>2, <1>3, <1>4, <1>5, <1>6

\* restoreVolatileRuntimeStateFromSnapshot: however old the snapshot, no
\* failed session start takes back a task that was done meanwhile.
THEOREM RollbackKeepsDone == Spec => DoneTaskStaysDone
<1>1. Init => DoneIsUnbound BY DEF Init, NoState, DoneIsUnbound
<1>2. DoneIsUnbound /\ [Next]_vars => DoneIsUnbound' BY DoneStep
<1>3. DoneIsUnbound /\ [Next]_vars => [task.status = "done" => task'.status = "done"]_vars BY DoneStep
<1> QED BY <1>1, <1>2, <1>3, PTL DEF Spec, DoneTaskStaysDone

-----------------------------------------------------------------------------
(* CodexSession: session objects.                                          *)

\* Everything but the phase.
SameTurns(o, p) ==
    /\ p.activeTurnId = o.activeTurnId /\ p.submitting = o.submitting /\ p.pending = o.pending
    /\ p.turnCommands = o.turnCommands /\ p.finishedTurns = o.finishedTurns

\* What a session object is at its start.
LEMMA NewObject ==
    /\ NewSession \in SessionObjects /\ NewSession.phase = "initialize"
    /\ NewSession.submitting = 0 /\ NewSession.pending = 0 /\ NewSession.activeTurnId = 0
    /\ NewSession.finishedTurns = {} /\ \A t \in Commands : NewSession.turnCommands[t] = 0
BY DEF NewSession, SessionObjects, Mapped, Handshake

\* An object that changes its phase.
LEMMA PhaseObject ==
    ASSUME NEW o \in SessionObjects, NEW p \in Mapped \cup {"none", "stopping", "hung", "gone"}
    PROVE  LET q == [o EXCEPT !.phase = p]
           IN  q \in SessionObjects /\ q.phase = p /\ SameTurns(o, q)
BY DEF SessionObjects, SameTurns

\* claimTurn sets the command of one turn, if it had none.
LEMMA ClaimObject ==
    ASSUME NEW o \in SessionObjects, NEW t \in Commands
    PROVE  LET q == claimTurn(o, t)
           IN  /\ q \in SessionObjects /\ q.phase = o.phase /\ q.activeTurnId = o.activeTurnId
               /\ q.submitting = o.submitting /\ q.pending = o.pending /\ q.finishedTurns = o.finishedTurns
               /\ \A u \in Commands :
                     q.turnCommands[u] = IF u = t /\ o.turnCommands[t] = 0 THEN o.submitting ELSE o.turnCommands[u]
<1>1. CASE o.turnCommands[t] = 0
  <2> DEFINE q == [o EXCEPT !.turnCommands = [o.turnCommands EXCEPT ![t] = o.submitting]]
  <2>1. claimTurn(o, t) = q
    BY <1>1 DEF claimTurn
  <2>2. [o.turnCommands EXCEPT ![t] = o.submitting] \in [Commands -> Commands \cup {0}]
    BY DEF SessionObjects
  <2>3. /\ q \in SessionObjects /\ q.phase = o.phase /\ q.activeTurnId = o.activeTurnId
        /\ q.submitting = o.submitting /\ q.pending = o.pending /\ q.finishedTurns = o.finishedTurns
        /\ q.turnCommands = [o.turnCommands EXCEPT ![t] = o.submitting]
    BY <2>2 DEF SessionObjects
  <2>4. \A u \in Commands : q.turnCommands[u] = IF u = t THEN o.submitting ELSE o.turnCommands[u]
    <3>1. o.turnCommands \in [Commands -> Commands \cup {0}]
      BY DEF SessionObjects
    <3> QED BY <2>3, <3>1
  <2> HIDE DEF q
  <2> QED BY <1>1, <2>1, <2>3, <2>4
<1>2. CASE o.turnCommands[t] # 0
  <2>1. claimTurn(o, t) = o
    BY <1>2 DEF claimTurn
  <2> QED BY <1>2, <2>1
<1> QED BY <1>1, <1>2

\* Opens makes a turn active, unless it has ended.
LEMMA OpenObject ==
    ASSUME NEW o \in SessionObjects, NEW t \in Commands
    PROVE  LET q == Opens(o, t)
           IN  /\ q \in SessionObjects /\ q.phase = o.phase
               /\ q.activeTurnId = IF t \in o.finishedTurns THEN o.activeTurnId ELSE t
               /\ q.submitting = o.submitting /\ q.pending = o.pending
               /\ q.finishedTurns = o.finishedTurns /\ q.turnCommands = o.turnCommands
<1>1. CASE t \in o.finishedTurns
  BY <1>1 DEF Opens
<1>2. CASE t \notin o.finishedTurns
  <2>1. Opens(o, t) = [o EXCEPT !.activeTurnId = t]
    BY <1>2 DEF Opens
  <2> QED BY <1>2, <2>1 DEF SessionObjects
<1> QED BY <1>1, <1>2

\* Ends records that a turn is over, and makes it inactive.
LEMMA EndObject ==
    ASSUME NEW o \in SessionObjects, NEW t \in Commands
    PROVE  LET q == Ends(o, t)
           IN  /\ q \in SessionObjects /\ q.phase = o.phase
               /\ q.activeTurnId = IF o.activeTurnId = t THEN 0 ELSE o.activeTurnId
               /\ q.submitting = o.submitting /\ q.pending = o.pending
               /\ q.finishedTurns = o.finishedTurns \cup {t} /\ q.turnCommands = o.turnCommands
<1> DEFINE p == [o EXCEPT !.finishedTurns = o.finishedTurns \cup {t}]
           a == IF o.activeTurnId = t THEN 0 ELSE o.activeTurnId
           q == [p EXCEPT !.activeTurnId = a]
<1>1. o.finishedTurns \cup {t} \in SUBSET Commands
  BY DEF SessionObjects
<1>2. /\ p \in SessionObjects /\ p.phase = o.phase /\ p.activeTurnId = o.activeTurnId
      /\ p.submitting = o.submitting /\ p.pending = o.pending
      /\ p.finishedTurns = o.finishedTurns \cup {t} /\ p.turnCommands = o.turnCommands
  BY <1>1 DEF SessionObjects
<1>3. Ends(o, t) = q
  BY <1>2 DEF Ends
<1>4. a \in Commands \cup {0}
  BY DEF SessionObjects
<1> HIDE DEF p, a
<1>5. /\ q \in SessionObjects /\ q.phase = p.phase /\ q.activeTurnId = a
      /\ q.submitting = p.submitting /\ q.pending = p.pending
      /\ q.finishedTurns = p.finishedTurns /\ q.turnCommands = p.turnCommands
  BY <1>2, <1>4 DEF SessionObjects
<1> HIDE DEF q
<1> QED BY <1>2, <1>3, <1>5 DEF a

\* A call is entered, or is over.
LEMMA CallObject ==
    ASSUME NEW o \in SessionObjects, NEW c \in Commands \cup {0}
    PROVE  LET q == [o EXCEPT !.submitting = c, !.pending = c]
           IN  /\ q \in SessionObjects /\ q.phase = o.phase /\ q.activeTurnId = o.activeTurnId
               /\ q.submitting = c /\ q.pending = c
               /\ q.finishedTurns = o.finishedTurns /\ q.turnCommands = o.turnCommands
               /\ q = [o EXCEPT !.pending = c, !.submitting = c]
<1> DEFINE p == [o EXCEPT !.submitting = c]
           q == [p EXCEPT !.pending = c]
<1>1. /\ p \in SessionObjects /\ p.phase = o.phase /\ p.activeTurnId = o.activeTurnId
      /\ p.submitting = c /\ p.finishedTurns = o.finishedTurns /\ p.turnCommands = o.turnCommands
  BY DEF SessionObjects
<1>2. q = [o EXCEPT !.submitting = c, !.pending = c]
  OBVIOUS
<1>3. q = [o EXCEPT !.pending = c, !.submitting = c]
  BY DEF SessionObjects
<1> HIDE DEF p
<1>4. /\ q \in SessionObjects /\ q.phase = p.phase /\ q.activeTurnId = p.activeTurnId
      /\ q.submitting = p.submitting /\ q.pending = c
      /\ q.finishedTurns = p.finishedTurns /\ q.turnCommands = p.turnCommands
  BY <1>1 DEF SessionObjects
<1> HIDE DEF q
<1> QED BY <1>1, <1>2, <1>3, <1>4

\* submit() goes on after the answer: the call is over, its turn is its own.
LEMMA SubmittedObject ==
    ASSUME NEW o \in SessionObjects, NEW t \in Commands, o.submitting = t
    PROVE  LET q == Submitted(o, t)
           IN  /\ q \in SessionObjects /\ q.phase = o.phase
               /\ q.activeTurnId = IF t \in o.finishedTurns THEN o.activeTurnId ELSE t
               /\ q.submitting = 0 /\ q.pending = 0 /\ q.finishedTurns = o.finishedTurns
               /\ \A u \in Commands :
                     q.turnCommands[u] = IF u = t /\ o.turnCommands[t] = 0 THEN t ELSE o.turnCommands[u]
<1> DEFINE p == claimTurn(o, t)
           q == Opens(p, t)
           r == [q EXCEPT !.submitting = 0, !.pending = 0]
<1>1. /\ p \in SessionObjects /\ p.phase = o.phase /\ p.activeTurnId = o.activeTurnId /\ p.finishedTurns = o.finishedTurns
      /\ \A u \in Commands :
            p.turnCommands[u] = IF u = t /\ o.turnCommands[t] = 0 THEN t ELSE o.turnCommands[u]
  BY ClaimObject
<1>2. Submitted(o, t) = r
  BY DEF Submitted
<1> HIDE DEF p
<1>3. /\ q \in SessionObjects /\ q.phase = p.phase
      /\ q.activeTurnId = IF t \in p.finishedTurns THEN p.activeTurnId ELSE t
      /\ q.finishedTurns = p.finishedTurns /\ q.turnCommands = p.turnCommands
  BY <1>1, OpenObject
<1> HIDE DEF q
<1>4. /\ r \in SessionObjects /\ r.phase = q.phase /\ r.activeTurnId = q.activeTurnId
      /\ r.submitting = 0 /\ r.pending = 0
      /\ r.finishedTurns = q.finishedTurns /\ r.turnCommands = q.turnCommands
  BY <1>3, CallObject
<1> HIDE DEF r
<1> QED BY <1>1, <1>2, <1>3, <1>4

\* onExit leaves no call and no active turn.
LEMMA ExitObject ==
    ASSUME NEW o \in SessionObjects
    PROVE  LET q == [o EXCEPT !.phase = "exited", !.activeTurnId = 0, !.pending = 0, !.submitting = 0]
           IN  /\ q \in SessionObjects /\ q.phase = "exited" /\ q.submitting = 0 /\ q.pending = 0 /\ q.activeTurnId = 0
               /\ q.finishedTurns = o.finishedTurns /\ q.turnCommands = o.turnCommands
<1> DEFINE p == [o EXCEPT !.phase = "exited"]
           a == [p EXCEPT !.activeTurnId = 0]
           b == [a EXCEPT !.pending = 0]
           q == [b EXCEPT !.submitting = 0]
<1>1. /\ p \in SessionObjects /\ p.phase = "exited"
      /\ p.finishedTurns = o.finishedTurns /\ p.turnCommands = o.turnCommands
  BY DEF SessionObjects, Mapped
<1>2. q = [o EXCEPT !.phase = "exited", !.activeTurnId = 0, !.pending = 0, !.submitting = 0]
  OBVIOUS
<1> HIDE DEF p
<1>3. /\ a \in SessionObjects /\ a.phase = p.phase /\ a.activeTurnId = 0
      /\ a.finishedTurns = p.finishedTurns /\ a.turnCommands = p.turnCommands
  BY <1>1 DEF SessionObjects
<1> HIDE DEF a
<1>4. /\ b \in SessionObjects /\ b.phase = a.phase /\ b.activeTurnId = a.activeTurnId /\ b.pending = 0
      /\ b.finishedTurns = a.finishedTurns /\ b.turnCommands = a.turnCommands
  BY <1>3 DEF SessionObjects
<1> HIDE DEF b
<1>5. /\ q \in SessionObjects /\ q.phase = b.phase /\ q.activeTurnId = b.activeTurnId /\ q.pending = b.pending /\ q.submitting = 0
      /\ q.finishedTurns = b.finishedTurns /\ q.turnCommands = b.turnCommands
  BY <1>4 DEF SessionObjects
<1> HIDE DEF q
<1> QED BY <1>1, <1>2, <1>3, <1>4, <1>5

-----------------------------------------------------------------------------
(* Rows of commands.                                                       *)

CommandRows == [state : CommandStates, home : Starts \cup {0}]

\* A row keeps its session, and one that was dispatched is past the queue.
RowsMove ==
    /\ cmd' \in [Commands -> CommandRows]
    /\ \A c \in Commands :
          /\ cmd'[c].home = cmd[c].home
          /\ cmd'[c].state = "none" <=> cmd[c].state = "none"
          /\ cmd[c].state \notin {"none", "queued"} => cmd'[c].state \notin {"none", "queued"}

\* One row that is not free moves to a state past the queue.
LEMMA OneRow ==
    ASSUME cmd \in [Commands -> CommandRows], NEW c \in Commands, cmd[c].state # "none",
           NEW x \in CommandStates \ {"none", "queued"}, cmd' = [cmd EXCEPT ![c].state = x]
    PROVE  /\ RowsMove
           /\ \A d \in Commands : cmd'[d].state = IF d = c THEN x ELSE cmd[d].state
<1> DEFINE row == [cmd[c] EXCEPT !.state = x]
<1>1. row \in CommandRows /\ row.state = x /\ row.home = cmd[c].home
  BY DEF CommandRows
<1>2. cmd' = [cmd EXCEPT ![c] = row]
  OBVIOUS
<1> HIDE DEF row
<1>3. cmd' \in [Commands -> CommandRows] /\ cmd'[c] = row /\ \A d \in Commands : d # c => cmd'[d] = cmd[d]
  BY <1>1, <1>2
<1> QED BY <1>1, <1>3 DEF RowsMove

\* Rows that are left alone have moved as they may.
LEMMA NoRow ==
    ASSUME cmd \in [Commands -> CommandRows], UNCHANGED cmd
    PROVE  RowsMove
BY DEF RowsMove

\* Nothing but the acknowledgement of a completed turn completes a command.
LEMMA AckMoves ==
    ASSUME cmd \in [Commands -> CommandRows], NEW c \in Commands, cmd[c].state \notin {"none", "queued"},
           NEW x \in {"accepted", "running", "completed", "failed"}, cmd' = acknowledgeFromRuntime(c, x)
    PROVE  /\ RowsMove
           /\ \A d \in Commands : cmd'[d].state = "completed" => cmd[d].state = "completed" \/ (d = c /\ x = "completed")
<1>1. x \in CommandStates \ {"none", "queued"}
  BY DEF CommandStates, Final
<1>2. CASE cmd' = cmd
  BY <1>2, NoRow
<1>3. CASE cmd' = [cmd EXCEPT ![c].state = x]
  <2>1. RowsMove /\ \A d \in Commands : cmd'[d].state = IF d = c THEN x ELSE cmd[d].state
    BY <1>1, <1>3, OneRow
  <2> QED BY <2>1
<1> QED BY <1>2, <1>3 DEF acknowledgeFromRuntime

\* failTransport completes nothing.
LEMMA FailMoves ==
    ASSUME cmd \in [Commands -> CommandRows], NEW c \in Commands, cmd' = failTransport(c, TRUE)
    PROVE  /\ RowsMove
           /\ \A d \in Commands : cmd'[d].state = "completed" => cmd[d].state = "completed"
<1>1. "outcome_unknown" \in CommandStates \ {"none", "queued"}
  BY DEF CommandStates, Final
<1>2. CASE cmd[c].state # "dispatching"
  BY <1>2, NoRow DEF failTransport
<1>3. CASE cmd[c].state = "dispatching"
  <2>1. cmd' = [cmd EXCEPT ![c].state = "outcome_unknown"]
    BY <1>3 DEF failTransport
  <2> QED BY <1>1, <1>3, <2>1, OneRow
<1> QED BY <1>2, <1>3

\* A turn event completes a command only if the turn completed.
LEMMA EventMoves ==
    ASSUME cmd \in [Commands -> CommandRows], NEW c \in Commands \cup {0},
           c # 0 => cmd[c].state \notin {"none", "queued"},
           NEW x \in {"running", "completed", "failed"}, cmd' = onRuntimeEvent(c, x)
    PROVE  /\ RowsMove
           /\ \A d \in Commands : cmd'[d].state = "completed" => cmd[d].state = "completed" \/ (d = c /\ x = "completed")
<1>1. CASE cmd' = cmd
  BY <1>1, NoRow
<1>2. CASE c # 0 /\ cmd' = acknowledgeFromRuntime(c, x)
  BY <1>2, AckMoves
<1> QED BY <1>1, <1>2 DEF onRuntimeEvent

-----------------------------------------------------------------------------
(* The invariant.                                                          *)

\* A session is started once those before it are over, and a child that runs
\* has a session that is not.
InOrder ==
    \A s \in Starts :
        /\ object[s].phase # "none" => \A r \in Starts : r < s => object[r].phase \in {"exited", "gone"}
        /\ process[s] = "up" => object[s].phase \in Handshake \cup {"live", "stopping"}

\* A command belongs to a session that was live; the provider works on a
\* turn while that session's child runs.
Homes ==
    /\ \A c \in Commands :
          /\ cmd[c].state = "none" => cmd[c].home = 0
          /\ cmd[c].state # "none" => cmd[c].home \in Starts
          /\ cmd[c].home \in Starts => object[cmd[c].home].phase \notin Handshake \cup {"none"}
          /\ turn[c] # "none" => cmd[c].state \notin {"none", "queued"}
          /\ c \in expired.call => turn[c] # "none"
          /\ turn[c] \in Working => process[cmd[c].home] = "up"
    /\ recorded # 0 => object[recorded].phase \notin Handshake \cup {"none"}

\* What a frame says is so, and is said to the command's session.
FramesTrue ==
    \A s \in Starts, t \in Commands :
        /\ Frame("error", t) \in wire[s] => cmd[t].home = s /\ turn[t] = "refused"
        /\ Frame("ended", t) \in wire[s] => cmd[t].home = s /\ turn[t] \in Ended
        /\ Frame("answer", t) \in wire[s] \/ Frame("started", t) \in wire[s] =>
              cmd[t].home = s /\ turn[t] \notin {"none", "asked", "refused"}

\* The adapter gave up a call of the session.
GaveUp(s) == \E u \in expired.call : cmd[u].home = s

\* What the adapter keeps of a session is true of it; a turn is taken for
\* another command's only after a call was given up.
ObjectTrue(o, s) ==
    /\ o.submitting = o.pending
    /\ o.pending # 0 =>
          cmd[o.pending].home = s /\ turn[o.pending] # "none" /\ o.pending \notin expired.call
    /\ o.phase \in {"exited", "gone"} => o.pending = 0
    /\ o.activeTurnId # 0 => turn[o.activeTurnId] # "none"
    /\ \A t \in o.finishedTurns : turn[t] \in Ended
    /\ \A t \in Commands :
          o.turnCommands[t] # 0 =>
              /\ cmd[o.turnCommands[t]].home = s /\ turn[o.turnCommands[t]] # "none"
              /\ \/ o.turnCommands[t] = t
                 \/ \E u \in expired.call : u # o.turnCommands[t] /\ cmd[u].home = s

ObjectsTrue == \A s \in Starts : ObjectTrue(object[s], s)

\* As long as no call was given up, the turn that is not over is the one in
\* flight or the active one, and each turn is taken for its own command's.
TrackedBy(o, s) ==
    \A t \in Commands : cmd[t].home = s =>
        /\ turn[t] \notin {"none", "refused"} /\ t \notin o.finishedTurns =>
              o.pending = t \/ (o.activeTurnId = t /\ o.pending = 0)
        /\ t \in o.finishedTurns \/ o.activeTurnId = t => o.turnCommands[t] = t

Tracked ==
    \A s \in Starts : object[s].phase \notin {"exited", "gone"} /\ ~GaveUp(s) => TrackedBy(object[s], s)

CodexInv ==
    /\ CodexTypeOK /\ InOrder /\ Homes /\ FramesTrue /\ ObjectsTrue /\ Tracked
    /\ CompletedIsProven

\* The types that the steps below use.
LEMMA Typed ==
    ASSUME CodexTypeOK
    PROVE  /\ object \in [Starts -> SessionObjects] /\ process \in [Starts -> {"none", "up", "down"}]
           /\ wire \in [Starts -> SUBSET Frames] /\ recorded \in Starts \cup {0}
           /\ cmd \in [Commands -> CommandRows] /\ at \in Commands \cup {0}
           /\ turn \in [Commands -> Ended \cup Working \cup {"none", "refused", "cut"}]
           /\ expired.call \in SUBSET Commands /\ expired.send \in SUBSET Commands
           /\ 0 \notin Commands /\ 0 \notin Starts
BY CodexAssumption DEF CodexTypeOK, CommandRows, Commands, Starts

\* Steps of the coordinator that start and end nothing.
Quiet ==
    /\ RowsMove /\ UNCHANGED <<turn, process, recorded>>
    /\ \A s \in Starts : object'[s].phase = object[s].phase /\ wire'[s] \subseteq wire[s]
    /\ expired.call \subseteq expired'.call /\ \A u \in expired'.call : u \in expired.call \/ turn[u] # "none"

\* A quiet step keeps order, homes and frames.
LEMMA QuietKeeps ==
    ASSUME CodexInv, Quiet
    PROVE  InOrder' /\ Homes' /\ FramesTrue'
<1>1. InOrder /\ Homes /\ FramesTrue /\ CodexTypeOK
  BY DEF CodexInv
<1>2. recorded \in Starts \cup {0}
  BY <1>1, Typed
<1>3. InOrder'
  BY <1>1 DEF InOrder, Quiet
<1>4. Homes'
  <2>1. \A c \in Commands :
          /\ cmd'[c].home = cmd[c].home
          /\ cmd'[c].state = "none" <=> cmd[c].state = "none"
          /\ cmd[c].state \notin {"none", "queued"} => cmd'[c].state \notin {"none", "queued"}
    BY DEF Quiet, RowsMove
  <2>2. recorded' # 0 => object'[recorded'].phase \notin Handshake \cup {"none"}
    BY <1>1, <1>2 DEF Homes, Quiet
  <2>3. ASSUME NEW c \in Commands
        PROVE  /\ cmd'[c].state = "none" => cmd'[c].home = 0
               /\ cmd'[c].state # "none" => cmd'[c].home \in Starts
               /\ cmd'[c].home \in Starts => object'[cmd'[c].home].phase \notin Handshake \cup {"none"}
               /\ turn'[c] # "none" => cmd'[c].state \notin {"none", "queued"}
               /\ c \in expired'.call => turn'[c] # "none"
               /\ turn'[c] \in Working => process'[cmd'[c].home] = "up"
    BY <1>1, <2>1 DEF Homes, Quiet
  <2> QED BY <2>2, <2>3 DEF Homes
<1>5. FramesTrue'
  BY <1>1 DEF FramesTrue, Quiet, RowsMove
<1> QED BY <1>3, <1>4, <1>5

\* A command is completed by the turn's own word, or was before.
LEMMA ProvenKeeps ==
    ASSUME CodexInv, \A c \in Commands : cmd'[c].home = cmd[c].home,
           \A c \in Commands : turn[c] = "completed" => turn'[c] = "completed",
           expired.call \subseteq expired'.call, expired'.call \subseteq Commands,
           \A c \in Commands : cmd'[c].state = "completed" =>
               \/ cmd[c].state = "completed" \/ turn'[c] = "completed"
               \/ \E u \in expired'.call : u # c /\ cmd[u].home = cmd[c].home
    PROVE  CompletedIsProven'
<1>1. CompletedIsProven /\ CodexTypeOK
  BY DEF CodexInv
<1>2. expired.call \subseteq Commands
  BY <1>1, Typed
<1>3. ASSUME NEW c \in Commands, cmd'[c].state = "completed"
      PROVE  turn'[c] = "completed" \/ \E u \in expired'.call : u # c /\ cmd'[u].home = cmd'[c].home
  <2>1. CASE cmd[c].state = "completed"
    BY <1>1, <1>2, <2>1 DEF CompletedIsProven
  <2>2. CASE \E u \in expired'.call : u # c /\ cmd[u].home = cmd[c].home
    <3>1. PICK u \in expired'.call : u # c /\ cmd[u].home = cmd[c].home
      BY <2>2
    <3> QED BY <3>1
  <2> QED BY <1>3, <2>1, <2>2
<1> QED BY <1>3 DEF CompletedIsProven

-----------------------------------------------------------------------------
(* Steps that leave rows, calls and frames alone.                          *)

\* Sessions change their phase, and what a child was working on is cut off.
PhasesMove ==
    /\ UNCHANGED <<cmd, expired>>
    /\ \A s \in Starts :
          /\ SameTurns(object[s], object'[s]) /\ wire'[s] \subseteq wire[s]
          /\ object[s].phase \in {"exited", "gone"} <=> object'[s].phase \in {"exited", "gone"}
    /\ turn' \in [Commands -> Ended \cup Working \cup {"none", "refused", "cut"}]
    /\ \A t \in Commands : turn'[t] = turn[t] \/ (turn[t] \in Working /\ turn'[t] = "cut")

\* A change of phases keeps what is said of frames, objects and commands.
LEMMA PhasesKeep ==
    ASSUME CodexInv, PhasesMove
    PROVE  FramesTrue' /\ ObjectsTrue' /\ Tracked' /\ CompletedIsProven'
<1>1. CodexTypeOK /\ FramesTrue /\ ObjectsTrue /\ Tracked /\ CompletedIsProven
  BY DEF CodexInv
<1>2. /\ object \in [Starts -> SessionObjects] /\ 0 \notin Commands /\ expired.call \in SUBSET Commands
  BY <1>1, Typed
<1>3. \A t \in Commands :
        /\ turn'[t] = "none" <=> turn[t] = "none"
        /\ turn'[t] = "refused" <=> turn[t] = "refused"
        /\ turn'[t] \in Ended <=> turn[t] \in Ended
        /\ turn'[t] = "completed" <=> turn[t] = "completed"
        /\ turn[t] \notin {"none", "asked", "refused"} => turn'[t] \notin {"none", "asked", "refused"}
  BY DEF PhasesMove, Ended, Working
<1>4. FramesTrue'
  BY <1>1, <1>3 DEF FramesTrue, PhasesMove
<1>5. ObjectsTrue'
  <2>1. ASSUME NEW s \in Starts
        PROVE  ObjectTrue(object[s], s)'
    <3>1. ObjectTrue(object[s], s) /\ SameTurns(object[s], object'[s]) /\ UNCHANGED <<cmd, expired>>
      BY <1>1 DEF ObjectsTrue, PhasesMove
    <3>2. /\ object[s].pending \in Commands \cup {0} /\ object[s].activeTurnId \in Commands \cup {0}
          /\ object[s].finishedTurns \subseteq Commands
          /\ \A t \in Commands : object[s].turnCommands[t] \in Commands \cup {0}
      BY <1>2 DEF SessionObjects
    <3>3. object'[s].phase \in {"exited", "gone"} => object[s].phase \in {"exited", "gone"}
      BY DEF PhasesMove
    <3> QED BY <1>3, <3>1, <3>2, <3>3 DEF ObjectTrue, SameTurns
  <2> QED BY <2>1 DEF ObjectsTrue
<1>6. Tracked'
  <2>1. ASSUME NEW s \in Starts, object'[s].phase \notin {"exited", "gone"}, ~GaveUp(s)'
        PROVE  TrackedBy(object[s], s)'
    <3>1. ~GaveUp(s) /\ SameTurns(object[s], object'[s]) /\ UNCHANGED <<cmd, expired>>
      BY <2>1 DEF GaveUp, PhasesMove
    <3>2. TrackedBy(object[s], s)
      BY <1>1, <2>1, <3>1 DEF Tracked, PhasesMove
    <3> QED BY <1>3, <3>1, <3>2 DEF TrackedBy, SameTurns
  <2> QED BY <2>1 DEF Tracked
<1>7. CompletedIsProven'
  BY <1>1, <1>2, <1>3 DEF CompletedIsProven, PhasesMove
<1> QED BY <1>4, <1>5, <1>6, <1>7

\* The other objects are as they were, and the rows of their calls are kept.
LEMMA ObjectKeeps ==
    ASSUME CodexInv, RowsMove, UNCHANGED turn, expired.call \subseteq expired'.call,
           NEW s \in Starts, NEW q \in SessionObjects, object' = [object EXCEPT ![s] = q],
           \A u \in expired'.call : u \in expired.call \/ cmd[u].home = s, expired'.call \subseteq Commands,
           ObjectTrue(q, s)',
           q.phase \notin {"exited", "gone"} /\ ~GaveUp(s)' => TrackedBy(q, s)'
    PROVE  object' \in [Starts -> SessionObjects] /\ ObjectsTrue' /\ Tracked'
<1>1. CodexTypeOK /\ ObjectsTrue /\ Tracked
  BY DEF CodexInv
<1>2. object \in [Starts -> SessionObjects] /\ 0 \notin Commands /\ expired.call \in SUBSET Commands
  BY <1>1, Typed
<1>3. object' \in [Starts -> SessionObjects] /\ object'[s] = q /\ \A r \in Starts : r # s => object'[r] = object[r]
  BY <1>2
<1>4. (\A c \in Commands : cmd'[c].home = cmd[c].home) /\ UNCHANGED turn /\ expired.call \subseteq expired'.call
  BY DEF RowsMove
<1>5. ASSUME NEW r \in Starts
      PROVE  ObjectTrue(object[r], r)'
  <2>1. CASE r = s
    BY <1>3, <2>1
  <2>2. CASE r # s
    <3>1. ObjectTrue(object[r], r)
      BY <1>1 DEF ObjectsTrue
    <3>2. /\ object[r].pending \in Commands \cup {0} /\ object[r].activeTurnId \in Commands \cup {0}
          /\ object[r].finishedTurns \subseteq Commands
          /\ \A t \in Commands : object[r].turnCommands[t] \in Commands \cup {0}
      BY <1>2 DEF SessionObjects
    <3> QED BY <1>2, <1>3, <1>4, <2>2, <3>1, <3>2 DEF ObjectTrue
  <2> QED BY <2>1, <2>2
<1>6. ASSUME NEW r \in Starts, object'[r].phase \notin {"exited", "gone"}, ~GaveUp(r)'
      PROVE  TrackedBy(object[r], r)'
  <2>1. CASE r = s
    BY <1>3, <1>6, <2>1
  <2>2. CASE r # s
    <3>1. ~GaveUp(r)
      BY <1>2, <1>4, <1>6 DEF GaveUp
    <3>2. TrackedBy(object[r], r)
      BY <1>1, <1>3, <1>6, <2>2, <3>1 DEF Tracked
    <3> QED BY <1>3, <1>4, <2>2, <3>2 DEF TrackedBy
  <2> QED BY <2>1, <2>2
<1> QED BY <1>3, <1>5, <1>6 DEF ObjectsTrue, Tracked

-----------------------------------------------------------------------------
(* Sessions start, change phase and end.                                   *)

\* One session that is not over changes its phase to one that is not over.
LEMMA PhaseStep ==
    ASSUME CodexInv, NEW s \in Starts, object[s].phase \notin {"none", "exited", "gone"},
           NEW p \in Handshake \cup {"live", "stopping", "hung"}, object' = [object EXCEPT ![s].phase = p],
           p \in Handshake => object[s].phase \in Handshake,
           process' \in [Starts -> {"none", "up", "down"}], \A r \in Starts : r # s => process'[r] = process[r],
           process'[s] = "up" => p # "hung", process'[s] = process[s] \/ object[s].phase \in Handshake,
           recorded' = recorded \/ (recorded' = s /\ p = "live"), UNCHANGED <<wire, cmd, at, turn, expired>>
    PROVE  CodexInv'
<1> DEFINE q == [object[s] EXCEPT !.phase = p]
<1>1. CodexTypeOK /\ InOrder /\ Homes
  BY DEF CodexInv
<1>2. /\ object \in [Starts -> SessionObjects] /\ recorded \in Starts \cup {0} /\ 0 \notin Starts
      /\ turn \in [Commands -> Ended \cup Working \cup {"none", "refused", "cut"}]
  BY <1>1, Typed
<1>3. q \in SessionObjects /\ q.phase = p /\ SameTurns(object[s], q)
  <2>1. p \in Mapped \cup {"none", "stopping", "hung", "gone"}
    BY DEF Mapped
  <2> QED BY <1>2, <2>1, PhaseObject
<1>4. object' = [object EXCEPT ![s] = q]
  OBVIOUS
<1> HIDE DEF q
<1>5. object' \in [Starts -> SessionObjects] /\ object'[s] = q /\ \A r \in Starts : r # s => object'[r] = object[r]
  BY <1>2, <1>3, <1>4
<1>6. \A r \in Starts : object'[r].phase = IF r = s THEN p ELSE object[r].phase
  BY <1>3, <1>5
<1>7. PhasesMove
  <2>1. \A r \in Starts : SameTurns(object[r], object'[r])
    BY <1>3, <1>5 DEF SameTurns
  <2>2. \A r \in Starts : object[r].phase \in {"exited", "gone"} <=> object'[r].phase \in {"exited", "gone"}
    BY <1>6 DEF Handshake
  <2> QED BY <1>2, <2>1, <2>2 DEF PhasesMove
<1>8. CodexTypeOK'
  BY <1>1, <1>2, <1>5 DEF CodexTypeOK
<1>9. InOrder'
  <2>1. ASSUME NEW r \in Starts
        PROVE  /\ object'[r].phase # "none" => \A x \in Starts : x < r => object'[x].phase \in {"exited", "gone"}
               /\ process'[r] = "up" => object'[r].phase \in Handshake \cup {"live", "stopping"}
    <3>1. \A x \in Starts : object'[x].phase # "none" <=> object[x].phase # "none"
      BY <1>6 DEF Handshake
    <3>2. \A x \in Starts : object[x].phase \in {"exited", "gone"} => object'[x].phase \in {"exited", "gone"}
      BY <1>6
    <3> QED BY <1>1, <1>6, <3>1, <3>2 DEF InOrder
  <2> QED BY <2>1 DEF InOrder
<1>10. Homes'
  <2>1. p # "none" /\ "none" \notin Handshake /\ "live" \notin Handshake
    BY DEF Handshake
  <2>2. recorded' # 0 => object'[recorded'].phase \notin Handshake \cup {"none"}
    BY <1>1, <1>2, <1>6, <2>1 DEF Homes
  <2>3. ASSUME NEW c \in Commands
        PROVE  /\ cmd[c].home \in Starts => object'[cmd[c].home].phase \notin Handshake \cup {"none"}
               /\ turn[c] \in Working => process'[cmd[c].home] = "up"
    <3>1. cmd[c].home \in Starts => object[cmd[c].home].phase \notin Handshake \cup {"none"}
      BY <1>1 DEF Homes
    <3>2. turn[c] \in Working => process[cmd[c].home] = "up" /\ cmd[c].home \in Starts
      BY <1>1 DEF Homes, Working
    <3> QED BY <1>6, <2>1, <3>1, <3>2
  <2> QED BY <1>1, <2>2, <2>3 DEF Homes
<1> QED BY <1>7, <1>8, <1>9, <1>10, PhasesKeep DEF CodexInv

\* SpawnFails, HandshakeCall, recordProviderSession and stop.
LEMMA PhaseSteps ==
    ASSUME CodexInv, NEW s \in Starts, SpawnFails(s) \/ HandshakeCall(s) \/ recordProviderSession(s) \/ stop(s)
    PROVE  CodexInv'
<1>1. CodexTypeOK /\ InOrder
  BY DEF CodexInv
<1>2. process \in [Starts -> {"none", "up", "down"}]
  BY <1>1, Typed
<1>3. "initialize" \in Handshake /\ "account/read" \in Handshake /\ "thread/start" \in Handshake
      /\ \A p \in Handshake \cup {"live"} : p \notin {"none", "exited", "gone", "hung", "stopping"}
  BY DEF Handshake
<1>4. CASE SpawnFails(s)
  <2>1. process' \in [Starts -> {"none", "up", "down"}] /\ process'[s] = "down" /\ \A r \in Starts : r # s => process'[r] = process[r]
    BY <1>2, <1>4 DEF SpawnFails
  <2> QED BY <1>3, <1>4, <2>1, PhaseStep DEF SpawnFails
<1>5. CASE HandshakeCall(s)
  <2>1. CASE object[s].phase = "initialize" /\ object' = [object EXCEPT ![s].phase = "account/read"]
    BY <1>2, <1>3, <1>5, <2>1, PhaseStep DEF HandshakeCall
  <2>2. CASE object[s].phase = "account/read" /\ object' = [object EXCEPT ![s].phase = "thread/start"]
    BY <1>2, <1>3, <1>5, <2>2, PhaseStep DEF HandshakeCall
  <2> QED BY <1>5, <2>1, <2>2 DEF HandshakeCall
<1>6. CASE recordProviderSession(s)
  BY <1>2, <1>3, <1>6, PhaseStep DEF recordProviderSession
<1>7. CASE stop(s)
  BY <1>2, <1>3, <1>7, PhaseStep DEF stop
<1> QED BY <1>4, <1>5, <1>6, <1>7

\* start: no command has this session for its home yet.
LEMMA StartStep ==
    ASSUME CodexInv, NEW s \in Starts, start(s)
    PROVE  CodexInv'
<1>1. CodexTypeOK /\ InOrder /\ Homes /\ FramesTrue /\ CompletedIsProven
  BY DEF CodexInv
<1>2. /\ object \in [Starts -> SessionObjects] /\ process \in [Starts -> {"none", "up", "down"}]
      /\ cmd \in [Commands -> CommandRows] /\ expired.call \in SUBSET Commands
  BY <1>1, Typed
<1>3. UNCHANGED <<wire, recorded, cmd, at, turn, expired>> /\ recorded = 0 /\ object[s].phase = "none"
  BY DEF start
<1>4. /\ object' \in [Starts -> SessionObjects] /\ object'[s] = NewSession /\ \A r \in Starts : r # s => object'[r] = object[r]
      /\ process' \in [Starts -> {"none", "up", "down"}] /\ process'[s] = "up" /\ \A r \in Starts : r # s => process'[r] = process[r]
  BY <1>2, NewObject DEF start
<1>5. \A c \in Commands : cmd[c].home # s
  BY <1>1, <1>3 DEF Homes
<1>6. ObjectsTrue' /\ Tracked'
  <2>1. ObjectTrue(NewSession, s)'
    BY NewObject DEF ObjectTrue
  <2>2. TrackedBy(NewSession, s)'
    BY <1>3, <1>5 DEF TrackedBy
  <2>3. object' = [object EXCEPT ![s] = NewSession]
    BY DEF start
  <2>4. RowsMove
    BY <1>2, <1>3, NoRow
  <2>5. NewSession \in SessionObjects
    BY NewObject
  <2> HIDE DEF start
  <2> QED BY <1>2, <1>3, <2>1, <2>2, <2>3, <2>4, <2>5, ObjectKeeps
<1>7. CodexTypeOK'
  BY <1>1, <1>3, <1>4 DEF CodexTypeOK
<1>8. InOrder'
  <2>1. ASSUME NEW r \in Starts
        PROVE  /\ object'[r].phase # "none" => \A x \in Starts : x < r => object'[x].phase \in {"exited", "gone"}
               /\ process'[r] = "up" => object'[r].phase \in Handshake \cup {"live", "stopping"}
    <3>1. CASE r = s
      <4>1. \A x \in Starts : x < s => x # s
        BY DEF Starts
      <4>2. \A x \in Starts : x < s => object[x].phase \in {"exited", "gone"}
        BY DEF start
      <4> QED BY <1>4, <3>1, <4>1, <4>2, NewObject DEF Handshake
    <3>2. CASE r # s
      <4>1. object[r].phase # "none" => ~(s < r)
        BY <1>1, <1>3 DEF InOrder
      <4> QED BY <1>1, <1>4, <3>2, <4>1 DEF InOrder
    <3> QED BY <3>1, <3>2
  <2> QED BY <2>1 DEF InOrder
<1>9. Homes'
  <2>1. \A c \in Commands : turn[c] \in Working => cmd[c].home \in Starts
    BY <1>1 DEF Homes, Working
  <2> QED BY <1>1, <1>3, <1>4, <1>5, <2>1 DEF Homes
<1>10. FramesTrue' /\ CompletedIsProven'
  BY <1>1, <1>3 DEF FramesTrue, CompletedIsProven
<1> QED BY <1>6, <1>7, <1>8, <1>9, <1>10 DEF CodexInv

\* SessionLost changes the record alone.
LEMMA LostStep ==
    ASSUME CodexInv, NEW s \in Starts, SessionLost(s)
    PROVE  CodexInv'
<1>1. CodexTypeOK /\ InOrder /\ Homes /\ FramesTrue /\ ObjectsTrue /\ Tracked /\ CompletedIsProven
  BY DEF CodexInv
<1>2. recorded' = 0 /\ UNCHANGED <<object, process, wire, cmd, at, turn, expired>>
  BY DEF SessionLost
<1>3. CodexTypeOK' /\ InOrder' /\ Homes'
  BY <1>1, <1>2 DEF CodexTypeOK, InOrder, Homes
<1>4. FramesTrue' /\ CompletedIsProven'
  BY <1>1, <1>2 DEF FramesTrue, CompletedIsProven
<1>5. ObjectsTrue' /\ Tracked'
  BY <1>1, <1>2 DEF ObjectsTrue, ObjectTrue, Tracked, TrackedBy, GaveUp
<1> QED BY <1>3, <1>4, <1>5 DEF CodexInv

\* ProcessEnds cuts off the turns of its own session alone.
LEMMA ProcessStep ==
    ASSUME CodexInv, NEW s \in Starts, ProcessEnds(s)
    PROVE  CodexInv'
<1>1. CodexTypeOK /\ InOrder /\ Homes
  BY DEF CodexInv
<1>2. /\ process \in [Starts -> {"none", "up", "down"}]
      /\ turn \in [Commands -> Ended \cup Working \cup {"none", "refused", "cut"}]
  BY <1>1, Typed
<1>3. UNCHANGED <<object, wire, recorded, cmd, at, expired>>
  BY DEF ProcessEnds
<1>4. process' \in [Starts -> {"none", "up", "down"}] /\ process'[s] = "down" /\ \A r \in Starts : r # s => process'[r] = process[r]
  BY <1>2 DEF ProcessEnds
<1>5. /\ turn' \in [Commands -> Ended \cup Working \cup {"none", "refused", "cut"}]
      /\ \A t \in Commands : turn'[t] = IF cmd[t].home = s /\ turn[t] \in Working THEN "cut" ELSE turn[t]
  BY <1>2 DEF ProcessEnds
<1>6. CodexTypeOK'
  BY <1>1, <1>3, <1>4, <1>5 DEF CodexTypeOK
<1>7. InOrder'
  BY <1>1, <1>3, <1>4 DEF InOrder
<1>8. Homes'
  <2>1. \A t \in Commands : /\ turn'[t] # "none" <=> turn[t] # "none"
                            /\ turn'[t] \in Working => turn[t] \in Working /\ cmd[t].home # s
    BY <1>5 DEF Working
  <2>2. \A c \in Commands : turn[c] \in Working => cmd[c].home \in Starts
    BY <1>1 DEF Homes, Working
  <2> QED BY <1>1, <1>3, <1>4, <2>1, <2>2 DEF Homes
<1>9. PhasesMove
  BY <1>3, <1>5 DEF PhasesMove, SameTurns
<1> QED BY <1>6, <1>7, <1>8, <1>9, PhasesKeep DEF CodexInv

\* onExit ends the call in flight, and the send that waits for it.
LEMMA ExitStep ==
    ASSUME CodexInv, NEW s \in Starts, onExit(s)
    PROVE  CodexInv'
<1> DEFINE c == object[s].pending
<1>1. CodexTypeOK /\ InOrder /\ Homes /\ FramesTrue /\ ObjectsTrue
  BY DEF CodexInv
<1>2. /\ object \in [Starts -> SessionObjects] /\ cmd \in [Commands -> CommandRows] /\ at \in Commands \cup {0}
      /\ expired.call \in SUBSET Commands /\ 0 \notin Commands /\ recorded \in Starts \cup {0} /\ c \in Commands \cup {0}
  BY <1>1, Typed DEF SessionObjects
<1>0. PICK q \in SessionObjects :
        q = [object[s] EXCEPT !.phase = "exited", !.activeTurnId = 0, !.pending = 0, !.submitting = 0]
  <2>1. [object[s] EXCEPT !.phase = "exited", !.activeTurnId = 0, !.pending = 0, !.submitting = 0] \in SessionObjects
    BY <1>2, ExitObject
  <2> QED BY <2>1
<1>3. UNCHANGED <<process, wire, recorded, turn, expired>> /\ process[s] = "down" /\ object' = [object EXCEPT ![s] = q]
  BY <1>0 DEF onExit
<1>4. /\ RowsMove /\ at' \in Commands \cup {0}
      /\ \A d \in Commands : cmd'[d].state = "completed" => cmd[d].state = "completed"
  <2>1. CASE c # 0 /\ at = c
    <3>1. cmd' = failTransport(c, TRUE) /\ at' = 0
      BY <2>1 DEF onExit
    <3> QED BY <1>2, <2>1, <3>1, FailMoves
  <2>2. CASE ~(c # 0 /\ at = c)
    <3>1. UNCHANGED <<cmd, at>>
      BY <2>2 DEF onExit
    <3> QED BY <1>2, <3>1, NoRow
  <2> QED BY <2>1, <2>2
<1>5. /\ q \in SessionObjects /\ q.phase = "exited" /\ q.submitting = 0 /\ q.pending = 0 /\ q.activeTurnId = 0
      /\ q.finishedTurns = object[s].finishedTurns /\ q.turnCommands = object[s].turnCommands
  BY <1>0, <1>2, ExitObject
<1>6. \A d \in Commands : /\ cmd'[d].home = cmd[d].home
                          /\ cmd'[d].state = "none" <=> cmd[d].state = "none"
                          /\ cmd[d].state \notin {"none", "queued"} => cmd'[d].state \notin {"none", "queued"}
  BY <1>4 DEF RowsMove
<1>7. ObjectTrue(q, s)'
  <2>1. ObjectTrue(object[s], s)
    BY <1>1 DEF ObjectsTrue
  <2>2. /\ object[s].finishedTurns \subseteq Commands
        /\ \A t \in Commands : object[s].turnCommands[t] \in Commands \cup {0}
    BY <1>2 DEF SessionObjects
  <2> QED BY <1>2, <1>3, <1>5, <1>6, <2>1, <2>2 DEF ObjectTrue
<1> HIDE DEF c
<1>8. object' \in [Starts -> SessionObjects] /\ ObjectsTrue' /\ Tracked'
  BY <1>2, <1>3, <1>4, <1>5, <1>7, ObjectKeeps
<1>9. \A r \in Starts : object'[r].phase = IF r = s THEN "exited" ELSE object[r].phase
  BY <1>2, <1>3, <1>5
<1>10. CodexTypeOK'
  BY <1>1, <1>3, <1>4, <1>8 DEF CodexTypeOK, RowsMove, CommandRows
<1>11. InOrder'
  <2>1. object[s].phase # "none"
    BY DEF onExit, Handshake
  <2> QED BY <1>1, <1>3, <1>9, <2>1 DEF InOrder
<1>12. Homes'
  <2>1. "exited" \notin Handshake
    BY DEF Handshake
  <2> QED BY <1>1, <1>2, <1>3, <1>6, <1>9, <2>1 DEF Homes
<1>13. FramesTrue'
  BY <1>1, <1>3, <1>6 DEF FramesTrue
<1>14. CompletedIsProven'
  BY <1>2, <1>3, <1>4, <1>6, ProvenKeeps
<1> QED BY <1>8, <1>10, <1>11, <1>12, <1>13, <1>14 DEF CodexInv

\* Crash: every child ends and every frame is lost.
LEMMA CodexCrash ==
    ASSUME CodexInv, Crash
    PROVE  CodexInv'
<1> DEFINE lost == [NewSession EXCEPT !.phase = "gone"]
<1>1. CodexTypeOK /\ InOrder /\ Homes /\ FramesTrue /\ ObjectsTrue /\ CompletedIsProven
  BY DEF CodexInv
<1>2. /\ object \in [Starts -> SessionObjects] /\ process \in [Starts -> {"none", "up", "down"}]
      /\ turn \in [Commands -> Ended \cup Working \cup {"none", "refused", "cut"}]
      /\ expired.call \in SUBSET Commands /\ 0 \notin Commands
  BY <1>1, Typed
<1>3. UNCHANGED <<cmd, expired>> /\ recorded' = 0 /\ at' = 0 /\ wire' \in [Starts -> SUBSET Frames]
      /\ \A s \in Starts : wire'[s] = {}
  BY DEF Crash
<1>4. /\ lost \in SessionObjects /\ lost.phase = "gone" /\ SameTurns(NewSession, lost)
  BY NewObject, PhaseObject
<1>5. object' = [s \in Starts |-> IF object[s].phase = "none" THEN object[s] ELSE lost]
  BY DEF Crash
<1> HIDE DEF lost
<1>6. /\ object' \in [Starts -> SessionObjects]
      /\ \A s \in Starts : object'[s] = IF object[s].phase = "none" THEN object[s] ELSE lost
  BY <1>2, <1>4, <1>5
<1>7. process' \in [Starts -> {"none", "up", "down"}] /\ \A s \in Starts : process'[s] # "up"
  BY <1>2 DEF Crash
<1>8. /\ turn' \in [Commands -> Ended \cup Working \cup {"none", "refused", "cut"}]
      /\ \A t \in Commands : /\ turn'[t] \notin Working /\ (turn'[t] # "none" <=> turn[t] # "none")
                             /\ turn[t] \in Ended => turn'[t] \in Ended
                             /\ turn[t] = "completed" => turn'[t] = "completed"
  BY <1>2 DEF Crash, Working, Ended
<1>9. CodexTypeOK'
  BY <1>1, <1>3, <1>6, <1>7, <1>8 DEF CodexTypeOK
<1>10. InOrder'
  BY <1>1, <1>4, <1>6, <1>7 DEF InOrder
<1>11. Homes'
  <2>1. "gone" \notin Handshake \cup {"none"}
    BY DEF Handshake
  <2>2. \A s \in Starts : object[s].phase \notin Handshake \cup {"none"} => object'[s].phase = "gone"
    BY <1>4, <1>6
  <2>3. \A t \in Commands : turn'[t] \notin Working /\ (turn'[t] # "none" <=> turn[t] # "none")
    BY <1>8
  <2> QED BY <1>1, <1>3, <2>1, <2>2, <2>3 DEF Homes
<1>12. FramesTrue'
  BY <1>3 DEF FramesTrue
<1>13. ObjectsTrue'
  <2>1. ASSUME NEW s \in Starts
        PROVE  ObjectTrue(object[s], s)'
    <3>1. CASE object[s].phase = "none"
      <4>1. ObjectTrue(object[s], s) /\ object'[s] = object[s]
        BY <1>1, <1>6, <3>1 DEF ObjectsTrue
      <4>2. /\ object[s].pending \in Commands \cup {0} /\ object[s].activeTurnId \in Commands \cup {0}
            /\ object[s].finishedTurns \subseteq Commands
            /\ \A t \in Commands : object[s].turnCommands[t] \in Commands \cup {0}
        BY <1>2 DEF SessionObjects
      <4>3. \A t \in Commands : /\ turn[t] # "none" => turn'[t] # "none"
                                /\ turn[t] \in Ended => turn'[t] \in Ended
        BY <1>8
      <4>4. UNCHANGED <<cmd, expired>>
        BY <1>3
      <4> QED BY <4>1, <4>2, <4>3, <4>4 DEF ObjectTrue
    <3>2. CASE object[s].phase # "none"
      <4>1. object'[s] = lost
        BY <1>6, <3>2
      <4> QED BY <1>4, <4>1, NewObject DEF ObjectTrue, SameTurns
    <3> QED BY <3>1, <3>2
  <2> QED BY <2>1 DEF ObjectsTrue
<1>14. Tracked'
  <2>1. ASSUME NEW s \in Starts, object'[s].phase \notin {"exited", "gone"}
        PROVE  TrackedBy(object[s], s)'
    <3>1. object[s].phase = "none"
      BY <1>4, <1>6, <2>1
    <3>2. \A t \in Commands : cmd'[t].home # s
      BY <1>1, <1>3, <3>1 DEF Homes
    <3> QED BY <3>2 DEF TrackedBy
  <2> QED BY <2>1 DEF Tracked
<1>15. CompletedIsProven'
  <2>1. \A t \in Commands : turn[t] = "completed" => turn'[t] = "completed"
    BY <1>8
  <2> QED BY <1>1, <1>3, <2>1 DEF CompletedIsProven
<1> QED BY <1>9, <1>10, <1>11, <1>12, <1>13, <1>14, <1>15 DEF CodexInv

-----------------------------------------------------------------------------
(* Commands.                                                               *)

\* Rows move and the objects stay as they are.
LEMMA ObjectsStay ==
    ASSUME CodexInv, RowsMove, UNCHANGED <<object, turn>>, expired'.call = expired.call
    PROVE  ObjectsTrue' /\ Tracked'
<1>1. CodexTypeOK /\ ObjectsTrue /\ Tracked
  BY DEF CodexInv
<1>2. object \in [Starts -> SessionObjects] /\ 0 \notin Commands /\ expired.call \in SUBSET Commands
  BY <1>1, Typed
<1>3. \A c \in Commands : cmd'[c].home = cmd[c].home
  BY DEF RowsMove
<1>4. ASSUME NEW s \in Starts
      PROVE  ObjectTrue(object[s], s)'
  <2>1. ObjectTrue(object[s], s)
    BY <1>1 DEF ObjectsTrue
  <2>2. /\ object[s].pending \in Commands \cup {0} /\ object[s].activeTurnId \in Commands \cup {0}
        /\ object[s].finishedTurns \subseteq Commands
        /\ \A t \in Commands : object[s].turnCommands[t] \in Commands \cup {0}
    BY <1>2 DEF SessionObjects
  <2> QED BY <1>2, <1>3, <2>1, <2>2 DEF ObjectTrue
<1>5. ASSUME NEW s \in Starts, object'[s].phase \notin {"exited", "gone"}, ~GaveUp(s)'
      PROVE  TrackedBy(object[s], s)'
  <2>1. ~GaveUp(s)
    BY <1>2, <1>3, <1>5 DEF GaveUp
  <2>2. TrackedBy(object[s], s)
    BY <1>1, <1>5, <2>1 DEF Tracked
  <2> QED BY <1>3, <2>2 DEF TrackedBy
<1> QED BY <1>4, <1>5 DEF ObjectsTrue, Tracked

\* A quiet step keeps the invariant if it keeps what is said of objects.
LEMMA QuietStep ==
    ASSUME CodexInv, Quiet, object' \in [Starts -> SessionObjects], wire' \in [Starts -> SUBSET Frames],
           at' \in Commands \cup {0}, expired' \in [call : SUBSET Commands, send : SUBSET Commands],
           ObjectsTrue', Tracked', CompletedIsProven'
    PROVE  CodexInv'
<1>1. CodexTypeOK
  BY DEF CodexInv
<1>2. CodexTypeOK'
  BY <1>1 DEF CodexTypeOK, Quiet, RowsMove, CommandRows
<1> QED BY <1>2, QuietKeeps DEF CodexInv

\* SendExpires changes a row alone.
LEMMA SendStep ==
    ASSUME CodexInv, SendExpires
    PROVE  CodexInv'
<1>1. CodexTypeOK
  BY DEF CodexInv
<1>2. /\ object \in [Starts -> SessionObjects] /\ wire \in [Starts -> SUBSET Frames] /\ cmd \in [Commands -> CommandRows]
      /\ at \in Commands \cup {0} /\ expired.call \in SUBSET Commands /\ expired.send \in SUBSET Commands
      /\ expired \in [call : SUBSET Commands, send : SUBSET Commands]
  BY <1>1, Typed DEF CodexTypeOK
<1>3. at \in Commands /\ cmd' = failTransport(at, TRUE) /\ at' = 0 /\ UNCHANGED <<object, process, wire, recorded, turn>>
  BY <1>2 DEF SendExpires
<1>4. expired' \in [call : SUBSET Commands, send : SUBSET Commands] /\ expired'.call = expired.call
  <2>1. expired' = [expired EXCEPT !.send = expired.send \cup {at}]
    BY DEF SendExpires
  <2> QED BY <1>2, <1>3, <2>1
<1>5. RowsMove /\ \A d \in Commands : cmd'[d].state = "completed" => cmd[d].state = "completed"
  BY <1>2, <1>3, FailMoves
<1>6. Quiet
  BY <1>3, <1>4, <1>5 DEF Quiet
<1>7. ObjectsTrue' /\ Tracked'
  BY <1>3, <1>4, <1>5, ObjectsStay
<1>8. CompletedIsProven'
  BY <1>2, <1>3, <1>4, <1>5, ProvenKeeps DEF RowsMove
<1> QED BY <1>2, <1>3, <1>4, <1>6, <1>7, <1>8, QuietStep

\* CallExpires: from now on a call of the session was given up.
LEMMA CallStep ==
    ASSUME CodexInv, NEW s \in Starts, CallExpires(s)
    PROVE  CodexInv'
<1>1. CodexTypeOK /\ ObjectsTrue
  BY DEF CodexInv
<1>2. /\ object \in [Starts -> SessionObjects] /\ wire \in [Starts -> SUBSET Frames] /\ cmd \in [Commands -> CommandRows]
      /\ at \in Commands \cup {0} /\ expired.call \in SUBSET Commands /\ expired.send \in SUBSET Commands
      /\ expired \in [call : SUBSET Commands, send : SUBSET Commands] /\ 0 \notin Commands
  BY <1>1, Typed DEF CodexTypeOK
<1>3. PICK c \in Commands : c = object[s].pending
  BY <1>2 DEF CallExpires, SessionObjects
<1>4. UNCHANGED <<process, wire, recorded, turn>>
  BY DEF CallExpires
<1>5. expired' \in [call : SUBSET Commands, send : SUBSET Commands] /\ expired'.call = expired.call \cup {c}
  <2>1. expired' = [expired EXCEPT !.call = expired.call \cup {c}]
    BY <1>3 DEF CallExpires
  <2> QED BY <1>2, <2>1
<1>6. PICK q \in SessionObjects : q = [object[s] EXCEPT !.submitting = 0, !.pending = 0]
  <2>1. [object[s] EXCEPT !.submitting = 0, !.pending = 0] \in SessionObjects
    BY <1>2, CallObject
  <2> QED BY <2>1
<1>7. /\ q.phase = object[s].phase /\ q.activeTurnId = object[s].activeTurnId /\ q.submitting = 0 /\ q.pending = 0
      /\ q.finishedTurns = object[s].finishedTurns /\ q.turnCommands = object[s].turnCommands
      /\ q = [object[s] EXCEPT !.pending = 0, !.submitting = 0]
  <2>1. object[s] \in SessionObjects
    BY <1>2
  <2>2. [object[s] EXCEPT !.submitting = 0, !.pending = 0] = [object[s] EXCEPT !.pending = 0, !.submitting = 0]
    BY <2>1, CallObject
  <2>3. /\ q.phase = object[s].phase /\ q.activeTurnId = object[s].activeTurnId /\ q.submitting = 0 /\ q.pending = 0
        /\ q.finishedTurns = object[s].finishedTurns /\ q.turnCommands = object[s].turnCommands
    BY <1>6, <2>1, CallObject
  <2> QED BY <1>6, <2>2, <2>3
<1>8. object' = [object EXCEPT ![s] = q]
  <2>1. object' = [object EXCEPT ![s] = [object[s] EXCEPT !.pending = 0, !.submitting = 0]]
    BY <1>2 DEF CallExpires
  <2> QED BY <1>7, <2>1
<1>9. /\ RowsMove /\ at' \in Commands \cup {0}
      /\ \A d \in Commands : cmd'[d].state = "completed" => cmd[d].state = "completed"
  <2>1. CASE at = c
    <3>1. cmd' = failTransport(c, TRUE) /\ at' = 0
      BY <1>3, <2>1 DEF CallExpires
    <3> QED BY <1>2, <3>1, FailMoves
  <2>2. CASE at # c
    <3>1. UNCHANGED <<cmd, at>>
      BY <1>3, <2>2 DEF CallExpires
    <3> QED BY <1>2, <3>1, NoRow
  <2> QED BY <2>1, <2>2
<1>10. \A d \in Commands : cmd'[d].home = cmd[d].home
  BY <1>9 DEF RowsMove
<1>11. ObjectTrue(object[s], s)
  BY <1>1 DEF ObjectsTrue
<1>12. cmd[c].home = s /\ turn[c] # "none"
  BY <1>2, <1>3, <1>11 DEF ObjectTrue
<1>13. ObjectTrue(q, s)'
  <2>1. /\ object[s].finishedTurns \subseteq Commands
        /\ \A t \in Commands : object[s].turnCommands[t] \in Commands \cup {0}
    BY <1>2 DEF SessionObjects
  <2> QED BY <1>2, <1>4, <1>5, <1>7, <1>10, <1>11, <2>1 DEF ObjectTrue
<1>14. GaveUp(s)'
  BY <1>5, <1>10, <1>12 DEF GaveUp
<1>15. /\ expired.call \subseteq expired'.call /\ expired'.call \subseteq Commands
       /\ \A u \in expired'.call : u \in expired.call \/ cmd[u].home = s
  BY <1>2, <1>5, <1>12
<1>16. object' \in [Starts -> SessionObjects] /\ ObjectsTrue' /\ Tracked'
  BY <1>4, <1>8, <1>9, <1>13, <1>14, <1>15, ObjectKeeps
<1>17. Quiet
  <2>1. \A r \in Starts : object'[r].phase = object[r].phase
    BY <1>2, <1>7, <1>8
  <2> QED BY <1>4, <1>5, <1>9, <1>12, <2>1 DEF Quiet
<1>18. CompletedIsProven'
  BY <1>2, <1>4, <1>9, <1>10, <1>15, ProvenKeeps
<1> QED BY <1>2, <1>4, <1>5, <1>9, <1>16, <1>17, <1>18, QuietStep

\* reconcileCommands changes a row alone.
LEMMA ReconcileStep ==
    ASSUME CodexInv, NEW c \in Commands, reconcileCommands(c)
    PROVE  CodexInv'
<1>1. CodexTypeOK
  BY DEF CodexInv
<1>2. /\ object \in [Starts -> SessionObjects] /\ wire \in [Starts -> SUBSET Frames] /\ cmd \in [Commands -> CommandRows]
      /\ at \in Commands \cup {0} /\ expired.call \in SUBSET Commands
      /\ expired \in [call : SUBSET Commands, send : SUBSET Commands]
  BY <1>1, Typed DEF CodexTypeOK
<1>3. UNCHANGED <<object, process, wire, recorded, at, turn, expired>> /\ cmd[c].state # "none"
  BY DEF reconcileCommands
<1>4. PICK x \in {"failed", "outcome_unknown"} : cmd' = [cmd EXCEPT ![c].state = x]
  BY DEF reconcileCommands
<1>5. RowsMove /\ \A d \in Commands : cmd'[d].state = IF d = c THEN x ELSE cmd[d].state
  <2>1. x \in CommandStates \ {"none", "queued"}
    BY <1>4 DEF CommandStates, Final
  <2> QED BY <1>2, <1>3, <1>4, <2>1, OneRow
<1>6. Quiet
  BY <1>3, <1>5 DEF Quiet
<1>7. ObjectsTrue' /\ Tracked'
  BY <1>3, <1>5, ObjectsStay
<1>8. \A d \in Commands : cmd'[d].state = "completed" => cmd[d].state = "completed"
  BY <1>4, <1>5
<1>9. CompletedIsProven'
  BY <1>2, <1>3, <1>5, <1>8, ProvenKeeps DEF RowsMove
<1> QED BY <1>2, <1>3, <1>6, <1>7, <1>9, QuietStep

\* deliverStructured: a new command has no turn, no frame and no call.
LEMMA DeliverStep ==
    ASSUME CodexInv, NEW c \in Commands, deliverStructured(c)
    PROVE  CodexInv'
<1>1. CodexTypeOK /\ InOrder /\ Homes /\ FramesTrue /\ ObjectsTrue /\ Tracked /\ CompletedIsProven
  BY DEF CodexInv
<1>2. /\ object \in [Starts -> SessionObjects] /\ cmd \in [Commands -> CommandRows] /\ recorded \in Starts \cup {0}
      /\ expired.call \in SUBSET Commands /\ 0 \notin Commands /\ 0 \notin Starts
  BY <1>1, Typed
<1>3. UNCHANGED <<object, process, wire, recorded, at, turn, expired>> /\ recorded \in Starts
  BY <1>2 DEF deliverStructured
<1>4. turn[c] = "none" /\ c \notin expired.call
  BY <1>1 DEF Homes, deliverStructured
<1>5. PICK row \in CommandRows : row = [state |-> "queued", home |-> recorded]
  <2>1. [state |-> "queued", home |-> recorded] \in CommandRows
    BY <1>3 DEF CommandRows, CommandStates
  <2> QED BY <2>1
<1>6. row.state = "queued" /\ row.home = recorded
  BY <1>5
<1>7. cmd' \in [Commands -> CommandRows] /\ cmd'[c] = row /\ \A d \in Commands : d # c => cmd'[d] = cmd[d]
  BY <1>2, <1>5 DEF deliverStructured
<1>8. CodexTypeOK'
  BY <1>1, <1>3, <1>7 DEF CodexTypeOK, CommandRows
<1>9. InOrder'
  BY <1>1, <1>3 DEF InOrder
<1>10. Homes'
  <2>1. recorded' # 0 => object'[recorded'].phase \notin Handshake \cup {"none"}
    BY <1>1, <1>3 DEF Homes
  <2>2. ASSUME NEW d \in Commands
        PROVE  /\ cmd'[d].state = "none" => cmd'[d].home = 0
               /\ cmd'[d].state # "none" => cmd'[d].home \in Starts
               /\ cmd'[d].home \in Starts => object'[cmd'[d].home].phase \notin Handshake \cup {"none"}
               /\ turn'[d] # "none" => cmd'[d].state \notin {"none", "queued"}
               /\ d \in expired'.call => turn'[d] # "none"
               /\ turn'[d] \in Working => process'[cmd'[d].home] = "up"
    <3>1. CASE d = c
      BY <1>2, <1>3, <1>4, <1>6, <1>7, <2>1, <3>1 DEF Working
    <3>2. CASE d # c
      BY <1>1, <1>3, <1>7, <3>2 DEF Homes
    <3> QED BY <3>1, <3>2
  <2> QED BY <2>1, <2>2 DEF Homes
<1>11. FramesTrue'
  BY <1>1, <1>3, <1>4, <1>7 DEF FramesTrue, Ended
<1>12. \A s \in Starts : GaveUp(s)' <=> GaveUp(s)
  BY <1>2, <1>3, <1>4, <1>7 DEF GaveUp
<1>13. ObjectsTrue'
  <2>1. ASSUME NEW s \in Starts
        PROVE  ObjectTrue(object[s], s)'
    <3>1. ObjectTrue(object[s], s) /\ object'[s] = object[s]
      BY <1>1, <1>3 DEF ObjectsTrue
    <3>2. /\ object[s].pending \in Commands \cup {0} /\ object[s].activeTurnId \in Commands \cup {0}
          /\ object[s].finishedTurns \subseteq Commands
          /\ \A t \in Commands : object[s].turnCommands[t] \in Commands \cup {0}
      BY <1>2 DEF SessionObjects
    <3> QED BY <1>2, <1>3, <1>4, <1>7, <3>1, <3>2 DEF ObjectTrue
  <2> QED BY <2>1 DEF ObjectsTrue
<1>14. Tracked'
  <2>1. ASSUME NEW s \in Starts, object'[s].phase \notin {"exited", "gone"}, ~GaveUp(s)'
        PROVE  TrackedBy(object[s], s)'
    <3>1. TrackedBy(object[s], s) /\ ObjectTrue(object[s], s) /\ object'[s] = object[s]
      BY <1>1, <1>3, <1>12, <2>1 DEF Tracked, ObjectsTrue
    <3>2. c \notin object[s].finishedTurns /\ object[s].activeTurnId # c
      BY <1>2, <1>4, <3>1 DEF ObjectTrue, Ended
    <3> QED BY <1>3, <1>4, <1>7, <3>1, <3>2 DEF TrackedBy
  <2> QED BY <2>1 DEF Tracked
<1>15. CompletedIsProven'
  <2>1. ASSUME NEW d \in Commands, cmd'[d].state = "completed"
        PROVE  turn'[d] = "completed" \/ \E t \in expired'.call : t # d /\ cmd'[t].home = cmd'[d].home
    <3>1. d # c /\ cmd'[d] = cmd[d] /\ \A u \in expired.call : cmd'[u] = cmd[u]
      BY <1>2, <1>4, <1>6, <1>7, <2>1
    <3> QED BY <1>1, <1>3, <2>1, <3>1 DEF CompletedIsProven
  <2> QED BY <2>1 DEF CompletedIsProven
<1> QED BY <1>8, <1>9, <1>10, <1>11, <1>13, <1>14, <1>15 DEF CodexInv

\* A command of a live session with no turn active: nothing that the session
\* tracks is unfinished.
LEMMA SubmitStep ==
    ASSUME CodexInv, NEW c \in Commands, NEW s \in Starts, cmd[c].home = s, cmd[c].state = "queued",
           object[s].phase = "live", ~turnActive(object[s]), cmd' = [cmd EXCEPT ![c].state = "dispatching"],
           at' = c, submit(s, c), UNCHANGED <<process, wire, recorded, expired>>
    PROVE  CodexInv'
<1>1. CodexTypeOK /\ InOrder /\ Homes /\ FramesTrue /\ ObjectsTrue /\ Tracked
  BY DEF CodexInv
<1>2. /\ object \in [Starts -> SessionObjects] /\ cmd \in [Commands -> CommandRows] /\ recorded \in Starts \cup {0}
      /\ turn \in [Commands -> Ended \cup Working \cup {"none", "refused", "cut"}]
      /\ expired.call \in SUBSET Commands /\ 0 \notin Commands /\ 0 \notin Starts
  BY <1>1, Typed
<1>3. turn[c] = "none" /\ c \notin expired.call
  BY <1>1 DEF Homes
<1>4. object[s].activeTurnId = 0 /\ object[s].submitting = 0 /\ object[s].pending = 0
  <2>1. ObjectTrue(object[s], s)
    BY <1>1 DEF ObjectsTrue
  <2> QED BY <2>1 DEF turnActive, ObjectTrue
<1>5. PICK q \in SessionObjects : q = [object[s] EXCEPT !.submitting = c, !.pending = c]
  <2>1. [object[s] EXCEPT !.submitting = c, !.pending = c] \in SessionObjects
    BY <1>2, CallObject
  <2> QED BY <2>1
<1>6. /\ q.phase = "live" /\ q.activeTurnId = 0 /\ q.submitting = c /\ q.pending = c
      /\ q.finishedTurns = object[s].finishedTurns /\ q.turnCommands = object[s].turnCommands
  <2>1. object[s] \in SessionObjects
    BY <1>2
  <2> QED BY <1>4, <1>5, <2>1, CallObject
<1>7. object' \in [Starts -> SessionObjects] /\ object'[s] = q /\ \A r \in Starts : r # s => object'[r] = object[r]
  <2>1. object' = [object EXCEPT ![s] = [object[s] EXCEPT !.submitting = c, !.pending = c]]
    BY <1>2 DEF submit
  <2> QED BY <1>2, <1>5, <2>1
<1>8. /\ turn' \in [Commands -> Ended \cup Working \cup {"none", "refused", "cut"}]
      /\ turn'[c] = IF process[s] = "up" THEN "asked" ELSE "cut"
      /\ \A d \in Commands : d # c => turn'[d] = turn[d]
  BY <1>2 DEF submit, Working
<1>9. turn'[c] \in {"asked", "cut"} /\ (turn'[c] \in Working => process[s] = "up")
  BY <1>8 DEF Working
<1>10. RowsMove /\ \A d \in Commands : cmd'[d].state = IF d = c THEN "dispatching" ELSE cmd[d].state
  <2>1. "dispatching" \in CommandStates \ {"none", "queued"}
    BY DEF CommandStates, Final
  <2> QED BY <1>2, <2>1, OneRow
<1>11. \A d \in Commands : cmd'[d].home = cmd[d].home
  BY <1>10 DEF RowsMove
<1>12. \A d \in Commands : turn[d] # "none" => d # c /\ turn'[d] = turn[d]
  BY <1>3, <1>8
<1>13. CodexTypeOK'
  BY <1>1, <1>7, <1>8, <1>10 DEF CodexTypeOK, RowsMove, CommandRows
<1>14. \A r \in Starts : object'[r].phase = object[r].phase
  BY <1>6, <1>7
<1>15. InOrder'
  BY <1>1, <1>14 DEF InOrder
<1>16. Homes'
  <2>1. recorded' # 0 => object'[recorded'].phase \notin Handshake \cup {"none"}
    BY <1>1, <1>2, <1>14 DEF Homes
  <2>2. ASSUME NEW d \in Commands
        PROVE  /\ cmd'[d].state = "none" => cmd'[d].home = 0
               /\ cmd'[d].state # "none" => cmd'[d].home \in Starts
               /\ cmd'[d].home \in Starts => object'[cmd'[d].home].phase \notin Handshake \cup {"none"}
               /\ turn'[d] # "none" => cmd'[d].state \notin {"none", "queued"}
               /\ d \in expired'.call => turn'[d] # "none"
               /\ turn'[d] \in Working => process'[cmd'[d].home] = "up"
    <3>1. CASE d = c
      BY <1>1, <1>9, <1>10, <1>11, <1>14, <3>1 DEF Homes
    <3>2. CASE d # c
      BY <1>1, <1>8, <1>10, <1>11, <1>14, <3>2 DEF Homes
    <3> QED BY <3>1, <3>2
  <2> QED BY <2>1, <2>2 DEF Homes
<1>17. FramesTrue'
  BY <1>1, <1>11, <1>12 DEF FramesTrue, Ended
<1>18. \A r \in Starts : GaveUp(r)' <=> GaveUp(r)
  BY <1>2, <1>11 DEF GaveUp
<1>19. ObjectsTrue'
  <2>1. ASSUME NEW r \in Starts
        PROVE  ObjectTrue(object[r], r)'
    <3>1. ObjectTrue(object[r], r)
      BY <1>1 DEF ObjectsTrue
    <3>2. /\ object[r].pending \in Commands \cup {0} /\ object[r].activeTurnId \in Commands \cup {0}
          /\ object[r].finishedTurns \subseteq Commands
          /\ \A t \in Commands : object[r].turnCommands[t] \in Commands \cup {0}
      BY <1>2 DEF SessionObjects
    <3>3. \A d \in Commands : turn[d] \in Ended => turn'[d] \in Ended
      BY <1>12 DEF Ended
    <3>4. CASE r = s
      BY <1>2, <1>3, <1>6, <1>7, <1>9, <1>11, <1>12, <3>1, <3>2, <3>3, <3>4 DEF ObjectTrue
    <3>5. CASE r # s
      BY <1>2, <1>7, <1>11, <1>12, <3>1, <3>2, <3>3, <3>5 DEF ObjectTrue
    <3> QED BY <3>4, <3>5
  <2> QED BY <2>1 DEF ObjectsTrue
<1>20. Tracked'
  <2>1. ASSUME NEW r \in Starts, object'[r].phase \notin {"exited", "gone"}, ~GaveUp(r)'
        PROVE  TrackedBy(object[r], r)'
    <3>1. TrackedBy(object[r], r)
      BY <1>1, <1>14, <1>18, <2>1 DEF Tracked
    <3>2. c \notin object[s].finishedTurns
      BY <1>1, <1>3 DEF ObjectsTrue, ObjectTrue, Ended
    <3>3. CASE r = s
      BY <1>2, <1>4, <1>6, <1>7, <1>8, <1>11, <3>1, <3>2, <3>3 DEF TrackedBy
    <3>4. CASE r # s
      BY <1>7, <1>8, <1>11, <3>1, <3>4 DEF TrackedBy
    <3> QED BY <3>3, <3>4
  <2> QED BY <2>1 DEF Tracked
<1>21. CompletedIsProven'
  <2>1. \A d \in Commands : cmd'[d].state = "completed" => cmd[d].state = "completed"
    BY <1>10
  <2>2. \A d \in Commands : turn[d] = "completed" => turn'[d] = "completed"
    BY <1>12
  <2> QED BY <1>2, <1>11, <2>1, <2>2, ProvenKeeps
<1> QED BY <1>13, <1>15, <1>16, <1>17, <1>19, <1>20, <1>21 DEF CodexInv

\* tick submits the command, or ends it without a call.
LEMMA TickStep ==
    ASSUME CodexInv, NEW c \in Commands, tick(c)
    PROVE  CodexInv'
<1> DEFINE s == cmd[c].home
<1>1. CodexTypeOK /\ Homes
  BY DEF CodexInv
<1>2. /\ object \in [Starts -> SessionObjects] /\ wire \in [Starts -> SUBSET Frames] /\ cmd \in [Commands -> CommandRows]
      /\ at \in Commands \cup {0} /\ expired.call \in SUBSET Commands
      /\ expired \in [call : SUBSET Commands, send : SUBSET Commands]
  BY <1>1, Typed DEF CodexTypeOK
<1>3. cmd[c].state = "queued" /\ ~turnActive(object[s]) /\ UNCHANGED <<process, wire, recorded, expired>>
  BY DEF tick
<1>4. s \in Starts
  BY <1>1, <1>3 DEF Homes
<1>5. CASE heartbeatProbe(s) /\ object[s].phase = "live"
  <2>1. cmd' = [cmd EXCEPT ![c].state = "dispatching"] /\ at' = c /\ submit(s, c)
    BY <1>5 DEF tick
  <2> QED BY <1>3, <1>4, <1>5, <2>1, SubmitStep
<1>6. CASE ~(heartbeatProbe(s) /\ object[s].phase = "live")
  <2>1. PICK x \in {"failed", "outcome_unknown"} : cmd' = [cmd EXCEPT ![c].state = x]
    BY <1>6 DEF tick
  <2>2. UNCHANGED <<object, at, turn>>
    BY <1>6 DEF tick
  <2>3. RowsMove /\ \A d \in Commands : cmd'[d].state = IF d = c THEN x ELSE cmd[d].state
    <3>1. x \in CommandStates \ {"none", "queued"}
      BY <2>1 DEF CommandStates, Final
    <3> QED BY <1>2, <1>3, <2>1, <3>1, OneRow
  <2>4. Quiet
    BY <1>3, <2>2, <2>3 DEF Quiet
  <2>5. ObjectsTrue' /\ Tracked'
    BY <1>3, <2>2, <2>3, ObjectsStay
  <2>6. \A d \in Commands : cmd'[d].state = "completed" => cmd[d].state = "completed"
    BY <2>1, <2>3
  <2>7. CompletedIsProven'
    BY <1>2, <1>3, <2>2, <2>3, <2>6, ProvenKeeps DEF RowsMove
  <2> QED BY <1>2, <1>3, <2>2, <2>4, <2>5, <2>7, QuietStep
<1> QED BY <1>5, <1>6

-----------------------------------------------------------------------------
(* The provider.                                                           *)

\* A frame is known by its kind and its turn.
LEMMA SameFrame ==
    ASSUME NEW j, NEW k, NEW t, NEW u
    PROVE  Frame(j, t) = Frame(k, u) <=> j = k /\ t = u
BY DEF Frame

\* A turn the provider works on moves on, and the frames say so.
LEMMA TurnMoves ==
    ASSUME CodexInv, NEW t \in Commands, turn[t] \in Working, NEW x \in Ended \cup {"running", "refused"},
           turn' = [turn EXCEPT ![t] = x], wire' \in [Starts -> SUBSET Frames], FramesTrue',
           UNCHANGED <<object, process, recorded, cmd, at, expired>>
    PROVE  CodexInv'
<1>1. CodexTypeOK /\ InOrder /\ Homes /\ ObjectsTrue /\ Tracked /\ CompletedIsProven
  BY DEF CodexInv
<1>2. /\ object \in [Starts -> SessionObjects] /\ expired.call \in SUBSET Commands /\ 0 \notin Commands
      /\ turn \in [Commands -> Ended \cup Working \cup {"none", "refused", "cut"}]
  BY <1>1, Typed
<1>3. /\ turn' \in [Commands -> Ended \cup Working \cup {"none", "refused", "cut"}]
      /\ turn'[t] = x /\ \A d \in Commands : d # t => turn'[d] = turn[d]
  BY <1>2 DEF Working
<1>4. \A d \in Commands :
        /\ turn'[d] # "none" <=> turn[d] # "none"
        /\ turn'[d] \in Working => turn[d] \in Working
        /\ turn[d] \in Ended => turn'[d] \in Ended
        /\ turn[d] = "completed" => turn'[d] = "completed"
        /\ turn'[d] \notin {"none", "refused"} => turn[d] \notin {"none", "refused"}
  BY <1>3 DEF Working, Ended
<1>5. CodexTypeOK' /\ InOrder'
  BY <1>1, <1>3 DEF CodexTypeOK, InOrder
<1>6. Homes'
  BY <1>1, <1>4 DEF Homes
<1>7. ObjectsTrue'
  <2>1. ASSUME NEW s \in Starts
        PROVE  ObjectTrue(object[s], s)'
    <3>1. ObjectTrue(object[s], s)
      BY <1>1 DEF ObjectsTrue
    <3>2. /\ object[s].pending \in Commands \cup {0} /\ object[s].activeTurnId \in Commands \cup {0}
          /\ object[s].finishedTurns \subseteq Commands
          /\ \A d \in Commands : object[s].turnCommands[d] \in Commands \cup {0}
      BY <1>2 DEF SessionObjects
    <3> QED BY <1>4, <3>1, <3>2 DEF ObjectTrue
  <2> QED BY <2>1 DEF ObjectsTrue
<1>8. Tracked'
  <2>1. ASSUME NEW s \in Starts, object'[s].phase \notin {"exited", "gone"}, ~GaveUp(s)'
        PROVE  TrackedBy(object[s], s)'
    <3>1. TrackedBy(object[s], s)
      BY <1>1, <2>1 DEF Tracked, GaveUp
    <3> QED BY <1>4, <3>1 DEF TrackedBy
  <2> QED BY <2>1 DEF Tracked
<1>9. CompletedIsProven'
  BY <1>1, <1>4 DEF CompletedIsProven
<1> QED BY <1>5, <1>6, <1>7, <1>8, <1>9 DEF CodexInv

\* TurnBegins and TurnEnds write what they did, to the session of the command.
LEMMA ProviderStep ==
    ASSUME CodexInv, NEW t \in Commands, TurnBegins(t) \/ TurnEnds(t)
    PROVE  CodexInv'
<1> DEFINE s == cmd[t].home
<1>1. CodexTypeOK /\ Homes /\ FramesTrue
  BY DEF CodexInv
<1>2. /\ wire \in [Starts -> SUBSET Frames]
      /\ turn \in [Commands -> Ended \cup Working \cup {"none", "refused", "cut"}]
  BY <1>1, Typed
<1>3. UNCHANGED <<object, process, recorded, cmd, at, expired>> /\ turn[t] \in Working
  BY DEF TurnBegins, TurnEnds, Working
<1>4. s \in Starts
  BY <1>1, <1>3 DEF Homes, Working
<1>5. ASSUME NEW k \in {"answer", "error", "started", "ended"}
      PROVE  Frame(k, t) \in Frames
  BY DEF Frame, Frames
<1>6. ASSUME NEW new \in SUBSET Frames, Writes(s, new)
      PROVE  /\ wire' \in [Starts -> SUBSET Frames]
             /\ \A r \in Starts, f \in Frames : f \in wire'[r] => f \in wire[r] \/ (r = s /\ f \in new)
  BY <1>2, <1>4, <1>6 DEF Writes
<1>7. \A u \in Commands, k \in {"answer", "error", "started", "ended"} : Frame(k, u) \in Frames
  BY DEF Frame, Frames
<1>8. CASE turn' = [turn EXCEPT ![t] = "running"] /\ Writes(s, {Frame("answer", t), Frame("started", t)}) /\ turn[t] = "asked"
  <2>1. {Frame("answer", t), Frame("started", t)} \in SUBSET Frames
    BY <1>5
  <2>2. /\ wire' \in [Starts -> SUBSET Frames]
        /\ \A r \in Starts, f \in Frames : f \in wire'[r] => f \in wire[r] \/ (r = s /\ f \in {Frame("answer", t), Frame("started", t)})
    BY <1>6, <1>8, <2>1
  <2>3. turn'[t] = "running" /\ \A u \in Commands : u # t => turn'[u] = turn[u]
    BY <1>2, <1>8
  <2>4. FramesTrue'
    <3>1. ASSUME NEW r \in Starts, NEW u \in Commands
          PROVE  /\ Frame("error", u) \in wire'[r] => cmd'[u].home = r /\ turn'[u] = "refused"
                 /\ Frame("ended", u) \in wire'[r] => cmd'[u].home = r /\ turn'[u] \in Ended
                 /\ Frame("answer", u) \in wire'[r] \/ Frame("started", u) \in wire'[r] =>
                       cmd'[u].home = r /\ turn'[u] \notin {"none", "asked", "refused"}
      <4>1. \A k \in {"answer", "error", "started", "ended"} :
              Frame(k, u) \in wire'[r] => Frame(k, u) \in wire[r] \/ (r = s /\ u = t /\ k \in {"answer", "started"})
        BY <1>7, <2>2, SameFrame
      <4> QED BY <1>1, <1>3, <1>8, <2>3, <4>1 DEF FramesTrue, Ended
    <3> QED BY <3>1 DEF FramesTrue
  <2> QED BY <1>3, <1>8, <2>2, <2>4, TurnMoves
<1>9. CASE turn' = [turn EXCEPT ![t] = "refused"] /\ Writes(s, {Frame("error", t)}) /\ turn[t] = "asked"
  <2>1. {Frame("error", t)} \in SUBSET Frames
    BY <1>5
  <2>2. /\ wire' \in [Starts -> SUBSET Frames]
        /\ \A r \in Starts, f \in Frames : f \in wire'[r] => f \in wire[r] \/ (r = s /\ f \in {Frame("error", t)})
    BY <1>6, <1>9, <2>1
  <2>3. turn'[t] = "refused" /\ \A u \in Commands : u # t => turn'[u] = turn[u]
    BY <1>2, <1>9
  <2>4. FramesTrue'
    <3>1. ASSUME NEW r \in Starts, NEW u \in Commands
          PROVE  /\ Frame("error", u) \in wire'[r] => cmd'[u].home = r /\ turn'[u] = "refused"
                 /\ Frame("ended", u) \in wire'[r] => cmd'[u].home = r /\ turn'[u] \in Ended
                 /\ Frame("answer", u) \in wire'[r] \/ Frame("started", u) \in wire'[r] =>
                       cmd'[u].home = r /\ turn'[u] \notin {"none", "asked", "refused"}
      <4>1. \A k \in {"answer", "error", "started", "ended"} :
              Frame(k, u) \in wire'[r] => Frame(k, u) \in wire[r] \/ (r = s /\ u = t /\ k = "error")
        BY <1>7, <2>2, SameFrame
      <4> QED BY <1>1, <1>3, <1>9, <2>3, <4>1 DEF FramesTrue, Ended
    <3> QED BY <3>1 DEF FramesTrue
  <2> QED BY <1>3, <1>9, <2>2, <2>4, TurnMoves
<1>10. CASE TurnEnds(t)
  <2>1. PICK x \in Ended : turn' = [turn EXCEPT ![t] = x]
    BY <1>10 DEF TurnEnds
  <2>2. {Frame("ended", t)} \in SUBSET Frames /\ Writes(s, {Frame("ended", t)})
    BY <1>5, <1>10 DEF TurnEnds
  <2>3. /\ wire' \in [Starts -> SUBSET Frames]
        /\ \A r \in Starts, f \in Frames : f \in wire'[r] => f \in wire[r] \/ (r = s /\ f \in {Frame("ended", t)})
    BY <1>6, <2>2
  <2>4. turn'[t] = x /\ turn[t] = "running" /\ \A u \in Commands : u # t => turn'[u] = turn[u]
    BY <1>2, <1>10, <2>1 DEF TurnEnds
  <2>5. FramesTrue'
    <3>1. ASSUME NEW r \in Starts, NEW u \in Commands
          PROVE  /\ Frame("error", u) \in wire'[r] => cmd'[u].home = r /\ turn'[u] = "refused"
                 /\ Frame("ended", u) \in wire'[r] => cmd'[u].home = r /\ turn'[u] \in Ended
                 /\ Frame("answer", u) \in wire'[r] \/ Frame("started", u) \in wire'[r] =>
                       cmd'[u].home = r /\ turn'[u] \notin {"none", "asked", "refused"}
      <4>1. \A k \in {"answer", "error", "started", "ended"} :
              Frame(k, u) \in wire'[r] => Frame(k, u) \in wire[r] \/ (r = s /\ u = t /\ k = "ended")
        BY <1>7, <2>3, SameFrame
      <4> QED BY <1>1, <1>3, <2>1, <2>4, <4>1 DEF FramesTrue, Ended
    <3> QED BY <3>1 DEF FramesTrue
  <2> QED BY <1>3, <2>1, <2>3, <2>5, TurnMoves
<1> QED BY <1>8, <1>9, <1>10 DEF TurnBegins

-----------------------------------------------------------------------------
(* Frames the adapter reads.                                               *)

\* A turn that is heard of for the first time while another command's call is
\* in flight is one whose own call was given up.
LEMMA ClaimTrue ==
    ASSUME CodexInv, NEW s \in Starts, NEW t \in Commands, cmd[t].home = s, turn[t] \notin {"none", "refused"}
    PROVE  /\ ObjectTrue(claimTurn(object[s], t), s)
           /\ object[s].phase \notin {"exited", "gone"} /\ ~GaveUp(s) =>
                 TrackedBy(object[s], s) /\ claimTurn(object[s], t).turnCommands[t] = t
<1> DEFINE o == object[s]
           p == claimTurn(o, t)
<1>1. CodexTypeOK /\ ObjectsTrue /\ Tracked
  BY DEF CodexInv
<1>2. /\ o \in SessionObjects /\ expired.call \in SUBSET Commands /\ 0 \notin Commands
  BY <1>1, Typed
<1>3. ObjectTrue(o, s)
  BY <1>1 DEF ObjectsTrue
<1>4. /\ o.pending \in Commands \cup {0} /\ o.activeTurnId \in Commands \cup {0}
      /\ \A u \in Commands : o.turnCommands[u] \in Commands \cup {0}
  BY <1>2 DEF SessionObjects
<1>5. /\ p.phase = o.phase /\ p.activeTurnId = o.activeTurnId
      /\ p.submitting = o.submitting /\ p.pending = o.pending /\ p.finishedTurns = o.finishedTurns
      /\ \A u \in Commands :
            p.turnCommands[u] = IF u = t /\ o.turnCommands[t] = 0 THEN o.submitting ELSE o.turnCommands[u]
  BY <1>2, ClaimObject
<1>6. o.phase \notin {"exited", "gone"} /\ ~GaveUp(s) => TrackedBy(o, s)
  BY <1>1 DEF Tracked
<1> HIDE DEF p, o
<1>7. o.phase \notin {"exited", "gone"} /\ ~GaveUp(s) => p.turnCommands[t] = t
  <2> SUFFICES ASSUME o.phase \notin {"exited", "gone"}, ~GaveUp(s)
               PROVE  p.turnCommands[t] = t
    OBVIOUS
  <2>1. TrackedBy(o, s)
    BY <1>6
  <2>2. CASE o.turnCommands[t] = 0
    BY <1>2, <1>3, <1>5, <2>1, <2>2 DEF TrackedBy, ObjectTrue
  <2>3. CASE o.turnCommands[t] # 0
    BY <1>3, <1>5, <2>3 DEF ObjectTrue, GaveUp
  <2> QED BY <2>2, <2>3
<1>8. ObjectTrue(p, s)
  <2>1. ASSUME NEW u \in Commands, p.turnCommands[u] # 0
        PROVE  /\ cmd[p.turnCommands[u]].home = s /\ turn[p.turnCommands[u]] # "none"
               /\ \/ p.turnCommands[u] = u
                  \/ \E v \in expired.call : v # p.turnCommands[u] /\ cmd[v].home = s
    <3>1. CASE u = t /\ o.turnCommands[t] = 0
      <4>1. p.turnCommands[u] = o.pending /\ o.pending # 0 /\ o.phase \notin {"exited", "gone"}
        BY <1>3, <1>5, <2>1, <3>1 DEF ObjectTrue
      <4>2. CASE GaveUp(s)
        BY <1>3, <4>1, <4>2 DEF ObjectTrue, GaveUp
      <4>3. CASE ~GaveUp(s)
        BY <1>3, <1>7, <3>1, <4>1, <4>3 DEF ObjectTrue
      <4> QED BY <4>2, <4>3
    <3>2. CASE ~(u = t /\ o.turnCommands[t] = 0)
      BY <1>3, <1>5, <2>1, <3>2 DEF ObjectTrue
    <3> QED BY <3>1, <3>2
  <2> QED BY <1>3, <1>5, <2>1 DEF ObjectTrue
<1> QED BY <1>6, <1>7, <1>8 DEF p, o

\* A frame is read and changes one object, to one that is true.
LEMMA ReadStep ==
    ASSUME CodexInv, NEW s \in Starts, NEW f \in Frames, Reads(s, f), NEW q \in SessionObjects,
           object' = [object EXCEPT ![s] = q], q.phase = object[s].phase, ObjectTrue(q, s),
           q.phase \notin {"exited", "gone"} /\ ~GaveUp(s) => TrackedBy(q, s),
           RowsMove, at' \in Commands \cup {0}, UNCHANGED <<process, recorded, turn, expired>>,
           \A d \in Commands : cmd'[d].state = "completed" =>
               \/ cmd[d].state = "completed" \/ turn[d] = "completed"
               \/ \E u \in expired.call : u # d /\ cmd[u].home = cmd[d].home
    PROVE  CodexInv'
<1>1. CodexTypeOK
  BY DEF CodexInv
<1>2. /\ object \in [Starts -> SessionObjects] /\ wire \in [Starts -> SUBSET Frames] /\ 0 \notin Commands
      /\ expired.call \in SUBSET Commands /\ expired \in [call : SUBSET Commands, send : SUBSET Commands]
  BY <1>1, Typed DEF CodexTypeOK
<1>3. wire' \in [Starts -> SUBSET Frames] /\ \A r \in Starts : wire'[r] \subseteq wire[r]
  BY <1>2 DEF Reads
<1>4. \A c \in Commands : cmd'[c].home = cmd[c].home
  BY DEF RowsMove
<1>5. \A r \in Starts : object'[r].phase = object[r].phase
  BY <1>2
<1>6. Quiet
  BY <1>3, <1>5 DEF Quiet
<1>7. ObjectTrue(q, s)'
  <2>1. /\ q.pending \in Commands \cup {0} /\ q.activeTurnId \in Commands \cup {0}
        /\ \A t \in Commands : q.turnCommands[t] \in Commands \cup {0}
    BY DEF SessionObjects
  <2> QED BY <1>2, <1>4, <2>1 DEF ObjectTrue
<1>8. q.phase \notin {"exited", "gone"} /\ ~GaveUp(s)' => TrackedBy(q, s)'
  <2> SUFFICES ASSUME q.phase \notin {"exited", "gone"}, ~GaveUp(s)'
               PROVE  TrackedBy(q, s)'
    OBVIOUS
  <2>1. ~GaveUp(s)
    BY <1>2, <1>4 DEF GaveUp
  <2>2. TrackedBy(q, s)
    BY <2>1
  <2> QED BY <1>4, <2>2 DEF TrackedBy
<1>9. object' \in [Starts -> SessionObjects] /\ ObjectsTrue' /\ Tracked'
  BY <1>2, <1>7, <1>8, ObjectKeeps
<1>10. CompletedIsProven'
  BY <1>2, <1>4, ProvenKeeps
<1> QED BY <1>2, <1>3, <1>6, <1>9, <1>10, QuietStep

\* onAnswer: the turn in flight becomes the active one, or has ended already.
LEMMA AnswerStep ==
    ASSUME CodexInv, NEW s \in Starts, NEW t \in Commands, onAnswer(s, t)
    PROVE  CodexInv'
<1>1. CodexTypeOK /\ Homes /\ FramesTrue /\ ObjectsTrue /\ Tracked
  BY DEF CodexInv
<1>2. /\ object \in [Starts -> SessionObjects] /\ wire \in [Starts -> SUBSET Frames] /\ cmd \in [Commands -> CommandRows]
      /\ at \in Commands \cup {0} /\ expired.call \in SUBSET Commands /\ 0 \notin Commands /\ object[s] \in SessionObjects
  BY <1>1, Typed
<1>3. Reads(s, Frame("answer", t)) /\ UNCHANGED <<process, recorded, turn, expired>> /\ Frame("answer", t) \in Frames
  BY <1>2 DEF onAnswer, Frame, Frames
<1>4. cmd[t].home = s /\ turn[t] \notin {"none", "asked", "refused"} /\ cmd[t].state \notin {"none", "queued"}
  BY <1>1, <1>3 DEF FramesTrue, Reads, Homes
<1>5. ObjectTrue(object[s], s)
  BY <1>1 DEF ObjectsTrue
<1>6. CASE object[s].pending # t
  <2>1. UNCHANGED <<object, cmd, at>>
    BY <1>6 DEF onAnswer
  <2>2. PICK q \in SessionObjects : q = object[s]
    BY <1>2
  <2>3. object' = [object EXCEPT ![s] = q]
    BY <1>2, <2>1, <2>2
  <2>4. RowsMove
    BY <1>2, <2>1, NoRow
  <2>5. q.phase \notin {"exited", "gone"} /\ ~GaveUp(s) => TrackedBy(q, s)
    BY <1>1, <2>2 DEF Tracked
  <2> QED BY <1>2, <1>3, <1>5, <2>1, <2>2, <2>3, <2>4, <2>5, ReadStep
<1>7. CASE object[s].pending = t
  <2>1. object[s].submitting = t
    BY <1>5, <1>7 DEF ObjectTrue
  <2>2. PICK q \in SessionObjects : q = Submitted(object[s], t)
    <3>1. Submitted(object[s], t) \in SessionObjects
      BY <1>2, <2>1, SubmittedObject
    <3> QED BY <3>1
  <2>3. /\ q.phase = object[s].phase
        /\ q.activeTurnId = IF t \in object[s].finishedTurns THEN object[s].activeTurnId ELSE t
        /\ q.submitting = 0 /\ q.pending = 0 /\ q.finishedTurns = object[s].finishedTurns
        /\ \A u \in Commands :
              q.turnCommands[u] = IF u = t /\ object[s].turnCommands[t] = 0 THEN t ELSE object[s].turnCommands[u]
    BY <1>2, <2>1, <2>2, SubmittedObject
  <2>4. object' = [object EXCEPT ![s] = q] /\ cmd' = acknowledgeFromRuntime(t, "accepted") /\ at' \in Commands \cup {0}
    BY <1>2, <1>7, <2>2 DEF onAnswer
  <2>5. ObjectTrue(q, s)
    BY <1>4, <1>5, <2>3 DEF ObjectTrue
  <2>6. q.phase \notin {"exited", "gone"} /\ ~GaveUp(s) => TrackedBy(q, s)
    <3> SUFFICES ASSUME q.phase \notin {"exited", "gone"}, ~GaveUp(s)
                 PROVE  TrackedBy(q, s)
      OBVIOUS
    <3>1. TrackedBy(object[s], s)
      BY <1>1, <2>3 DEF Tracked
    <3>2. q.turnCommands[t] = t
      BY <1>5, <2>3 DEF ObjectTrue, GaveUp
    <3> QED BY <1>2, <1>7, <2>3, <3>1, <3>2 DEF TrackedBy
  <2>7. /\ RowsMove
        /\ \A d \in Commands : cmd'[d].state = "completed" => cmd[d].state = "completed"
    BY <1>2, <1>4, <2>4, AckMoves
  <2> QED BY <1>3, <2>3, <2>4, <2>5, <2>6, <2>7, ReadStep
<1> QED BY <1>6, <1>7

\* onError: the turn in flight was refused.
LEMMA ErrorStep ==
    ASSUME CodexInv, NEW s \in Starts, NEW t \in Commands, onError(s, t)
    PROVE  CodexInv'
<1>1. CodexTypeOK /\ FramesTrue /\ ObjectsTrue /\ Tracked
  BY DEF CodexInv
<1>2. /\ object \in [Starts -> SessionObjects] /\ wire \in [Starts -> SUBSET Frames] /\ cmd \in [Commands -> CommandRows]
      /\ at \in Commands \cup {0} /\ expired.call \in SUBSET Commands /\ 0 \notin Commands /\ object[s] \in SessionObjects
  BY <1>1, Typed
<1>3. Reads(s, Frame("error", t)) /\ UNCHANGED <<process, recorded, turn, expired>> /\ Frame("error", t) \in Frames
  BY <1>2 DEF onError, Frame, Frames
<1>4. turn[t] = "refused"
  BY <1>1, <1>3 DEF FramesTrue, Reads
<1>5. ObjectTrue(object[s], s)
  BY <1>1 DEF ObjectsTrue
<1>6. CASE object[s].pending # t
  <2>1. UNCHANGED <<object, cmd, at>>
    BY <1>6 DEF onError
  <2>2. PICK q \in SessionObjects : q = object[s]
    BY <1>2
  <2>3. object' = [object EXCEPT ![s] = q]
    BY <1>2, <2>1, <2>2
  <2>4. RowsMove
    BY <1>2, <2>1, NoRow
  <2>5. q.phase \notin {"exited", "gone"} /\ ~GaveUp(s) => TrackedBy(q, s)
    BY <1>1, <2>2 DEF Tracked
  <2> QED BY <1>2, <1>3, <1>5, <2>1, <2>2, <2>3, <2>4, <2>5, ReadStep
<1>7. CASE object[s].pending = t
  <2>1. PICK q \in SessionObjects : q = [object[s] EXCEPT !.submitting = 0, !.pending = 0]
    <3>1. [object[s] EXCEPT !.submitting = 0, !.pending = 0] \in SessionObjects
      BY <1>2, CallObject
    <3> QED BY <3>1
  <2>2. /\ q.phase = object[s].phase /\ q.activeTurnId = object[s].activeTurnId /\ q.submitting = 0 /\ q.pending = 0
        /\ q.finishedTurns = object[s].finishedTurns /\ q.turnCommands = object[s].turnCommands
    BY <1>2, <2>1, CallObject
  <2>3. object' = [object EXCEPT ![s] = q]
    <3>1. object' = [object EXCEPT ![s] = [object[s] EXCEPT !.submitting = 0, !.pending = 0]]
      BY <1>2, <1>7 DEF onError
    <3> QED BY <2>1, <3>1
  <2>4. /\ RowsMove /\ at' \in Commands \cup {0}
        /\ \A d \in Commands : cmd'[d].state = "completed" => cmd[d].state = "completed"
    <3>1. CASE at = t
      <4>1. cmd' = failTransport(t, TRUE) /\ at' = 0
        BY <1>7, <3>1 DEF onError
      <4> QED BY <1>2, <4>1, FailMoves
    <3>2. CASE at # t
      <4>1. UNCHANGED <<cmd, at>>
        BY <1>7, <3>2 DEF onError
      <4> QED BY <1>2, <4>1, NoRow
    <3> QED BY <3>1, <3>2
  <2>5. ObjectTrue(q, s)
    BY <1>5, <2>2 DEF ObjectTrue
  <2>6. q.phase \notin {"exited", "gone"} /\ ~GaveUp(s) => TrackedBy(q, s)
    <3> SUFFICES ASSUME q.phase \notin {"exited", "gone"}, ~GaveUp(s)
                 PROVE  TrackedBy(q, s)
      OBVIOUS
    <3>1. TrackedBy(object[s], s)
      BY <1>1, <2>2 DEF Tracked
    <3> QED BY <1>2, <1>4, <1>7, <2>2, <3>1 DEF TrackedBy
  <2> QED BY <1>3, <2>2, <2>3, <2>4, <2>5, <2>6, ReadStep
<1> QED BY <1>6, <1>7

\* onTurnStarted: the turn is the one in flight or the active one, if tracked.
LEMMA StartedStep ==
    ASSUME CodexInv, NEW s \in Starts, NEW t \in Commands, onTurnStarted(s, t)
    PROVE  CodexInv'
<1> DEFINE o == claimTurn(object[s], t)
<1>1. CodexTypeOK /\ Homes /\ FramesTrue /\ ObjectsTrue
  BY DEF CodexInv
<1>2. /\ object \in [Starts -> SessionObjects] /\ wire \in [Starts -> SUBSET Frames] /\ cmd \in [Commands -> CommandRows]
      /\ at \in Commands \cup {0} /\ expired.call \in SUBSET Commands /\ 0 \notin Commands /\ object[s] \in SessionObjects
  BY <1>1, Typed
<1>3. /\ Reads(s, Frame("started", t)) /\ UNCHANGED <<process, recorded, at, turn, expired>> /\ Frame("started", t) \in Frames
  BY <1>2 DEF onTurnStarted, Frame, Frames
<1>4. cmd[t].home = s /\ turn[t] \notin {"none", "refused"}
  BY <1>1, <1>3 DEF FramesTrue, Reads
<1>5. /\ o \in SessionObjects /\ o.phase = object[s].phase /\ o.activeTurnId = object[s].activeTurnId
      /\ o.pending = object[s].pending /\ o.finishedTurns = object[s].finishedTurns
      /\ \A u \in Commands : u # t => o.turnCommands[u] = object[s].turnCommands[u]
  BY <1>2, ClaimObject
<1>6. /\ ObjectTrue(o, s)
      /\ o.phase \notin {"exited", "gone"} /\ ~GaveUp(s) => TrackedBy(object[s], s) /\ o.turnCommands[t] = t
  BY <1>4, <1>5, ClaimTrue
<1>7. object' = [object EXCEPT ![s] = Opens(o, t)] /\ cmd' = onRuntimeEvent(o.turnCommands[t], "running")
  BY DEF onTurnStarted
<1> HIDE DEF o
<1>8. PICK q \in SessionObjects : q = Opens(o, t)
  <2>1. Opens(o, t) \in SessionObjects
    BY <1>5, OpenObject
  <2> QED BY <2>1
<1>9. /\ q.phase = o.phase /\ q.activeTurnId = IF t \in o.finishedTurns THEN o.activeTurnId ELSE t
      /\ q.submitting = o.submitting /\ q.pending = o.pending
      /\ q.finishedTurns = o.finishedTurns /\ q.turnCommands = o.turnCommands
  BY <1>5, <1>8, OpenObject
<1>10. ObjectTrue(q, s)
  BY <1>4, <1>6, <1>9 DEF ObjectTrue
<1>11. q.phase \notin {"exited", "gone"} /\ ~GaveUp(s) => TrackedBy(q, s)
  <2> SUFFICES ASSUME q.phase \notin {"exited", "gone"}, ~GaveUp(s)
               PROVE  TrackedBy(q, s)
    OBVIOUS
  <2>1. TrackedBy(object[s], s) /\ o.turnCommands[t] = t
    BY <1>6, <1>9
  <2>2. ASSUME NEW u \in Commands, cmd[u].home = s, turn[u] \notin {"none", "refused"}, u \notin q.finishedTurns
        PROVE  q.pending = u \/ (q.activeTurnId = u /\ q.pending = 0)
    <3>1. object[s].pending = u \/ (object[s].activeTurnId = u /\ object[s].pending = 0)
      BY <1>5, <1>9, <2>1, <2>2 DEF TrackedBy
    <3>2. CASE t \in o.finishedTurns
      BY <1>5, <1>9, <3>1, <3>2
    <3>3. CASE t \notin o.finishedTurns
      <4>1. object[s].pending = t \/ (object[s].activeTurnId = t /\ object[s].pending = 0)
        BY <1>4, <1>5, <2>1, <3>3 DEF TrackedBy
      <4> QED BY <1>2, <1>5, <1>9, <3>1, <3>3, <4>1
    <3> QED BY <3>2, <3>3
  <2>3. ASSUME NEW u \in Commands, cmd[u].home = s, u \in q.finishedTurns \/ q.activeTurnId = u
        PROVE  q.turnCommands[u] = u
    BY <1>5, <1>9, <2>1, <2>3 DEF TrackedBy
  <2> QED BY <2>2, <2>3 DEF TrackedBy
<1>12. /\ RowsMove
       /\ \A d \in Commands : cmd'[d].state = "completed" => cmd[d].state = "completed"
  <2>1. o.turnCommands[t] \in Commands \cup {0}
    BY <1>5 DEF SessionObjects
  <2>2. o.turnCommands[t] # 0 => cmd[o.turnCommands[t]].state \notin {"none", "queued"}
    BY <1>1, <1>6, <2>1 DEF ObjectTrue, Homes
  <2> QED BY <1>2, <1>7, <2>1, <2>2, EventMoves
<1>13. object' = [object EXCEPT ![s] = q] /\ at' \in Commands \cup {0}
  BY <1>2, <1>3, <1>7, <1>8
<1>14. q.phase = object[s].phase
  BY <1>5, <1>9
<1> QED BY <1>3, <1>10, <1>11, <1>12, <1>13, <1>14, ReadStep

\* onTurnCompleted: the turn goes to its own command, if tracked.
LEMMA EndedStep ==
    ASSUME CodexInv, NEW s \in Starts, NEW t \in Commands, onTurnCompleted(s, t)
    PROVE  CodexInv'
<1> DEFINE o == claimTurn(object[s], t)
<1>1. CodexTypeOK /\ Homes /\ FramesTrue /\ ObjectsTrue
  BY DEF CodexInv
<1>2. /\ object \in [Starts -> SessionObjects] /\ wire \in [Starts -> SUBSET Frames] /\ cmd \in [Commands -> CommandRows]
      /\ at \in Commands \cup {0} /\ expired.call \in SUBSET Commands /\ 0 \notin Commands /\ object[s] \in SessionObjects
  BY <1>1, Typed
<1>3. /\ Reads(s, Frame("ended", t)) /\ UNCHANGED <<process, recorded, at, turn, expired>> /\ Frame("ended", t) \in Frames
  BY <1>2 DEF onTurnCompleted, Frame, Frames
<1>4. cmd[t].home = s /\ turn[t] \in Ended /\ turn[t] \notin {"none", "refused"}
  BY <1>1, <1>3 DEF FramesTrue, Reads, Ended
<1>5. /\ o \in SessionObjects /\ o.phase = object[s].phase /\ o.activeTurnId = object[s].activeTurnId
      /\ o.pending = object[s].pending /\ o.finishedTurns = object[s].finishedTurns
      /\ \A u \in Commands : u # t => o.turnCommands[u] = object[s].turnCommands[u]
  BY <1>2, ClaimObject
<1>6. /\ ObjectTrue(o, s)
      /\ o.phase \notin {"exited", "gone"} /\ ~GaveUp(s) => TrackedBy(object[s], s) /\ o.turnCommands[t] = t
  BY <1>4, <1>5, ClaimTrue
<1>7. object' = [object EXCEPT ![s] = Ends(o, t)] /\ cmd' = onRuntimeEvent(o.turnCommands[t], AckOf(turn[t]))
  BY DEF onTurnCompleted
<1> HIDE DEF o
<1>8. PICK q \in SessionObjects : q = Ends(o, t)
  <2>1. Ends(o, t) \in SessionObjects
    BY <1>5, EndObject
  <2> QED BY <2>1
<1>9. /\ q.phase = o.phase /\ q.activeTurnId = IF o.activeTurnId = t THEN 0 ELSE o.activeTurnId
      /\ q.submitting = o.submitting /\ q.pending = o.pending
      /\ q.finishedTurns = o.finishedTurns \cup {t} /\ q.turnCommands = o.turnCommands
  BY <1>5, <1>8, EndObject
<1>10. ObjectTrue(q, s)
  BY <1>4, <1>6, <1>9 DEF ObjectTrue
<1>11. q.phase \notin {"exited", "gone"} /\ ~GaveUp(s) => TrackedBy(q, s)
  <2> SUFFICES ASSUME q.phase \notin {"exited", "gone"}, ~GaveUp(s)
               PROVE  TrackedBy(q, s)
    OBVIOUS
  <2>1. TrackedBy(object[s], s) /\ o.turnCommands[t] = t
    BY <1>6, <1>9
  <2>2. ASSUME NEW u \in Commands, cmd[u].home = s, turn[u] \notin {"none", "refused"}, u \notin q.finishedTurns
        PROVE  q.pending = u \/ (q.activeTurnId = u /\ q.pending = 0)
    BY <1>5, <1>9, <2>1, <2>2 DEF TrackedBy
  <2>3. ASSUME NEW u \in Commands, cmd[u].home = s, u \in q.finishedTurns \/ q.activeTurnId = u
        PROVE  q.turnCommands[u] = u
    BY <1>2, <1>5, <1>9, <2>1, <2>3 DEF TrackedBy
  <2> QED BY <2>2, <2>3 DEF TrackedBy
<1>12. /\ RowsMove
       /\ \A d \in Commands : cmd'[d].state = "completed" =>
             cmd[d].state = "completed" \/ (d = o.turnCommands[t] /\ turn[t] = "completed")
  <2>1. o.turnCommands[t] \in Commands \cup {0}
    BY <1>5 DEF SessionObjects
  <2>2. o.turnCommands[t] # 0 => cmd[o.turnCommands[t]].state \notin {"none", "queued"}
    BY <1>1, <1>6, <2>1 DEF ObjectTrue, Homes
  <2>3. PICK x \in {"running", "completed", "failed"} : x = AckOf(turn[t]) /\ (x = "completed" => turn[t] = "completed")
    BY DEF AckOf
  <2>4. cmd' = onRuntimeEvent(o.turnCommands[t], x)
    BY <1>7, <2>3
  <2> QED BY <1>2, <2>1, <2>2, <2>3, <2>4, EventMoves
<1>13. \A d \in Commands : cmd'[d].state = "completed" =>
         \/ cmd[d].state = "completed" \/ turn[d] = "completed"
         \/ \E u \in expired.call : u # d /\ cmd[u].home = cmd[d].home
  <2> SUFFICES ASSUME NEW d \in Commands, d = o.turnCommands[t], turn[t] = "completed"
               PROVE  turn[d] = "completed" \/ \E u \in expired.call : u # d /\ cmd[u].home = cmd[d].home
    BY <1>12
  <2> QED BY <1>2, <1>6 DEF ObjectTrue
<1>14. object' = [object EXCEPT ![s] = q] /\ at' \in Commands \cup {0}
  BY <1>2, <1>3, <1>7, <1>8
<1>15. q.phase = object[s].phase
  BY <1>5, <1>9
<1> QED BY <1>3, <1>10, <1>11, <1>12, <1>13, <1>14, <1>15, ReadStep

-----------------------------------------------------------------------------
(* Results.                                                                *)

\* The invariant holds at first.
LEMMA CodexStarts ==
    ASSUME CodexInit
    PROVE  CodexInv
<1> DEFINE o == [NewSession EXCEPT !.phase = "none"]
<1>1. o \in SessionObjects /\ o.phase = "none" /\ SameTurns(NewSession, o)
  BY NewObject, PhaseObject
<1>2. object = [s \in Starts |-> o]
  BY DEF CodexInit
<1> HIDE DEF o
<1>3. \A s \in Starts : object[s] = o
  BY <1>2
<1>4. CodexTypeOK
  <2>1. object \in [Starts -> SessionObjects]
    BY <1>1, <1>2
  <2>2. cmd \in [Commands -> [state : CommandStates, home : Starts \cup {0}]]
    BY DEF CodexInit, CommandStates
  <2> QED BY <2>1, <2>2 DEF CodexInit, CodexTypeOK
<1>5. /\ \A c \in Commands : cmd[c].state = "none" /\ cmd[c].home = 0 /\ turn[c] = "none"
      /\ \A s \in Starts : process[s] = "none" /\ wire[s] = {}
      /\ recorded = 0 /\ expired.call = {} /\ 0 \notin Starts
  BY CodexAssumption DEF CodexInit, Starts
<1>6. InOrder /\ Homes /\ FramesTrue /\ CompletedIsProven
  BY <1>1, <1>3, <1>5 DEF InOrder, Homes, FramesTrue, CompletedIsProven, Working
<1>7. ObjectsTrue
  BY <1>1, <1>3, NewObject DEF ObjectsTrue, ObjectTrue, SameTurns
<1>8. Tracked
  BY <1>5 DEF Tracked, TrackedBy
<1> QED BY <1>4, <1>6, <1>7, <1>8 DEF CodexInv

\* A stuttering step.
LEMMA CodexUnchanged ==
    ASSUME CodexInv, UNCHANGED codex
    PROVE  CodexInv'
<1>1. CodexTypeOK /\ InOrder /\ Homes /\ FramesTrue /\ CompletedIsProven
  BY DEF CodexInv
<1>2. UNCHANGED <<object, process, wire, recorded, cmd, at, turn, expired>>
  BY DEF codex
<1>3. CodexTypeOK' /\ InOrder' /\ Homes' /\ FramesTrue' /\ CompletedIsProven'
  BY <1>1, <1>2 DEF CodexTypeOK, InOrder, Homes, FramesTrue, CompletedIsProven
<1>4. ObjectsTrue' /\ Tracked'
  BY <1>1, <1>2, Typed, NoRow, ObjectsStay
<1> QED BY <1>3, <1>4 DEF CodexInv

\* Whatever order the frames come in, whichever calls are given up and
\* however often the session is started again: what the adapter keeps of a
\* session is true of the provider's turns.
THEOREM CodexInvariant == CodexSpec => []CodexInv
<1>1. CodexInit => CodexInv
  BY CodexStarts
<1>2. CodexInv /\ [CodexNext]_codex => CodexInv'
  <2> SUFFICES ASSUME CodexInv, [CodexNext]_codex
               PROVE  CodexInv'
    OBVIOUS
  <2>1. ASSUME NEW s \in Starts, start(s)
        PROVE  CodexInv'
    BY <2>1, StartStep
  <2>2. ASSUME NEW s \in Starts, SpawnFails(s) \/ HandshakeCall(s) \/ recordProviderSession(s) \/ stop(s)
        PROVE  CodexInv'
    BY <2>2, PhaseSteps
  <2>3. ASSUME NEW s \in Starts, ProcessEnds(s) \/ onExit(s) \/ SessionLost(s) \/ CallExpires(s)
        PROVE  CodexInv'
    BY <2>3, ProcessStep, ExitStep, LostStep, CallStep
  <2>4. ASSUME NEW s \in Starts, NEW t \in Commands, onFrame(s, t)
        PROVE  CodexInv'
    BY <2>4, AnswerStep, ErrorStep, StartedStep, EndedStep DEF onFrame
  <2>5. ASSUME NEW c \in Commands, deliverStructured(c) \/ reconcileCommands(c) \/ tick(c)
        PROVE  CodexInv'
    BY <2>5, DeliverStep, ReconcileStep, TickStep
  <2>6. ASSUME NEW c \in Commands, TurnBegins(c) \/ TurnEnds(c)
        PROVE  CodexInv'
    BY <2>6, ProviderStep
  <2>7. CASE SendExpires
    BY <2>7, SendStep
  <2>8. CASE Crash
    BY <2>8, CodexCrash
  <2>9. CASE UNCHANGED codex
    BY <2>9, CodexUnchanged
  <2> QED BY <2>1, <2>2, <2>3, <2>4, <2>5, <2>6, <2>7, <2>8, <2>9 DEF CodexNext
<1> QED BY <1>1, <1>2, PTL DEF CodexSpec

\* Type correctness.
THEOREM CodexTyped == CodexSpec => []CodexTypeOK
<1>1. CodexInv => CodexTypeOK
  BY DEF CodexInv
<1> QED BY <1>1, CodexInvariant, PTL

\* Input reaches the provider only between turns, unless a turn/start of the
\* session was given up: submit() under turnActive(), with the turn claimed
\* on its first frame and never reopened once it has ended.
THEOREM InputWaitsForTurns == CodexSpec => []InputBetweenTurns
<1>1. CodexInv => InputBetweenTurns
  <2> SUFFICES ASSUME CodexInv, NEW c \in Commands, NEW d \in Commands, c # d,
                      turn[c] \in Working, turn[d] \in Working
               PROVE  \E t \in expired.call : cmd[t].home \in {cmd[c].home, cmd[d].home}
    BY DEF InputBetweenTurns
  <2>1. CodexTypeOK /\ InOrder /\ Homes /\ ObjectsTrue /\ Tracked
    BY DEF CodexInv
  <2>2. 0 \notin Commands
    BY <2>1, Typed
  <2>3. /\ cmd[c].home \in Starts /\ process[cmd[c].home] = "up" /\ turn[c] \notin {"none", "refused"}
        /\ cmd[d].home \in Starts /\ process[cmd[d].home] = "up" /\ turn[d] \notin {"none", "refused"}
    BY <2>1 DEF Homes, Working
  <2>4. cmd[c].home = cmd[d].home /\ object[cmd[c].home].phase \notin {"exited", "gone"}
    <3>1. \A r \in Starts : process[r] = "up" => object[r].phase \notin {"none", "exited", "gone"}
      BY <2>1 DEF InOrder, Handshake
    <3>2. \A r, x \in Starts : r < x \/ r = x \/ x < r
      BY DEF Starts
    <3> QED BY <2>1, <2>3, <3>1, <3>2 DEF InOrder
  <2>5. CASE GaveUp(cmd[c].home)
    BY <2>5 DEF GaveUp
  <2>6. CASE ~GaveUp(cmd[c].home)
    <3>1. PICK s \in Starts : s = cmd[c].home
      BY <2>3
    <3>2. TrackedBy(object[s], s) /\ ObjectTrue(object[s], s)
      BY <2>1, <2>4, <2>6, <3>1 DEF Tracked, ObjectsTrue
    <3>3. c \notin object[s].finishedTurns /\ d \notin object[s].finishedTurns
      BY <3>2 DEF ObjectTrue, Ended, Working
    <3> QED BY <2>2, <2>3, <2>4, <3>1, <3>2, <3>3 DEF TrackedBy
  <2> QED BY <2>5, <2>6
<1> QED BY <1>1, CodexInvariant, PTL

\* A command is completed on the provider's word about the command's own
\* turn, unless another call of the session was given up: claimTurn() and
\* the listener that acknowledges turn events.
THEOREM CompletedOnItsWord == CodexSpec => []CompletedIsProven
<1>1. CodexInv => CompletedIsProven
  BY DEF CodexInv
<1> QED BY <1>1, CodexInvariant, PTL

=============================================================================
