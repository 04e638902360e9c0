----------------------------- MODULE SessionStart -----------------------------
(***************************************************************************)
(* orc start-session (cli/start-session.ts), the coordinator's presence    *)
(* lock coordinator.pid (coordinator.ts, lib/coordinatorLiveness.ts,       *)
(* lib/processIdentity.ts) and the reset and rollback of runtime state     *)
(* around a session start (lib/sessionState.ts).                           *)
(*                                                                         *)
(* A session asks whether a coordinator runs, reuses or terminates it or   *)
(* goes on without one, resets the claims unless it reuses, launches the   *)
(* master and then spawns a coordinator if it sees none.  If the launch    *)
(* fails, it puts back the claims of its snapshot.  Sessions and           *)
(* coordinators are processes of their own and interleave; each open,      *)
(* read, write and unlink of the lock is a step.                           *)
(*                                                                         *)
(* Processes never share an identity, but the PID of a dead coordinator    *)
(* may be given to an unrelated process.                                   *)
(***************************************************************************)
EXTENDS Integers, FiniteSets

CONSTANTS
    Sessions,     \* start-session processes
    Runs,         \* runs of the one task the rollback is about
    MaxCoords,    \* bound: coordinators spawned
    MaxCrashes,   \* bound: coordinators that die without releasing the lock
    MaxStarting,  \* coordinators that may be acquiring the lock at once
    NoRun

ASSUME RunsAssumption == NoRun \notin Runs
ASSUME BoundsAssumption ==
    MaxCoords \in Nat /\ MaxCrashes \in Nat /\ MaxStarting \in Nat

VARIABLES
    file,     \* coordinator.pid: the coordinator that created it, and whether it wrote it
    coord,    \* what each coordinator process is doing
    tries,    \* attempts each coordinator has made to acquire the lock
    reused,   \* dead coordinators whose PID another process has now
    session,  \* where each session is
    action,   \* what it does about the coordinator
    victim,   \* the coordinator it terminates
    snap,     \* the claims and the task it would put back
    claim,    \* the claims
    task,     \* the task's status and the run it is bound to
    crashes   \* coordinators that died so far

vars == <<file, coord, tries, reused, session, action, victim, snap, claim, task, crashes>>
runtime == <<claim, task>>
sessions == <<session, action, victim, snap>>

Coords == 1 .. MaxCoords

NoFile == [by |-> 0, written |-> FALSE]
Live == {"spawned", "opened", "breaking", "running", "stopping"}
Acquiring == {"spawned", "opened", "breaking"}

State == [claim |-> claim, task |-> task]
NoState == [claim |-> [r \in Runs |-> "none"], task |-> [status |-> "todo", run |-> NoRun]]

Init ==
    /\ file = NoFile
    /\ coord = [c \in Coords |-> "none"]
    /\ tries = [c \in Coords |-> 0]
    /\ reused = {}
    /\ session = [s \in Sessions |-> "new"]
    /\ action = [s \in Sessions |-> "none"]
    /\ victim = [s \in Sessions |-> 0]
    /\ snap = [s \in Sessions |-> NoState]
    /\ claim = NoState.claim
    /\ task = NoState.task
    /\ crashes = 0

-----------------------------------------------------------------------------
(* The lock.                                                               *)

isPidAlive(c) == coord[c] \in Live \/ c \in reused

\* Mutant: a PID that is alive is the coordinator that wrote the lock.
TrustsPid(f) == f.written /\ isPidAlive(f.by)

\* The recorded start fingerprint tells a reused PID from the coordinator;
\* a lock that is empty, or unreadable, is held by nobody.
isCoordinatorLockHeld(f) == f.written /\ coord[f.by] \in Live

\* O_EXCL creates the file; it is written next.
Open(c) ==
    /\ coord[c] = "spawned" /\ file = NoFile
    /\ file' = [by |-> c, written |-> FALSE]
    /\ coord' = [coord EXCEPT ![c] = "opened"]
    /\ UNCHANGED <<tries, reused, sessions, runtime, crashes>>

\* The payload goes to the file that was opened, wherever its name has gone.
WritePid(c) ==
    /\ coord[c] = "opened"
    /\ file' = IF file.by = c THEN [file EXCEPT !.written = TRUE] ELSE file
    /\ coord' = [coord EXCEPT ![c] = "running"]
    /\ UNCHANGED <<tries, reused, sessions, runtime, crashes>>

\* The file exists: exit if its coordinator runs, take it for stale if not.
ReadOther(c) ==
    /\ coord[c] = "spawned" /\ file # NoFile
    /\ coord' = [coord EXCEPT ![c] = IF isCoordinatorLockHeld(file) THEN "dead" ELSE "breaking"]
    /\ UNCHANGED <<file, tries, reused, sessions, runtime, crashes>>

\* Whatever goes by the name now is unlinked; four attempts are made.
UnlinkStale(c) ==
    /\ coord[c] = "breaking"
    /\ file' = NoFile
    /\ tries' = [tries EXCEPT ![c] = @ + 1]
    /\ coord' = [coord EXCEPT ![c] = IF tries[c] = 3 THEN "dead" ELSE "spawned"]
    /\ UNCHANGED <<reused, sessions, runtime, crashes>>

releaseCoordinatorLock(c) == file' = NoFile

\* doShutdown, at the end; or main giving up after it has the lock.
Exits(c) ==
    /\ coord[c] \in {"running", "stopping"}
    /\ coord[c] = "running" => crashes < MaxCrashes
    /\ crashes' = crashes + (IF coord[c] = "running" THEN 1 ELSE 0)
    /\ releaseCoordinatorLock(c)
    /\ coord' = [coord EXCEPT ![c] = "dead"]
    /\ UNCHANGED <<tries, reused, sessions, runtime>>

\* The lock stays behind; lost: the coordinator never came to run.
Dies(c) ==
    /\ coord[c] \in Live /\ crashes < MaxCrashes
    /\ crashes' = crashes + 1
    /\ coord' = [coord EXCEPT ![c] = IF coord[c] \in Acquiring THEN "lost" ELSE "dead"]
    /\ UNCHANGED <<file, tries, reused, sessions, runtime>>

PidReused(c) ==
    /\ coord[c] \in {"dead", "lost"} /\ file.by = c /\ c \notin reused
    /\ reused' = reused \cup {c}
    /\ UNCHANGED <<file, coord, tries, sessions, runtime, crashes>>

-----------------------------------------------------------------------------
(* The coordinator at work: it claims the task and ends the run.           *)

Works(c) == coord[c] \in {"running", "stopping"}

claimTask(r) ==
    /\ \E c \in Coords : Works(c)
    /\ task.status = "todo" /\ claim[r] = "none"
    /\ claim' = [claim EXCEPT ![r] = "active"]
    /\ task' = [status |-> "busy", run |-> r]
    /\ UNCHANGED <<file, coord, tries, reused, sessions, crashes>>

\* Merged: the task is done.  Failed: it is to do again.  A task that is
\* not bound to this run is left alone.
finishRun(r) ==
    /\ \E c \in Coords : Works(c)
    /\ claim[r] = "active"
    /\ \E success \in BOOLEAN :
          /\ claim' = [claim EXCEPT ![r] = IF success THEN "done" ELSE "failed"]
          /\ task' = IF task.run # r THEN task
                     ELSE [status |-> IF success THEN "done" ELSE "todo", run |-> NoRun]
    /\ UNCHANGED <<file, coord, tries, reused, sessions, crashes>>

-----------------------------------------------------------------------------
(* The session.                                                            *)

\* The coordinator that coordinatorStatus reports, 0 if none runs.
coordinatorStatus == IF isCoordinatorLockHeld(file) THEN file.by ELSE 0

Goes(s, where) == session' = [session EXCEPT ![s] = where]

promptCoordinatorAction(s) ==
    /\ session[s] = "new"
    /\ IF coordinatorStatus = 0
       THEN action' = [action EXCEPT ![s] = "start"]
       ELSE \E a \in {"reuse", "terminate"} : action' = [action EXCEPT ![s] = a]
    /\ victim' = [victim EXCEPT ![s] = IF action'[s] = "terminate" THEN coordinatorStatus ELSE 0]
    /\ Goes(s, IF action'[s] = "terminate" THEN "terminating" ELSE "preparing")
    /\ UNCHANGED <<file, coord, tries, reused, snap, runtime, crashes>>

\* stopCoordinator: SIGTERM, if the lock is still the victim's.
stopCoordinator(s) ==
    /\ session[s] = "terminating"
    /\ IF file.by = victim[s] /\ coord[victim[s]] \in Live
       THEN /\ coord' = [coord EXCEPT ![victim[s]] = IF @ = "running" THEN "stopping" ELSE @]
            /\ Goes(s, "waiting")
       ELSE UNCHANGED coord /\ Goes(s, "preparing")
    /\ UNCHANGED <<file, tries, reused, action, victim, snap, runtime, crashes>>

\* Mutant: a lock that is still there is unlinked, whoever holds it.
RemovesPidFile(s) == NoFile

removeCoordinatorPidFileIfMatches(s) ==
    IF file.written /\ file.by = victim[s] THEN NoFile ELSE file

Stopped(s) ==
    /\ session[s] = "waiting" /\ coord[victim[s]] \notin Live
    /\ file' = removeCoordinatorPidFileIfMatches(s)
    /\ Goes(s, "preparing")
    /\ UNCHANGED <<coord, tries, reused, action, victim, snap, runtime, crashes>>

\* After 2 s the session goes on with the existing coordinator.
StillRunning(s) ==
    /\ session[s] = "waiting" /\ coord[victim[s]] \in Live
    /\ Goes(s, "preparing")
    /\ UNCHANGED <<file, coord, tries, reused, action, victim, snap, runtime, crashes>>

\* The claims as a session reset leaves them.
Reset(r) == IF claim[r] = "active" THEN "failed" ELSE claim[r]

\* prepareSessionReuse takes a snapshot, resetVolatileRuntimeStateForSession
\* also fails every active claim and requeues its task.
Prepares(s) ==
    /\ session[s] = "preparing"
    /\ snap' = [snap EXCEPT ![s] = State]
    /\ IF action[s] = "reuse" THEN UNCHANGED runtime
       ELSE /\ claim' = [r \in Runs |-> Reset(r)]
            /\ task' = IF task.status = "busy" THEN NoState.task ELSE task
    /\ Goes(s, "launching")
    /\ UNCHANGED <<file, coord, tries, reused, action, victim, crashes>>

\* Mutant: the task is put back whatever became of it.
PutsBack(old) == old

\* Only a task that is to do is claimed again, for a run of the snapshot.
restoreBacklogStatuses(old) ==
    IF /\ old.status = "busy" /\ task.status = "todo"
    THEN old ELSE task

\* The launch fails: restoreVolatileRuntimeStateFromSnapshot.
LaunchFails(s) ==
    /\ session[s] = "launching"
    /\ claim' = snap[s].claim
    /\ task' = restoreBacklogStatuses(snap[s].task)
    /\ snap' = [snap EXCEPT ![s] = NoState]
    /\ Goes(s, "ended")
    /\ UNCHANGED <<file, coord, tries, reused, action, victim, crashes>>

NeedsCoordinator(s) == coordinatorStatus = 0

\* The master runs; spawnCoordinator if no coordinator is seen.
Launches(s) ==
    /\ session[s] = "launching"
    /\ IF NeedsCoordinator(s)
       THEN /\ Cardinality({c \in Coords : coord[c] \in Acquiring}) < MaxStarting
            /\ \E c \in Coords :
                  /\ coord[c] = "none" /\ \A d \in 1 .. c - 1 : coord[d] # "none"
                  /\ coord' = [coord EXCEPT ![c] = "spawned"]
       ELSE UNCHANGED coord
    /\ snap' = [snap EXCEPT ![s] = NoState]
    /\ Goes(s, "on")
    /\ UNCHANGED <<file, tries, reused, action, victim, runtime, crashes>>

\* The master's bootstrap or MCP configuration cannot be written: the session
\* ends, and what it reset stays reset.
PreparationFails(s) ==
    /\ session[s] = "launching"
    /\ snap' = [snap EXCEPT ![s] = NoState]
    /\ Goes(s, "ended")
    /\ UNCHANGED <<file, coord, tries, reused, action, victim, runtime, crashes>>

\* The master exits, or the session is interrupted on its way.
Leaves(s) ==
    /\ session[s] \notin {"new", "ended"}
    /\ Goes(s, "ended")
    /\ snap' = [snap EXCEPT ![s] = NoState]
    /\ UNCHANGED <<file, coord, tries, reused, action, victim, runtime, crashes>>

-----------------------------------------------------------------------------
Coordinator(c) == Open(c) \/ WritePid(c) \/ ReadOther(c) \/ UnlinkStale(c)

Next ==
    \/ \E c \in Coords : Coordinator(c) \/ Exits(c) \/ Dies(c) \/ PidReused(c)
    \/ \E r \in Runs : claimTask(r) \/ finishRun(r)
    \/ \E s \in Sessions :
          \/ promptCoordinatorAction(s) \/ stopCoordinator(s) \/ Stopped(s) \/ StillRunning(s)
          \/ Prepares(s) \/ PreparationFails(s) \/ LaunchFails(s) \/ Launches(s) \/ Leaves(s)

Spec == Init /\ [][Next]_vars

\* Processes that are running go on, and a coordinator told to stop stops.
\* How long the session's user takes to answer the prompt is not assumed.
FairSpec ==
    /\ Spec
    /\ \A s \in Sessions : WF_vars(Launches(s))
    /\ \A c \in Coords : WF_vars(Coordinator(c)) /\ WF_vars(coord[c] = "stopping" /\ Exits(c))

-----------------------------------------------------------------------------
(* Properties.                                                             *)

TypeOK ==
    /\ file \in [by : 0 .. MaxCoords, written : BOOLEAN]
    /\ coord \in [Coords -> Live \cup {"none", "dead", "lost"}]
    /\ tries \in [Coords -> 0 .. 4]
    /\ reused \subseteq Coords
    /\ session \in [Sessions -> {"new", "terminating", "waiting", "preparing", "launching", "on", "ended"}]
    /\ action \in [Sessions -> {"none", "start", "reuse", "terminate"}]
    /\ victim \in [Sessions -> 0 .. MaxCoords]
    /\ claim \in [Runs -> {"none", "active", "done", "failed"}]
    /\ task \in [status : {"todo", "busy", "done"}, run : Runs \cup {NoRun}]
    /\ snap \in [Sessions -> [claim : [Runs -> {"none", "active", "done", "failed"}],
                              task : [status : {"todo", "busy", "done"}, run : Runs \cup {NoRun}]]]
    /\ crashes \in 0 .. MaxCrashes

\* "Prevents two coordinator processes from running against the same state
\* dir": crashes, restarts and sessions that terminate a coordinator leave
\* one at most, as long as two of them do not start at the same time.
OneCoordinator == Cardinality({c \in Coords : Works(c)}) <= 1

\* A coordinator at work can be found: status, terminate and kill-all go by
\* the lock, and nothing that happens to other coordinators takes it away.
LockNamesCoordinator == \A c \in Coords : Works(c) => file = [by |-> c, written |-> TRUE]

\* No failed session start takes back a task that was done since its
\* snapshot, even if it revives the claim of the run that did it.
DoneTaskStaysDone == [][task.status = "done" => task'.status = "done"]_vars

\* A session that opens has a coordinator at work sooner or later, whatever
\* lock it found: stale, half-written, or with a PID that is reused.  Only a
\* coordinator that dies while it acquires the lock excuses its absence; one
\* that was told to stop counts until it is gone.
SessionGetsCoordinator ==
    \A s \in Sessions :
        session[s] = "launching" ~> \/ \E c \in Coords : Works(c) \/ coord[c] = "lost"
                                    \/ session[s] = "ended"

=============================================================================
