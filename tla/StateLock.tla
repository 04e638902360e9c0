----------------------------- MODULE StateLock -----------------------------
(***************************************************************************)
(* The state lock (lib/lock.ts): a file that exists while a process holds  *)
(* the lock, created exclusively and naming its holder.  The coordinator,  *)
(* every CLI command and the master's tools are processes of their own, so *)
(* each system call of acquireLock and releaseLock is a step.              *)
(*                                                                         *)
(* A file is stale once it is older than LOCK_STALE_MS and ancient once it *)
(* is older than MALFORMED_STALE_BREAK_MS, twenty times that.              *)
(***************************************************************************)
EXTENDS Integers, FiniteSets

CONSTANTS
    Procs,        \* processes that use the state directory
    MaxAttempts,  \* attempts of one acquireLock (5 in the code)
    MaxCrashes,   \* bound: how many processes die
    NoProc

ASSUME ProcsAssumption == NoProc \notin Procs
ASSUME AttemptsAssumption == MaxAttempts \in Nat \ {0}
ASSUME CrashesAssumption == MaxCrashes \in Nat

VARIABLES
    file,     \* the lock file: who created it, whether it is written, its age
    pc,       \* the next system call of each process
    attempt,  \* the attempts its acquireLock has used
    seen,     \* the age it read with stat and the pid it read from the file
    crashes   \* processes that died so far

vars == <<file, pc, attempt, seen, crashes>>

Ages == {"fresh", "stale", "ancient"}
NoFile == [by |-> NoProc, written |-> FALSE, age |-> "fresh"]
Files == {NoFile} \cup [by : Procs, written : BOOLEAN, age : Ages]
NothingSeen == [age |-> "fresh", pid |-> NoProc]

Exists == file # NoFile
Dead(p) == pc[p] = "dead"

\* Where a process is the one that created the lock it believes it holds.
Holding == {"write", "held", "releasing"}

Init ==
    /\ file = NoFile
    /\ pc = [p \in Procs |-> "out"]
    /\ attempt = [p \in Procs |-> 0]
    /\ seen = [p \in Procs |-> NothingSeen]
    /\ crashes = 0

-----------------------------------------------------------------------------
(* acquireLock                                                             *)

Goto(p, step) == pc' = [pc EXCEPT ![p] = step]

\* acquireLock throws; its caller reports the error and may try again later.
GiveUp(p) ==
    /\ Goto(p, "out")
    /\ seen' = [seen EXCEPT ![p] = NothingSeen]
    /\ attempt' = [attempt EXCEPT ![p] = 0]

\* The loop goes round, or throws once its attempts are used up.
Retry(p) ==
    IF attempt[p] + 1 < MaxAttempts
    THEN /\ Goto(p, "create")
         /\ attempt' = [attempt EXCEPT ![p] = @ + 1]
         /\ seen' = [seen EXCEPT ![p] = NothingSeen]
    ELSE GiveUp(p)

Begin(p) ==
    /\ pc[p] = "out"
    /\ Goto(p, "create")
    /\ UNCHANGED <<file, attempt, seen, crashes>>

\* openSync with O_EXCL.
Create(p) ==
    /\ pc[p] = "create"
    /\ IF Exists
       THEN Goto(p, "stat") /\ file' = file
       ELSE Goto(p, "write") /\ file' = [by |-> p, written |-> FALSE, age |-> "fresh"]
    /\ UNCHANGED <<attempt, seen, crashes>>

\* The descriptor stays with the file it opened: a file unlinked meanwhile is
\* written in vain.
WriteHolder(p) ==
    /\ pc[p] = "write"
    /\ file' = IF file.by = p THEN [by |-> p, written |-> TRUE, age |-> "fresh"] ELSE file
    /\ Goto(p, "held")
    /\ attempt' = [attempt EXCEPT ![p] = 0]
    /\ UNCHANGED <<seen, crashes>>

\* existsSync and statSync: a file that is gone is tried again, a young one
\* is held.
Stat(p) ==
    /\ pc[p] = "stat"
    /\ \/ ~Exists /\ Retry(p)
       \/ Exists /\ file.age = "fresh" /\ GiveUp(p)
       \/ /\ Exists /\ file.age # "fresh"
          /\ Goto(p, "read")
          /\ seen' = [seen EXCEPT ![p].age = file.age]
          /\ UNCHANGED attempt
    /\ UNCHANGED <<file, crashes>>

\* Mutant: a file that does not name its holder is broken once it is stale.
BreaksUnwritten(p) ==
    /\ pc[p] = "read"
    /\ \/ ~Exists /\ Retry(p)
       \/ /\ Exists
          /\ Goto(p, IF file.written THEN "probe" ELSE "break")
          /\ seen' = [seen EXCEPT ![p].pid = file.by]
          /\ UNCHANGED attempt
    /\ UNCHANGED <<file, crashes>>

\* Mutant: a file that does not name its holder is never broken.
LeavesUnwritten(p) ==
    /\ pc[p] = "read"
    /\ \/ ~Exists /\ Retry(p)
       \/ /\ Exists /\ file.written
          /\ Goto(p, "probe")
          /\ seen' = [seen EXCEPT ![p].pid = file.by]
          /\ UNCHANGED attempt
       \/ Exists /\ ~file.written /\ GiveUp(p)
    /\ UNCHANGED <<file, crashes>>

\* A file that does not name its holder is broken only if it was ancient.
ReadHolder(p) ==
    /\ pc[p] = "read"
    /\ \/ ~Exists /\ Retry(p)
       \/ /\ Exists /\ file.written
          /\ Goto(p, "probe")
          /\ seen' = [seen EXCEPT ![p].pid = file.by]
          /\ UNCHANGED attempt
       \/ /\ Exists /\ ~file.written /\ seen[p].age = "ancient"
          /\ Goto(p, "break")
          /\ UNCHANGED <<attempt, seen>>
       \/ Exists /\ ~file.written /\ seen[p].age # "ancient" /\ GiveUp(p)
    /\ UNCHANGED <<file, crashes>>

\* Mutant: a stale lock is broken whether or not its holder lives.
BreaksLiveLocks(p) ==
    /\ pc[p] = "probe"
    /\ Goto(p, "break")
    /\ UNCHANGED <<file, attempt, seen, crashes>>

\* isProcessAlive
Probe(p) ==
    /\ pc[p] = "probe"
    /\ IF Dead(seen[p].pid) THEN Goto(p, "break") /\ UNCHANGED <<attempt, seen>> ELSE GiveUp(p)
    /\ UNCHANGED <<file, crashes>>

\* unlinkSync removes whatever file is there by now.
Break(p) ==
    /\ pc[p] = "break"
    /\ file' = NoFile
    /\ Retry(p)
    /\ UNCHANGED crashes

-----------------------------------------------------------------------------
(* releaseLock                                                             *)

\* A file that is gone needs no release; one that names another process, or
\* none, makes the release throw.
CheckHolder(p) ==
    /\ pc[p] = "held"
    /\ Goto(p, IF Exists /\ file.written /\ file.by = p THEN "releasing" ELSE "out")
    /\ UNCHANGED <<file, attempt, seen, crashes>>

Unlink(p) ==
    /\ pc[p] = "releasing"
    /\ file' = NoFile
    /\ Goto(p, "out")
    /\ UNCHANGED <<attempt, seen, crashes>>

-----------------------------------------------------------------------------
(* The environment.                                                        *)

Crash(p) ==
    /\ ~Dead(p)
    /\ crashes < MaxCrashes
    /\ Goto(p, "dead")
    /\ crashes' = crashes + 1
    /\ UNCHANGED <<file, attempt, seen>>

\* A live process is done with its file long before it is ancient; it may
\* well keep it until it is stale.
Older ==
    /\ Exists
    /\ file.age # "ancient"
    /\ file.age = "stale" => Dead(file.by)
    /\ file' = [file EXCEPT !.age = IF @ = "fresh" THEN "stale" ELSE "ancient"]
    /\ UNCHANGED <<pc, attempt, seen, crashes>>

Step(p) ==
    \/ Begin(p) \/ Create(p) \/ WriteHolder(p) \/ Stat(p) \/ ReadHolder(p) \/ Probe(p)
    \/ Break(p) \/ CheckHolder(p) \/ Unlink(p)

Next == Older \/ \E p \in Procs : Step(p) \/ Crash(p)

Spec == Init /\ [][Next]_vars

TypeOK ==
    /\ file \in Files
    /\ pc \in [Procs -> {"out", "create", "write", "stat", "read", "probe", "break",
                         "held", "releasing", "dead"}]
    /\ attempt \in [Procs -> 0 .. MaxAttempts - 1]
    /\ seen \in [Procs -> [age : Ages, pid : Procs \cup {NoProc}]]
    /\ crashes \in 0 .. MaxCrashes

-----------------------------------------------------------------------------
(* Properties.                                                             *)

\* acquireLock gives "a file-based exclusive lock": no two processes are in
\* the section it guards.
MutualExclusion ==
    \A p, q \in Procs : pc[p] \in {"held", "releasing"} /\ pc[q] \in {"held", "releasing"} => p = q

\* A process inside the section finds its own lock file when it releases it:
\* withLock never throws away the result of a callback that succeeded.
ReleaseSucceeds ==
    \A p \in Procs : pc[p] \in {"held", "releasing"} => file.by = p /\ file.written

\* A lock is broken only while the process it names is dead.
BreaksDeadLocksOnly ==
    [][\A p \in Procs : file.by = p /\ pc[p] \in Holding /\ file' = NoFile => pc[p] = "releasing"]_vars

-----------------------------------------------------------------------------
(* Liveness.  Time passes, and callers that were refused try again.        *)

FairSpec == Spec /\ WF_vars(Older) /\ \A p \in Procs : WF_vars(Step(p))

\* A lock whose holder died does not stay: a later acquireLock breaks it.
DeadLocksAreBroken ==
    \A p \in Procs : Exists /\ file.by = p /\ Dead(p) ~> file.by # p
=============================================================================
