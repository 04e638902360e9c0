------------------------------- MODULE Migration -------------------------------
(***************************************************************************)
(* `orc project migrate --execute` (lib/projectMigration.ts): a legacy     *)
(* installation becomes a project.  The migrator takes an inventory, holds *)
(* the coordinator locks, rebuilds the project's state from the legacy     *)
(* files, verifies it against the inventory, and cuts over.  It may die    *)
(* between any two steps and is then run again.  Meanwhile somebody may    *)
(* edit the legacy files, and a coordinator of an older version may run on *)
(* them.  From the cutover on, the project is TaskStore's.                 *)
(*                                                                         *)
(* The installation is a version number: an edit of its specs, plans,      *)
(* settings or history makes the next version.                             *)
(***************************************************************************)
EXTENDS TaskStore

CONSTANTS
    Migrators,      \* processes that run migrate --execute
    MaxVersions,    \* bound: edits of the legacy installation
    MaxCrashes,     \* bound: migrators and legacy coordinators that die
    QuietInventory  \* nobody edits while the inventory is taken

ASSUME MigrationAssumption ==
    /\ QuietInventory \in BOOLEAN /\ MaxVersions \in Nat /\ MaxCrashes \in Nat
    /\ 0 .. MaxVersions \subseteq Bodies

VARIABLES
    legacy,    \* the installation's version
    oldcoord,  \* a coordinator of an older version runs on it
    busy,      \* it has an active claim
    lock,      \* the coordinator.pid of both state directories
    marker,    \* the installation names its project
    record,    \* migration.json, and the registry's row, of the project
    backup,    \* the version in migration-backup
    history,   \* the version of the history in the project
    settings,  \* the versions whose settings the project has
    listed,    \* the versions whose settings migration.json lists
    pc, plan,  \* where each migrator is, and what it planned
    crashes    \* deaths so far

migration == <<legacy, oldcoord, busy, lock, marker, record, backup, history, settings, listed, pc, plan, crashes>>
vars == <<store, migration>>

Places == {"legacy", "project"}
NoPlan == [tasks |-> 0, fingerprint |-> 0, idle |-> FALSE, existing |-> FALSE, held |-> {}]

Init ==
    /\ StoreInit
    /\ legacy = 0 /\ oldcoord = FALSE /\ busy \in BOOLEAN
    /\ lock = [l \in Places |-> "none"]
    /\ marker = FALSE /\ record = "none"
    /\ backup = {} /\ history = {} /\ settings = {} /\ listed = {}
    /\ pc = [m \in Migrators |-> "idle"] /\ plan = [m \in Migrators |-> NoPlan]
    /\ crashes = 0

\* isActivatable: a project whose migration was not cut over is not active.
Active == record = "cut_over"

Go(m, step) == pc' = [pc EXCEPT ![m] = step]

-----------------------------------------------------------------------------
(* The legacy installation.                                                *)

\* Somebody edits a spec, a plan or the config, or the old coordinator
\* writes its state, claims included.
LegacyEdit ==
    /\ legacy < MaxVersions /\ ~Active
    /\ QuietInventory => \A m \in Migrators : pc[m] # "inventory"
    /\ legacy' = legacy + 1
    /\ busy' \in {busy} \cup (IF oldcoord THEN BOOLEAN ELSE {})
    /\ UNCHANGED <<store, oldcoord, lock, marker, record, backup, history, settings, listed, pc, plan, crashes>>

\* An older version's coordinator starts where no live process has the lock,
\* and stops or dies; only its own lock goes with it.
LegacyCoordinator ==
    LET mine == lock["legacy"] = "coordinator"
        Leave(l) == /\ oldcoord /\ oldcoord' = FALSE
                    /\ lock' = IF mine THEN [lock EXCEPT !["legacy"] = l] ELSE lock
    IN
    /\ ~Active
    /\ \/ /\ ~oldcoord /\ lock["legacy"] \in {"none", "dead"}
          /\ oldcoord' = TRUE /\ lock' = [lock EXCEPT !["legacy"] = "coordinator"]
          /\ UNCHANGED crashes
       \/ Leave("none") /\ UNCHANGED crashes
       \/ crashes < MaxCrashes /\ crashes' = crashes + 1 /\ Leave("dead")
    /\ UNCHANGED <<store, legacy, busy, marker, record, backup, history, settings, listed, pc, plan>>

-----------------------------------------------------------------------------
(* Planning.                                                               *)

\* The inventory reads the tasks and the claims first ...
planMigration(m) ==
    /\ pc[m] = "idle"
    /\ plan' = [plan EXCEPT ![m] = [NoPlan EXCEPT !.tasks = legacy, !.idle = ~busy]]
    /\ Go(m, "inventory")
    /\ UNCHANGED <<store, legacy, oldcoord, busy, lock, marker, record, backup, history, settings, listed, crashes>>

\* runningCoordinatorPid: the process the lock names lives.
runningCoordinatorPid(l) ==
    \/ lock[l] \in Migrators \cup {"coordinator"}
    \/ l = "project" /\ coord # "down"

\* readMigrationMarker, and the project it names.
migrated_to == marker

blocking(m) ==
    \/ ~plan[m].idle
    \/ runningCoordinatorPid("legacy")
    \/ record # "none" /\ runningCoordinatorPid("project")

\* ... and ends with the fingerprint of the whole installation.  A cutover
\* that was interrupted after the marker was written is finished here.
sourceFingerprint(m) ==
    /\ pc[m] = "inventory"
    /\ IF migrated_to \/ blocking(m)
       THEN /\ Go(m, "idle") /\ plan' = [plan EXCEPT ![m] = NoPlan]
            /\ record' = IF migrated_to THEN "cut_over" ELSE record
       ELSE /\ Go(m, "legacy")
            /\ plan' = [plan EXCEPT ![m].fingerprint = legacy, ![m].existing = record # "none"]
            /\ UNCHANGED record
    /\ UNCHANGED <<store, legacy, oldcoord, busy, lock, marker, backup, history, settings, listed, crashes>>

-----------------------------------------------------------------------------
(* The locks: the installation's, then that of a project already there.    *)

Replacing(l) == IF l = "legacy" THEN "replace legacy" ELSE "replace project"

AfterLock(m, l) == IF l = "legacy" /\ plan[m].existing THEN "project" ELSE "register"

Takes(m, l) ==
    /\ lock' = [lock EXCEPT ![l] = m]
    /\ plan' = [plan EXCEPT ![m].held = @ \cup {l}]
    /\ Go(m, AfterLock(m, l))

\* A lock file is created; one left by a dead process is found to be that,
\* and replaced in a step of its own.
acquireMigrationLock(m, l) ==
    /\ pc[m] = l
    /\ \/ runningCoordinatorPid(l) /\ Go(m, "release") /\ UNCHANGED <<lock, plan>>
       \/ ~runningCoordinatorPid(l) /\ lock[l] = "dead" /\ Go(m, Replacing(l)) /\ UNCHANGED <<lock, plan>>
       \/ ~runningCoordinatorPid(l) /\ lock[l] = "none" /\ Takes(m, l)
    /\ UNCHANGED <<store, legacy, oldcoord, busy, marker, record, backup, history, settings, listed, crashes>>

replaceLock(m, l) ==
    /\ pc[m] = Replacing(l)
    /\ Takes(m, l)
    /\ UNCHANGED <<store, legacy, oldcoord, busy, marker, record, backup, history, settings, listed, crashes>>

\* The locks this migrator took are removed, whoever's they are by now.
releaseLocks(m) ==
    /\ pc[m] = "release"
    /\ lock' = [l \in Places |-> IF l \in plan[m].held THEN "none" ELSE lock[l]]
    /\ Go(m, "idle") /\ plan' = [plan EXCEPT ![m] = NoPlan]
    /\ UNCHANGED <<store, legacy, oldcoord, busy, marker, record, backup, history, settings, listed, crashes>>

-----------------------------------------------------------------------------
(* Execution.                                                              *)

\* git_root is UNIQUE: the registry refuses a second row for the repository.
Registrable(m) == plan[m].existing \/ record = "none"

\* A new project has its record before it has its row in the registry.
register(m) ==
    /\ pc[m] = "register"
    /\ IF Registrable(m)
       THEN Go(m, "backup") /\ record' = "importing"
       ELSE Go(m, "release") /\ UNCHANGED record
    /\ UNCHANGED <<store, legacy, oldcoord, busy, lock, marker, backup, history, settings, listed, plan, crashes>>

\* One backup, kept over all attempts.
backupInstallation(m) ==
    /\ pc[m] = "backup"
    /\ backup' = IF backup = {} THEN {legacy} ELSE backup
    /\ Go(m, "wipe")
    /\ UNCHANGED <<store, legacy, oldcoord, busy, lock, marker, record, history, settings, listed, plan, crashes>>

\* What an earlier attempt left is removed: runtime.db with its tasks and runs.
wipe(m) ==
    /\ pc[m] = "wipe"
    /\ spec' = [t \in Tasks |-> <<>>] /\ status' = [t \in Tasks |-> "todo"]
    /\ bound' = [r \in Runs |-> NoRevision] /\ shown' = [t \in Tasks |-> 0]
    /\ told' = [t \in Tasks |-> [i \in Numbers |-> 0]]
    /\ history' = {}
    /\ Go(m, "copy")
    /\ UNCHANGED <<coord, edit, after, stops, legacy, oldcoord, busy, lock, marker, record, backup, settings, listed, plan, crashes>>

copyHistory(m) ==
    /\ pc[m] = "copy"
    /\ history' = {legacy}
    /\ Go(m, "import")
    /\ UNCHANGED <<store, legacy, oldcoord, busy, lock, marker, record, backup, settings, listed, plan, crashes>>

\* Every planned task, in one transaction.
importPlannedTasks(m) ==
    /\ pc[m] = "import"
    /\ spec' = [t \in Tasks |-> <<[body |-> plan[m].tasks, previous |-> 0]>>]
    /\ shown' = [t \in Tasks |-> 1]
    /\ Go(m, "settings")
    /\ UNCHANGED <<status, bound, told, coord, edit, after, stops, legacy, oldcoord, busy, lock, marker, record, backup,
                   history, settings, listed, plan, crashes>>

\* The settings of the last attempt that got to list them are unset, the
\* planned ones set, ...
importSettings(m) ==
    /\ pc[m] = "settings"
    /\ settings' = (settings \ listed) \cup {plan[m].tasks}
    /\ Go(m, "list")
    /\ UNCHANGED <<store, legacy, oldcoord, busy, lock, marker, record, backup, history, listed, plan, crashes>>

\* ... and then listed.
listSettings(m) ==
    /\ pc[m] = "list"
    /\ listed' = {plan[m].tasks}
    /\ Go(m, "verify")
    /\ UNCHANGED <<store, legacy, oldcoord, busy, lock, marker, record, backup, history, settings, plan, crashes>>

\* The tasks are the planned ones and so are the settings.
SameContent(m) ==
    /\ \A t \in Tasks : spec[t] = <<[body |-> plan[m].tasks, previous |-> 0]>>
    /\ settings = {plan[m].tasks}

\* Mutant: the fingerprint is not taken again.
ComparesContent(m) == SameContent(m)

\* The rows and files of the history are counted; that they are those of the
\* inventory follows from the fingerprint.
verifyParity(m) == SameContent(m) /\ legacy = plan[m].fingerprint

verify(m) ==
    /\ pc[m] = "verify"
    /\ IF verifyParity(m)
       THEN record' = "verified" /\ Go(m, "mark")
       ELSE record' = "verification_failed" /\ Go(m, "release")
    /\ UNCHANGED <<store, legacy, oldcoord, busy, lock, marker, backup, history, settings, listed, plan, crashes>>

writeMarker(m) ==
    /\ pc[m] = "mark"
    /\ marker' = TRUE
    /\ Go(m, "cut")
    /\ UNCHANGED <<store, legacy, oldcoord, busy, lock, record, backup, history, settings, listed, plan, crashes>>

cutOver(m) ==
    /\ pc[m] = "cut"
    /\ record' = "cut_over"
    /\ Go(m, "release")
    /\ UNCHANGED <<store, legacy, oldcoord, busy, lock, marker, backup, history, settings, listed, plan, crashes>>

\* The process dies; its locks stay.
Crash(m) ==
    /\ pc[m] # "idle" /\ crashes < MaxCrashes
    /\ crashes' = crashes + 1
    /\ lock' = [l \in Places |-> IF lock[l] = m THEN "dead" ELSE lock[l]]
    /\ Go(m, "idle") /\ plan' = [plan EXCEPT ![m] = NoPlan]
    /\ UNCHANGED <<store, legacy, oldcoord, busy, marker, record, backup, history, settings, listed>>

-----------------------------------------------------------------------------

executeMigration(m) ==
    \/ register(m) \/ backupInstallation(m) \/ wipe(m) \/ copyHistory(m) \/ importPlannedTasks(m)
    \/ importSettings(m) \/ listSettings(m) \/ verify(m) \/ writeMarker(m) \/ cutOver(m)

migrateLegacyInstallation(m) ==
    \/ planMigration(m) \/ sourceFingerprint(m)
    \/ \E l \in Places : acquireMigrationLock(m, l) \/ replaceLock(m, l)
    \/ executeMigration(m) \/ releaseLocks(m) \/ Crash(m)

\* The project in use: a coordinator starts unless a migrator has its lock.
Project ==
    /\ \/ Active /\ (Authoring \/ (lock["project"] \notin Migrators /\ CoordinatorStarts))
       \/ Progress
    /\ UNCHANGED migration

Next ==
    \/ LegacyEdit \/ LegacyCoordinator \/ Project
    \/ \E m \in Migrators : migrateLegacyInstallation(m)

Spec == Init /\ [][Next]_vars

-----------------------------------------------------------------------------
(* Properties.                                                             *)

TypeOK ==
    /\ StoreTypeOK
    /\ legacy \in 0 .. MaxVersions /\ oldcoord \in BOOLEAN /\ busy \in BOOLEAN
    /\ lock \in [Places -> Migrators \cup {"none", "dead", "coordinator"}]
    /\ marker \in BOOLEAN
    /\ record \in {"none", "importing", "verification_failed", "verified", "cut_over"}
    /\ \A versions \in {backup, history, settings, listed} : versions \subseteq 0 .. MaxVersions
    /\ plan \in [Migrators -> [tasks : 0 .. MaxVersions, fingerprint : 0 .. MaxVersions, idle : BOOLEAN, existing : BOOLEAN,
                           held : SUBSET Places]]
    /\ crashes \in 0 .. MaxCrashes

\* What a reader of the project finds.
Found == IF Active THEN [tasks |-> spec, history |-> history, settings |-> settings]
                   ELSE [tasks |-> [t \in Tasks |-> <<>>], history |-> {}, settings |-> {}]

C == INSTANCE Cutover WITH
        authority <- IF Active THEN "project" ELSE "legacy",
        source <- legacy,
        content <- Found

\* A migration, however often it dies and is run again, with the legacy
\* files edited and an old coordinator started under it, is one atomic
\* cutover to one whole version of the installation, after which revisions
\* are only added.
ImplementsCutover == C!Spec

\* The project is given up to nobody once it was cut over: "a cut-over
\* installation is left alone" (lib/projectMigration.ts).
CutOverIsFinal == [][Active => Active']_vars

\* What was cut over is one version of the installation, task definitions,
\* history and settings alike.
CutOverIsWhole ==
    Active => \E v \in 0 .. MaxVersions :
                 /\ history = {v} /\ settings = {v}
                 /\ \A t \in Tasks : Exists(t) /\ spec[t][1].body = v

=============================================================================
