---------------------------- MODULE TaskContract ----------------------------
(***************************************************************************)
(* The task statuses of a project and the transitions its lifecycle allows *)
(* (lib/projectContract.ts, and the same table as the SQLite trigger       *)
(* transitions_validate of lib/projectTaskStore.ts).                       *)
(***************************************************************************)

Statuses == {"todo", "claimed", "in_progress", "blocked",
             "done", "released", "cancelled"}

\* Statuses of a task that a run holds; also the states of an active claim.
Live == {"claimed", "in_progress"}

\* Statuses that satisfy a dependency.
Completed == {"done", "released"}

\* lib/operatorMutations.ts: only an operator reset leaves these.
TERMINAL_STATUSES == {"done", "released", "cancelled"}

canTransitionTaskStatus(from, to, cause) ==
    \/ cause = "claim" /\ from = "todo" /\ to = "claimed"
    \/ cause = "run_start" /\ from = "claimed" /\ to = "in_progress"
    \/ cause = "merge_succeeded" /\ from = "in_progress" /\ to = "done"
    \/ cause = "post_merge_release" /\ from = "done" /\ to = "released"
    \/ cause = "failure_requeue" /\ from \in Live /\ to = "todo"
    \/ cause = "failure_block" /\ from \in Live /\ to = "blocked"
    \/ cause = "manual_block" /\ from = "todo" /\ to = "blocked"
    \/ cause = "unblock" /\ from = "blocked" /\ to = "todo"
    \/ cause = "operator_reset" /\ from # "todo" /\ to = "todo"
    \/ cause = "cancel" /\ from \notin TERMINAL_STATUSES /\ to = "cancelled"
    \/ cause = "migration_import" /\ from = "todo"
       /\ to \in {"blocked", "done", "released", "cancelled"}
=============================================================================
