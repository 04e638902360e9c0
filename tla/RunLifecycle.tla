---------------------------- MODULE RunLifecycle ----------------------------
(***************************************************************************)
(* Tasks, runs and claims of one registered project.                       *)
(*                                                                         *)
(* A project keeps its state in two SQLite databases.  runtime.db holds    *)
(* the tasks and the run bindings (task_runs); events.db holds the claims  *)
(* (table runs).  Every operation takes the state lock, reads both         *)
(* databases and then commits to each database in a transaction of its     *)
(* own, some operations claims first, others tasks first.  The lock makes  *)
(* operations exclude each other, so the only thing that can be seen, or   *)
(* survive a crash, is an operation that has made its first commit and not *)
(* its second.  The variable pending is that second commit.                *)
(*                                                                         *)
(* Run ids are numbered in the order they are issued (makeRunId starts     *)
(* with a timestamp), which is also the order of claimed_at.               *)
(***************************************************************************)
EXTENDS Integers, FiniteSets, TaskContract

CONSTANTS
    Tasks,          \* task refs of the project's backlog
    Agents,         \* registered worker agents
    DependsOn,      \* [Tasks -> SUBSET Tasks], table task_dependencies
    MAX_ATTEMPTS,   \* failed attempts after which a task is blocked
    MaxRuns,        \* bound: how many runs are ever claimed
    MaxFaults,      \* bound: how many second commits are lost
    NoTask, NoAgent

ASSUME TasksAssumption == IsFiniteSet(Tasks) /\ NoTask \notin Tasks
ASSUME AgentsAssumption == NoAgent \notin Agents
ASSUME DependsOnAssumption == DependsOn \in [Tasks -> SUBSET Tasks]
ASSUME BoundsAssumption ==
    MAX_ATTEMPTS \in Nat /\ MaxRuns \in Nat /\ MaxFaults \in Nat

VARIABLES
    task,     \* runtime.db tasks: status, attempt_count, owner
    bound,    \* runtime.db task_runs: state, task and agent of each run
    claim,    \* events.db runs: the claim of each run
    pending,  \* the second commit of the operation holding the lock
    dirty,    \* a second commit was lost and reconcileState has not yet run
    faults    \* second commits lost so far

vars == <<task, bound, claim, pending, dirty, faults>>

Runs == 1 .. MaxRuns
NoRun == 0

TaskRows == [status : Statuses, attempts : Nat, owner : Agents \cup {NoAgent}]

\* A run id not yet issued.
NoBinding == [state |-> "none", task |-> NoTask, agent |-> NoAgent]
BindingRows ==
    {NoBinding} \cup
    [state : {"claimed", "in_progress", "finished", "failed", "cancelled"},
     task : Tasks, agent : Agents]

\* A run that has no claim, or whose claim was deleted.
NoClaim == [state |-> "absent", task |-> NoTask, agent |-> NoAgent,
            lease |-> "live", input |-> "none"]

\* lease: now is before, exactly at or after lease_expires_at.
\* input: input_state is null, or awaiting_input for less or more than
\* INPUT_WAIT_TIMEOUT_MS.
ClaimRows ==
    {NoClaim} \cup
    [state : {"claimed", "in_progress", "done", "failed"},
     task : Tasks, agent : Agents,
     lease : {"live", "due", "past"}, input : {"none", "waiting", "overdue"}]

\* The causes commitBacklog is called with; a claim goes through bindRun.
BacklogCauses == {"run_start", "merge_succeeded", "failure_requeue", "failure_block",
                  "unblock", "operator_reset", "cancel"}

\* The cause each task of a backlog commit moves for; "none" leaves its status.
Moves == [Tasks -> BacklogCauses \cup {"none"}]
NoMoves == [t \in Tasks |-> "none"]

PendingCommits == [op : {"none", "claimTask", "startRun", "finishRun", "expireLeases",
                         "reconcile", "cancelTask", "resetTask", "expireRun",
                         "killAll", "sessionReset"},
                   db : {"none", "tasks", "claims"},
                   moves : Moves, counted : SUBSET Tasks,
                   create : Runs \cup {NoRun}, fail : SUBSET Runs]

NoPending == [op |-> "none", db |-> "none", moves |-> NoMoves, counted |-> {},
              create |-> NoRun, fail |-> {}]
ThenBacklog(op, moves, counted) ==
    [NoPending EXCEPT !.op = op, !.db = "tasks", !.moves = moves, !.counted = counted]
ThenFail(op, runs) == [NoPending EXCEPT !.op = op, !.db = "claims", !.fail = runs]
ThenCreate(r) == [NoPending EXCEPT !.op = "claimTask", !.db = "claims", !.create = r]

Idle == pending = NoPending

-----------------------------------------------------------------------------
(* Reading the two databases.                                              *)

Active(r) == claim[r].state \in Live
ActiveOn(t) == {r \in Runs : Active(r) /\ claim[r].task = t}
ActiveBindings(t) == {r \in Runs : bound[r].state \in Live /\ bound[r].task = t}
Move(ts, cause) == [t \in Tasks |-> IF t \in ts THEN cause ELSE "none"]

\* Nothing reads the lease or the input wait of an ended claim again, so the
\* model forgets them.
Ended(c, state) == [state |-> state, task |-> c.task, agent |-> c.agent,
                    lease |-> "live", input |-> "none"]
Failed(c) == Ended(c, "failed")

-----------------------------------------------------------------------------
(* runtime.db: commitBacklog and applyTransition.                          *)

StatusFor(cause) ==
    CASE cause = "run_start" -> "in_progress"
      [] cause = "merge_succeeded" -> "done"
      [] cause = "failure_block" -> "blocked"
      [] cause = "cancel" -> "cancelled"
      [] OTHER -> "todo"

RUN_STATE_FOR_CAUSE(cause) ==
    CASE cause = "merge_succeeded" -> "finished"
      [] cause \in {"failure_requeue", "failure_block"} -> "failed"
      [] OTHER -> "cancelled"

StatusAfter(moves, t) == IF moves[t] = "none" THEN task[t].status ELSE StatusFor(moves[t])

\* The store refuses the whole transaction when one transition is not in the
\* contract; a merge confirmed for a claimed task records its start first.
Accepted(moves) ==
    \A t \in Tasks :
        \/ StatusAfter(moves, t) = task[t].status
        \/ canTransitionTaskStatus(task[t].status, StatusAfter(moves, t), moves[t])
        \/ moves[t] = "merge_succeeded" /\ task[t].status = "claimed"

BindingAfter(moves, r) ==
    LET t == bound[r].task IN
    IF \/ bound[r].state \notin Live \/ task[t].status \notin Live
       \/ StatusAfter(moves, t) = task[t].status
    THEN bound[r]
    ELSE [bound[r] EXCEPT !.state = IF moves[t] = "run_start" THEN "in_progress"
                                    ELSE RUN_STATE_FOR_CAUSE(moves[t])]

TaskAfter(moves, counted, t) ==
    [status   |-> StatusAfter(moves, t),
     attempts |-> IF t \in counted THEN task[t].attempts + 1 ELSE task[t].attempts,
     owner    |-> task[t].owner]

commitBacklog(moves, counted) ==
    /\ task' = [t \in Tasks |-> TaskAfter(moves, counted, t)]
    /\ bound' = [r \in Runs |-> BindingAfter(moves, r)]

-----------------------------------------------------------------------------
Init ==
    /\ task = [t \in Tasks |-> [status |-> "todo", attempts |-> 0, owner |-> NoAgent]]
    /\ bound = [r \in Runs |-> NoBinding]
    /\ claim = [r \in Runs |-> NoClaim]
    /\ pending = NoPending
    /\ dirty = FALSE
    /\ faults = 0

-----------------------------------------------------------------------------
(* Claiming a task: runtime.db first, then the claim.                      *)

\* makeRunId
Fresh(r) == bound[r].state = "none" /\ \A q \in Runs : q < r => bound[q].state # "none"

\* The store's part of claimTask: an active binding left on the task belongs
\* to a run that already ended, and bindRun closes it.
BindRun(t, a, r) ==
    /\ task' = [task EXCEPT ![t].status = "claimed"]
    /\ bound' = [q \in Runs |->
                    IF q = r THEN [state |-> "claimed", task |-> t, agent |-> a]
                    ELSE IF q \in ActiveBindings(t) THEN [bound[q] EXCEPT !.state = "failed"]
                    ELSE bound[q]]

\* Mutant: a task that another claim still holds is claimed again.
ClaimsHeldTask(t, a, r) ==
    /\ Idle
    /\ task[t].status = "todo"
    /\ task[t].owner \in {NoAgent, a}
    /\ \A d \in DependsOn[t] : task[d].status \in Completed
    /\ Fresh(r)
    /\ BindRun(t, a, r)
    /\ pending' = ThenCreate(r)
    /\ UNCHANGED <<claim, dirty, faults>>

ClaimTask(t, a, r) ==
    /\ Idle
    /\ task[t].status = "todo"
    /\ task[t].owner \in {NoAgent, a}
    /\ ActiveOn(t) = {}
    /\ \A d \in DependsOn[t] : task[d].status \in Completed
    /\ Fresh(r)
    /\ BindRun(t, a, r)
    /\ pending' = ThenCreate(r)
    /\ UNCHANGED <<claim, dirty, faults>>

\* commitClaims threw: the task goes back to the queue, its binding is closed
\* and no attempt is counted.
ClaimAbandoned ==
    /\ pending.op = "claimTask"
    /\ faults < MaxFaults
    /\ commitBacklog(Move({bound[pending.create].task}, "failure_requeue"), {})
    /\ pending' = NoPending
    /\ faults' = faults + 1
    /\ UNCHANGED <<claim, dirty>>

-----------------------------------------------------------------------------
(* The worker's run: claims first, then runtime.db.                        *)

\* The task's status is set whatever it was; the store judges it.
StartRun(r) ==
    /\ Idle
    /\ claim[r].state = "claimed"
    /\ claim' = [claim EXCEPT ![r] = [state |-> "in_progress", task |-> @.task,
                                       agent |-> @.agent, lease |-> @.lease,
                                       input |-> "none"]]
    /\ pending' = ThenBacklog("startRun", Move({claim[r].task}, "run_start"), {})
    /\ UNCHANGED <<task, bound, dirty, faults>>

\* heartbeat and renewLeaseOnly
RenewLease(r) ==
    /\ Idle
    /\ Active(r)
    /\ claim[r].lease # "past"
    /\ claim' = [claim EXCEPT ![r].lease = "live"]
    /\ UNCHANGED <<task, bound, pending, dirty, faults>>

\* The worker's request reaches the claim through the coordinator's event loop.
RequestInput(r) ==
    /\ Idle
    /\ Active(r)
    /\ claim' = [claim EXCEPT ![r].input = "waiting"]
    /\ UNCHANGED <<task, bound, pending, dirty, faults>>

AnswerInput(r) ==
    /\ Idle
    /\ Active(r)
    /\ claim' = [claim EXCEPT ![r].input = "none"]
    /\ UNCHANGED <<task, bound, pending, dirty, faults>>

\* Mutant: a run that already ended is finished again.
FinishesEndedRun(r) ==
    /\ Idle
    /\ claim[r].state # "absent"
    /\ task[claim[r].task].status \in Completed
    /\ claim' = [claim EXCEPT ![r] = Ended(claim[r], "done")]
    /\ UNCHANGED <<task, bound, pending, dirty, faults>>

\* run-finish waits for the merge (assertRunMayFinish), and the coordinator
\* finishes a run only after it has marked the task done.
FinishRunSuccess(r) ==
    /\ Idle
    /\ Active(r)
    /\ task[claim[r].task].status \in Completed
    /\ claim' = [claim EXCEPT ![r] = Ended(claim[r], "done")]
    /\ UNCHANGED <<task, bound, pending, dirty, faults>>

FailurePolicies == {"requeue", "block", "infrastructure"}

\* The task's cause once one more attempt is counted.
CountedCause(t) ==
    IF task[t].attempts + 1 >= MAX_ATTEMPTS THEN "failure_block" ELSE "failure_requeue"

\* Mutant: a run that already failed is failed, and counted, again.
FailsEndedRun(r, policy) ==
    LET t == claim[r].task IN
    /\ Idle
    /\ claim[r].state # "absent"
    /\ claim' = [claim EXCEPT ![r] = Failed(claim[r])]
    /\ pending' = IF task[t].status \in Live
                  THEN ThenBacklog("finishRun", Move({t}, CountedCause(t)), {t})
                  ELSE NoPending
    /\ UNCHANGED <<task, bound, dirty, faults>>

\* A task an operator already moved off the run keeps its status.
FinishRunFailure(r, policy) ==
    LET t == claim[r].task IN
    /\ Idle
    /\ Active(r)
    /\ claim' = [claim EXCEPT ![r] = Failed(claim[r])]
    /\ pending' =
          IF task[t].status \notin Live THEN NoPending
          ELSE CASE policy = "block" ->
                        ThenBacklog("finishRun", Move({t}, "failure_block"), {})
                 [] policy = "infrastructure" ->
                        ThenBacklog("finishRun", Move({t}, "failure_requeue"), {})
                 [] policy = "requeue" ->
                        ThenBacklog("finishRun", Move({t}, CountedCause(t)), {t})
    /\ UNCHANGED <<task, bound, dirty, faults>>

-----------------------------------------------------------------------------
(* The coordinator's sweeps.                                               *)

\* Mutant: the sweep looks at started runs only.
ExpiredIfStarted(r) ==
    /\ claim[r].state = "in_progress"
    /\ IF claim[r].input = "none" THEN claim[r].lease # "live" ELSE claim[r].input = "overdue"
    /\ task[claim[r].task].status \notin Completed

\* A claim waiting for input is judged by the wait, any other by its lease;
\* a merged task is in its finalize window and its run is spared.
Expired(r) ==
    /\ Active(r)
    /\ IF claim[r].input = "none" THEN claim[r].lease # "live" ELSE claim[r].input = "overdue"
    /\ task[claim[r].task].status \notin Completed

expireLeases ==
    LET gone == {r \in Runs : Expired(r)}
        hit  == {t \in Tasks : task[t].status \in Live /\ \E r \in gone : claim[r].task = t}
    IN
    /\ Idle
    /\ gone # {}
    /\ claim' = [r \in Runs |-> IF r \in gone THEN Failed(claim[r]) ELSE claim[r]]
    /\ pending' = ThenBacklog("expireLeases",
                              [t \in Tasks |-> IF t \in hit THEN CountedCause(t) ELSE "none"],
                              hit)
    /\ UNCHANGED <<task, bound, dirty, faults>>

\* selectDuplicateClaimWinner keeps the oldest claim of a task.
Winner(r) == Active(r) /\ \A q \in ActiveOn(claim[r].task) : r <= q

\* The claims reconcileState fails: the losing duplicates, and the winners
\* whose task row does not reflect them.
Orphaned(r) ==
    LET status == task[claim[r].task].status IN
    /\ Active(r)
    /\ \/ ~Winner(r)
       \/ /\ status \notin Completed
          /\ status # claim[r].state
          /\ ~(status = "claimed" /\ claim[r].state = "in_progress")

\* Mutant: a task left claimed without a claim is overlooked.
RequeuesOnlyStarted ==
    [t \in Tasks |->
        IF task[t].status = "in_progress" /\ ActiveOn(t) = {} THEN "failure_requeue"
        ELSE IF /\ task[t].status = "claimed"
                /\ \E r \in ActiveOn(t) : Winner(r) /\ claim[r].state = "in_progress"
             THEN "run_start" ELSE "none"]

ReconcileMoves ==
    [t \in Tasks |->
        IF task[t].status \in Live /\ ActiveOn(t) = {} THEN "failure_requeue"
        ELSE IF /\ task[t].status = "claimed"
                /\ \E r \in ActiveOn(t) : Winner(r) /\ claim[r].state = "in_progress"
             THEN "run_start" ELSE "none"]

reconcileState ==
    LET orphans == {r \in Runs : Orphaned(r)} IN
    /\ Idle
    /\ commitBacklog(ReconcileMoves, {})
    /\ IF orphans = {}
       THEN pending' = NoPending /\ dirty' = FALSE
       ELSE pending' = ThenFail("reconcile", orphans) /\ dirty' = dirty
    /\ UNCHANGED <<claim, faults>>

-----------------------------------------------------------------------------
(* The operator's mutations.                                               *)

\* Active claims are deleted, not failed.
cancelTask(t) ==
    /\ Idle
    /\ task[t].status \notin TERMINAL_STATUSES
    /\ claim' = [r \in Runs |-> IF r \in ActiveOn(t) THEN NoClaim ELSE claim[r]]
    /\ pending' = ThenBacklog("cancelTask", Move({t}, "cancel"), {})
    /\ UNCHANGED <<task, bound, dirty, faults>>

\* Mutant: the task is reset and its claim forgotten.
ResetKeepsClaim(t) ==
    /\ Idle
    /\ pending' = ThenBacklog("resetTask", Move({t}, "operator_reset"), {})
    /\ UNCHANGED <<task, bound, claim, dirty, faults>>

resetTask(t) ==
    /\ Idle
    /\ claim' = [r \in Runs |-> IF r \in ActiveOn(t) THEN Failed(claim[r]) ELSE claim[r]]
    /\ pending' = ThenBacklog("resetTask", Move({t}, "operator_reset"), {})
    /\ UNCHANGED <<task, bound, dirty, faults>>

unblockTask(t) ==
    /\ Idle
    /\ task[t].status = "blocked"
    /\ commitBacklog(Move({t}, "unblock"), {})
    /\ UNCHANGED <<claim, pending, dirty, faults>>

\* A task without an eligible worker loses its owner; a blocked task is
\* unblocked either way.
delegateTask(t, a) ==
    /\ Idle
    /\ \A r \in Runs : a # NoAgent /\ Active(r) => claim[r].agent # a
    /\ task' = [task EXCEPT ![t] = [status |-> IF @.status = "blocked" THEN "todo" ELSE @.status,
                                     attempts |-> @.attempts, owner |-> a]]
    /\ UNCHANGED <<bound, claim, pending, dirty, faults>>

expireRun(r) ==
    /\ Idle
    /\ Active(r)
    /\ task[claim[r].task].status \notin TERMINAL_STATUSES
    /\ claim' = [claim EXCEPT ![r] = Failed(claim[r])]
    /\ pending' = ThenBacklog("expireRun", Move({claim[r].task}, "failure_requeue"), {})
    /\ UNCHANGED <<task, bound, dirty, faults>>

\* The coordinator's merge confirmation and the operator's task-mark-done.
\* From todo the store refuses; done is confirmed again without a change.
markTaskDone(t) ==
    /\ Idle
    /\ task[t].status \in Live
    /\ commitBacklog(Move({t}, "merge_succeeded"), {})
    /\ UNCHANGED <<claim, pending, dirty, faults>>

\* orc kill-all: claims first.
killAll ==
    /\ Idle
    /\ claim' = [r \in Runs |-> IF Active(r) THEN Failed(claim[r]) ELSE claim[r]]
    /\ pending' = ThenBacklog("killAll",
                              Move({t \in Tasks : task[t].status \in Live}, "operator_reset"), {})
    /\ UNCHANGED <<task, bound, dirty, faults>>

\* orc start-session without reuse: runtime.db first.
sessionReset ==
    /\ Idle
    /\ commitBacklog(Move({t \in Tasks : task[t].status \in Live}, "failure_requeue"), {})
    /\ pending' = ThenFail("sessionReset", {r \in Runs : Active(r)})
    /\ UNCHANGED <<claim, dirty, faults>>

-----------------------------------------------------------------------------
(* The second commit.                                                      *)

CommitBacklog ==
    /\ pending.db = "tasks"
    /\ Accepted(pending.moves)
    /\ commitBacklog(pending.moves, pending.counted)
    /\ pending' = NoPending
    /\ UNCHANGED <<claim, dirty, faults>>

\* The store raises, the transaction rolls back, and the operation reports an
\* error although its claims are committed.
BacklogRejected ==
    /\ pending.db = "tasks"
    /\ ~Accepted(pending.moves)
    /\ pending' = NoPending
    /\ UNCHANGED <<task, bound, claim, dirty, faults>>

NewClaim(r) == [state |-> "claimed", task |-> bound[r].task, agent |-> bound[r].agent,
                lease |-> "live", input |-> "none"]

CommitClaims ==
    /\ pending.db = "claims"
    /\ claim' = [r \in Runs |-> IF r = pending.create THEN NewClaim(r)
                                ELSE IF r \in pending.fail THEN Failed(claim[r])
                                ELSE claim[r]]
    /\ pending' = NoPending
    /\ dirty' = (dirty /\ pending.op # "reconcile")
    /\ UNCHANGED <<task, bound, faults>>

\* The process dies, or the second commit throws, after the first commit.
Interrupted ==
    /\ ~Idle
    /\ faults < MaxFaults
    /\ pending' = NoPending
    /\ dirty' = TRUE
    /\ faults' = faults + 1
    /\ UNCHANGED <<task, bound, claim>>

-----------------------------------------------------------------------------
(* Time.  A lease or an input wait that runs out while an operation holds  *)
(* the lock might as well have run out after it.                           *)

LeaseRunsDown(r) ==
    /\ Idle
    /\ Active(r)
    /\ claim[r].lease # "past"
    /\ claim' = [claim EXCEPT ![r].lease = IF @ = "live" THEN "due" ELSE "past"]
    /\ UNCHANGED <<task, bound, pending, dirty, faults>>

InputWaitRunsOut(r) ==
    /\ Idle
    /\ Active(r)
    /\ claim[r].input = "waiting"
    /\ claim' = [claim EXCEPT ![r].input = "overdue"]
    /\ UNCHANGED <<task, bound, pending, dirty, faults>>

-----------------------------------------------------------------------------
(* What orc doctor reports.                                                *)

\* Mutant: a held task is looked at only where a claim is active.
SeesClaimsOnly ==
    LET claimed == {t \in Tasks : ActiveOn(t) # {}} IN
       {<<"duplicate_active_claims", t>> : t \in {u \in claimed : Cardinality(ActiveOn(u)) > 1}}
    \cup {<<"task_status_claim_mismatch", t>> : t \in {u \in claimed :
             \E r \in ActiveOn(u) : Winner(r) /\ task[u].status # claim[r].state}}

\* The issues of each task; an agent with two active claims is reported too.
detectLifecycleIssues ==
    LET claimed == {t \in Tasks : ActiveOn(t) # {}} IN
       {<<"duplicate_active_claims", t>> : t \in {u \in claimed : Cardinality(ActiveOn(u)) > 1}}
    \cup {<<"task_status_missing_active_claim", t>> : t \in {u \in Tasks \ claimed :
             task[u].status \in Live}}
    \cup {<<"task_status_claim_mismatch", t>> : t \in {u \in claimed :
             \E r \in ActiveOn(u) : Winner(r) /\ task[u].status # claim[r].state}}
    \cup {<<"duplicate_active_agent_claims", a>> : a \in {b \in Agents :
             Cardinality({r \in Runs : Active(r) /\ claim[r].agent = b}) > 1}}

\* The validation that runs on every read knows the duplicates only: a claim's
\* task and agent are always registered ones here.
validateLegacyStateInvariants == {t \in Tasks : Cardinality(ActiveOn(t)) > 1}

-----------------------------------------------------------------------------
Next ==
    \/ \E t \in Tasks, a \in Agents, r \in Runs : ClaimTask(t, a, r)
    \/ ClaimAbandoned
    \/ \E r \in Runs :
          \/ StartRun(r) \/ RenewLease(r) \/ RequestInput(r) \/ AnswerInput(r)
          \/ FinishRunSuccess(r) \/ expireRun(r)
          \/ LeaseRunsDown(r) \/ InputWaitRunsOut(r)
          \/ \E policy \in FailurePolicies : FinishRunFailure(r, policy)
    \/ \E t \in Tasks :
          \/ cancelTask(t) \/ resetTask(t) \/ unblockTask(t) \/ markTaskDone(t)
          \/ \E a \in Agents \cup {NoAgent} : delegateTask(t, a)
    \/ expireLeases \/ reconcileState \/ killAll \/ sessionReset
    \/ CommitBacklog \/ BacklogRejected \/ CommitClaims \/ Interrupted

Spec == Init /\ [][Next]_vars

TypeOK ==
    /\ task \in [Tasks -> TaskRows]
    /\ bound \in [Runs -> BindingRows]
    /\ claim \in [Runs -> ClaimRows]
    /\ pending \in PendingCommits
    /\ dirty \in BOOLEAN
    /\ faults \in 0 .. MaxFaults

\* While claimTask is between its two commits the state lock keeps its task
\* free of other claims; the proofs of the properties below rest on this.
ClaimInFlight ==
    pending.create \in Runs =>
        LET t == bound[pending.create].task IN
        /\ pending.op = "claimTask" /\ pending.db = "claims" /\ pending.fail = {}
        /\ bound[pending.create].state = "claimed"
        /\ claim[pending.create].state = "absent"
        /\ task[t].status = "claimed"
        /\ ActiveOn(t) = {}

\* A claim belongs to an issued run and to the task that run was bound to.
ClaimHasBinding ==
    \A r \in Runs : claim[r].state # "absent" =>
        bound[r].state # "none" /\ bound[r].task = claim[r].task

\* The claims a reconcile or a session reset is about to fail stay active
\* until it does.
FailingActive == \A r \in pending.fail : Active(r)

-----------------------------------------------------------------------------
(* Safety.                                                                 *)

\* At most one claim of a task is active, whichever operations race for it
\* and wherever one of them is cut off (docs/contracts.md, invariant 1).
OneActiveClaimPerTask ==
    \A q, r \in Runs : Active(q) /\ Active(r) /\ claim[q].task = claim[r].task => q = r

\* A task is held exactly while one binding of it is active, and the binding
\* is in the task's own state: no transition strands or doubles a binding.
BindingTracksTask ==
    \A t \in Tasks :
        /\ task[t].status \in Live =>
              \E r \in ActiveBindings(t) : bound[r].state = task[t].status
        /\ \A q, r \in ActiveBindings(t) : q = r /\ task[t].status \in Live

\* While a run's claim is active and its task is held, the task is held for
\* that very run: the worker never runs under another run's pinned spec.
ActiveClaimIsBound ==
    \A r \in Runs :
        Active(r) /\ task[claim[r].task].status \in Live =>
            bound[r].state \in Live /\ bound[r].task = claim[r].task

\* Task and claim agree (docs/contracts.md, invariant 6).  A merged task may
\* keep an active claim: its run is being finalized.
Agree(t) ==
    \/ task[t].status \in Completed
    \/ /\ task[t].status \in Live
       /\ \E r \in ActiveOn(t) : ActiveOn(t) = {r} /\ claim[r].state = task[t].status
    \/ /\ task[t].status \in {"todo", "blocked", "cancelled"}
       /\ ActiveOn(t) = {}

\* Between operations tasks and claims agree, unless a second commit was lost
\* and reconcileState has not completed since: no complete operation breaks
\* the agreement, and one reconcileState restores it from whatever was left.
SettledAgreement == Idle /\ ~dirty => \A t \in Tasks : Agree(t)

\* Whatever an interrupted operation leaves behind, the doctor sees it: each
\* task that disagrees with its claims has an issue, and a task that agrees
\* has none, but for a merged one whose run is still being finalized.
DoctorSeesDisagreement ==
    /\ \A t \in Tasks :
         LET reported == \E issue \in detectLifecycleIssues :
                             issue[1] # "duplicate_active_agent_claims" /\ issue[2] = t IN
         /\ ~Agree(t) => reported
         /\ reported /\ Agree(t) => task[t].status \in Completed
    /\ \A t \in validateLegacyStateInvariants :
         <<"duplicate_active_claims", t>> \in detectLifecycleIssues

\* A failed run is charged to its task at most once, however many of run-fail,
\* lease expiry, a dead PTY and a replayed event report it.
AttemptsPaidByFailures ==
    \A t \in Tasks :
        task[t].attempts <=
            Cardinality({r \in Runs : claim[r].state = "failed" /\ claim[r].task = t})

\* Outside a crash window the store refuses one thing only: the start of a
\* run whose task was marked done while the run was still claimed.
RejectionsExplained ==
    pending.db = "tasks" /\ ~Accepted(pending.moves) =>
        \/ dirty
        \/ /\ pending.op = "startRun"
           /\ \E t \in Tasks : pending.moves[t] = "run_start" /\ task[t].status \in Completed

-----------------------------------------------------------------------------
(* What a step may never do.                                               *)

\* An ended run stays ended with the outcome it has: a late run-fail, expiry,
\* reset or reconcile neither revives, re-decides nor deletes it.
EndedRunsStayEnded ==
    [][\A r \in Runs : claim[r].state \in {"done", "failed"} =>
           claim'[r].state = claim[r].state]_vars

\* A task leaves done only by an operator's reset: no failure, expiry or
\* recovery of its still active run takes a merged task back.
MergedStaysMerged ==
    [][\A t \in Tasks : task[t].status = "done" /\ task'[t].status # "done" =>
           pending.op = "resetTask"]_vars

-----------------------------------------------------------------------------
(* Liveness.  The coordinator's tick calls reconcileState and expireLeases *)
(* forever; a lock that is busy now is free at a later tick.               *)

FairSpec ==
    /\ Spec
    /\ SF_vars(reconcileState) /\ SF_vars(expireLeases)
    /\ WF_vars(CommitBacklog) /\ WF_vars(BacklogRejected) /\ WF_vars(CommitClaims)

\* A task whose run is gone does not stay claimed or in progress.
StrandedTaskRecovers ==
    \A t \in Tasks :
        task[t].status \in Live /\ ActiveOn(t) = {} ~>
            ~(task[t].status \in Live /\ ActiveOn(t) = {})

\* A run whose lease has passed does not stay active, unless it waits for
\* input or its task is merged (docs/contracts.md, invariant 5).
ExpiredRunReleased ==
    \A r \in Runs :
        Active(r) /\ claim[r].lease = "past" ~>
            \/ ~Active(r)
            \/ claim[r].input # "none"
            \/ task[claim[r].task].status \in Completed
=============================================================================
