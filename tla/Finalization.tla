---------------------------- MODULE Finalization ----------------------------
(***************************************************************************)
(* From run-work-complete to the merge, for the runs of one task.          *)
(*                                                                         *)
(* A worker reports to the coordinator, which appends the report to the    *)
(* event log.  The coordinator's tick reads the log behind a durable       *)
(* cursor, moves the claim's finalization_state, merges the branch or runs *)
(* the pull request, marks the task done, finishes the run and, last,      *)
(* moves the cursor.  A crash anywhere in between replays the event.       *)
(*                                                                         *)
(* The control API that takes the worker's commands lives in the           *)
(* coordinator's process, so a command is applied only while the tick is   *)
(* parked on an await; the values coord.pc takes are the awaits and the    *)
(* places between two durable effects where a crash makes a difference.    *)
(*                                                                         *)
(* Events whose handling touches none of this state (heartbeats, phases,   *)
(* input requests, claim_expired) are left out of the log.  Runs here are  *)
(* served by ephemeral workers: one agent, one session, one run.           *)
(***************************************************************************)
EXTENDS Naturals, Sequences, FiniteSets, TaskContract

CONSTANTS
    Strategy,     \* resolveMergeStrategy of the task: "direct" or "pr"
    MaxRuns,      \* bound: attempts at the task
    MaxReports,   \* bound: handoff reports the workers make
    MaxFaults     \* bound: crashes, cursor resets and failing git calls

ASSUME StrategyAssumption == Strategy \in {"direct", "pr"}
ASSUME FinalizationBounds ==
    MaxRuns \in Nat /\ MaxReports \in Nat /\ MaxFaults \in Nat

VARIABLES
    task,      \* status of the task
    claim,     \* events.db runs: the claim of each run
    session,   \* the worker's session: none, live, or dead with its handle kept
    worktree,  \* run-worktrees.json has an entry for the run
    branch,    \* git: does the run's branch contain main
    merged,    \* git: the runs whose work reached main
    pr,        \* git host: the pull request of the run's branch
    asked,     \* PR_REVIEW has reached the run's worker
    events,    \* the event log; position is seq
    cursor,    \* events.db offsets: the last event fully handled
    coord,     \* where the tick is: pc, the event's seq (0 in a sweep), its run
    reports,   \* handoff reports made so far
    faults     \* faults so far

vars == <<task, claim, session, worktree, branch, merged, pr, asked, events,
          cursor, coord, reports, faults>>
store == <<task, claim, events>>
git == <<branch, merged, pr>>
bounds == <<reports, faults>>

Runs == 1 .. MaxRuns
NoRun == 0

\* The states of FINALIZATION_STATES that the coordinator's handlers reach.
FinalizationStates ==
    {"null", "awaiting_finalize", "finalize_rebase_requested",
     "finalize_rebase_in_progress", "ready_to_merge", "blocked_finalize",
     "pr_created", "pr_review_in_progress", "pr_merged"}

NoClaim == [state |-> "absent", fin |-> "null", retries |-> 0, prSeq |-> 0]
ClaimRows == [state : {"absent", "claimed", "in_progress", "done", "failed"},
              fin : FinalizationStates, retries : Nat, prSeq : Nat]

Handoffs == {"work_complete", "ready_to_merge"}
Reports == Handoffs \cup {"finalize_rebase_started"}
Terminal == {"run_finished", "run_failed"}
\* reviewed: the worker had PR_REVIEW when it reported.
Events == [event : Reports \cup Terminal, run : Runs, reviewed : BOOLEAN]

\* The awaits of the tick, at which the control API and the sweeps' next
\* tick can run.
Awaits == {"idle", "notified", "askFirst", "askAgain", "sendReview",
           "stopBlocked", "stopLanded", "stopEnded"}
Places == Awaits \cup {"down", "finalize", "ask", "block", "mergePr", "prMerged",
                       "prOpened", "inReview", "markDone", "finish", "commit"}

Idle == [pc |-> "idle", seq |-> 0, run |-> NoRun]
Down == [pc |-> "down", seq |-> 0, run |-> NoRun]
At(pc) == coord.pc = pc
Goto(pc) == coord' = [coord EXCEPT !.pc = pc]
Sweep(pc, r) == coord' = [pc |-> pc, seq |-> 0, run |-> r]

Active(r) == claim[r].state \in Live
InProgress(r) == claim[r].state = "in_progress"

Fault == faults < MaxFaults /\ faults' = faults + 1

-----------------------------------------------------------------------------
(* The operations of the claim manager, each under the state lock.         *)

\* setRunFinalizationState throws, and changes nothing, unless the claim is
\* in progress.
Advanced(c, fin, delta) == [c EXCEPT !.fin = fin, !.retries = @ + delta]

setRunFinalizationState(r, fin, delta) ==
    claim' = IF InProgress(r) THEN [claim EXCEPT ![r] = Advanced(@, fin, delta)]
             ELSE claim

EndedClaim(c, outcome) == [c EXCEPT !.state = outcome, !.fin = "null", !.retries = 0]

\* Mutant: a run that already ended is ended, and reported, again.
FinishesTwice(r, outcome, back) ==
    /\ claim' = [claim EXCEPT ![r] = EndedClaim(@, outcome)]
    /\ task' = IF outcome = "failed" /\ task \in Live THEN back ELSE task
    /\ events' = Append(events, [event |-> IF outcome = "done" THEN "run_finished" ELSE "run_failed",
                                 run |-> r, reviewed |-> asked[r]])

\* back is where the attempt budget and the policy send a failed task; a task
\* moved off the run keeps its status, and a run that ended keeps its outcome
\* and only loses what finalization left on its claim.
finishRun(r, outcome, back) ==
    IF Active(r)
    THEN /\ claim' = [claim EXCEPT ![r] = EndedClaim(@, outcome)]
         /\ task' = IF outcome = "failed" /\ task \in Live THEN back ELSE task
         /\ events' = Append(events, [event |-> IF outcome = "done" THEN "run_finished" ELSE "run_failed",
                                      run |-> r, reviewed |-> asked[r]])
    ELSE /\ claim' = IF claim[r].state = outcome
                     THEN [claim EXCEPT ![r] = EndedClaim(@, outcome)] ELSE claim
         /\ UNCHANGED <<task, events>>

FailedTaskStatuses == {"todo", "blocked"}

-----------------------------------------------------------------------------
Init ==
    /\ task = "todo"
    /\ claim = [r \in Runs |-> NoClaim]
    /\ session = [r \in Runs |-> "none"]
    /\ worktree = [r \in Runs |-> FALSE]
    /\ branch = [r \in Runs |-> "current"]
    /\ merged = {}
    /\ pr = [r \in Runs |-> "none"]
    /\ asked = [r \in Runs |-> FALSE]
    /\ events = <<>>
    /\ cursor = 0
    /\ coord = Idle
    /\ reports = 0
    /\ faults = 0

-----------------------------------------------------------------------------
(* The worker.                                                             *)

\* executeDispatchPlan: the claim, the worktree on a branch off main and the
\* worker's session.
Dispatch(r) ==
    /\ At("idle")
    /\ task = "todo"
    /\ \A q \in Runs : ~Active(q)
    /\ claim[r].state = "absent" /\ \A q \in Runs : q < r => claim[q].state # "absent"
    /\ task' = "claimed"
    /\ claim' = [claim EXCEPT ![r].state = "claimed"]
    /\ session' = [session EXCEPT ![r] = "live"]
    /\ worktree' = [worktree EXCEPT ![r] = TRUE]
    /\ UNCHANGED <<git, asked, events, cursor, coord, bounds>>

\* authorizeLifecycle: a running session, at a moment the process is free.
MayReport(r) == session[r] = "live" /\ coord.pc \in Awaits

RunStart(r) ==
    /\ MayReport(r)
    /\ claim[r].state = "claimed"
    /\ claim' = [claim EXCEPT ![r].state = "in_progress"]
    /\ task' = IF task = "claimed" THEN "in_progress" ELSE task
    /\ UNCHANGED <<session, worktree, git, asked, events, cursor, coord, bounds>>

appendSequencedEvent(r, e) ==
    /\ reports < MaxReports
    /\ reports' = reports + 1
    /\ events' = Append(events, [event |-> e, run |-> r, reviewed |-> asked[r]])

\* The event run-work-complete appends, by finalization state; in every other
\* state it is a ConflictError.
nextFinalizationTransition ==
    [null |-> "work_complete", finalize_rebase_in_progress |-> "ready_to_merge"]

RunWorkComplete(r) ==
    /\ MayReport(r)
    /\ claim[r].state # "absent"
    /\ claim[r].fin \in DOMAIN nextFinalizationTransition
    /\ appendSequencedEvent(r, nextFinalizationTransition[claim[r].fin])
    /\ UNCHANGED <<task, claim, session, worktree, git, asked, cursor, coord, faults>>

\* orc progress appends the named event whatever the state of the claim.
Progress(r, e) ==
    /\ MayReport(r)
    /\ claim[r].state # "absent"
    /\ appendSequencedEvent(r, e)
    /\ UNCHANGED <<task, claim, session, worktree, git, asked, cursor, coord, faults>>

RunFail(r) ==
    /\ MayReport(r)
    /\ claim[r].state # "absent"
    /\ \E back \in FailedTaskStatuses : finishRun(r, "failed", back)
    /\ UNCHANGED <<session, worktree, git, asked, cursor, coord, bounds>>

\* assertRunMayFinish: refused until the merge is recorded.
RunFinish(r) ==
    /\ MayReport(r)
    /\ claim[r].state # "absent"
    /\ task \in Completed
    /\ finishRun(r, "done", task)
    /\ UNCHANGED <<session, worktree, git, asked, cursor, coord, bounds>>

\* git rebase main in the run's worktree.
Rebase(r) ==
    /\ session[r] = "live"
    /\ branch[r] = "behind"
    /\ branch' = [branch EXCEPT ![r] = "current"]
    /\ UNCHANGED <<store, session, worktree, merged, pr, asked, cursor, coord, bounds>>

WorkerDies(r) ==
    /\ session[r] = "live"
    /\ session' = [session EXCEPT ![r] = "dead"]
    /\ UNCHANGED <<store, worktree, git, asked, cursor, coord, bounds>>

\* A new commit on main is in no branch that exists already.
Behind == [r \in Runs |-> IF claim[r].state = "absent" THEN branch[r] ELSE "behind"]

\* Another task's merge, or the operator's commit.
MainAdvances ==
    /\ branch # Behind
    /\ branch' = Behind
    /\ UNCHANGED <<store, session, worktree, merged, pr, asked, cursor, coord, bounds>>

-----------------------------------------------------------------------------
(* The event loop: processEventCheckpoint and processTerminalRunEvents.    *)

\* The reducer's advance_finalization; anything else is a noop.  A terminal
\* event finds the claim already ended: finishRun commits the two together.
reduceLifecycleEvent(e, c) ==
    CASE e = "finalize_rebase_started" /\ c.state = "in_progress"
                                       /\ c.fin = "finalize_rebase_requested" ->
             Advanced(c, "finalize_rebase_in_progress", 1)
      [] e = "work_complete" /\ c.state = "in_progress" /\ c.fin = "null" ->
             Advanced(c, "awaiting_finalize", 0)
      [] e = "ready_to_merge" /\ c.state = "in_progress"
                              /\ c.fin = "finalize_rebase_in_progress" ->
             Advanced(c, "ready_to_merge", 0)
      [] OTHER -> c

HandleEvent ==
    LET seq == cursor + 1
        e   == events[seq]
    IN
    /\ At("idle")
    /\ cursor < Len(events)
    /\ claim' = [claim EXCEPT ![e.run] = reduceLifecycleEvent(e.event, @)]
    /\ coord' = [pc |-> IF e.event \in Handoffs THEN "finalize"
                        ELSE IF e.event \in Terminal THEN "stopEnded" ELSE "commit",
                 seq |-> seq, run |-> e.run]
    /\ UNCHANGED <<task, session, worktree, git, asked, events, cursor, bounds>>

\* cleanupRunCapacity and deleteRunWorktree, whatever the claim's state.
StopEnded ==
    /\ At("stopEnded")
    /\ session' = [session EXCEPT ![coord.run] = "none"]
    /\ worktree' = [worktree EXCEPT ![coord.run] = FALSE]
    /\ Goto("commit")
    /\ UNCHANGED <<store, git, asked, cursor, bounds>>

\* Mutant: an event next to the cursor is taken for one already acknowledged.
CommitsNoNeighbour ==
    /\ At("commit")
    /\ cursor' = IF coord.seq > cursor + 1 THEN coord.seq ELSE cursor
    /\ coord' = Idle
    /\ UNCHANGED <<store, session, worktree, git, asked, bounds>>

\* advanceCursor; a sweep has no event to acknowledge.
Commit ==
    /\ At("commit")
    /\ cursor' = IF coord.seq > cursor THEN coord.seq ELSE cursor
    /\ coord' = Idle
    /\ UNCHANGED <<store, session, worktree, git, asked, bounds>>

-----------------------------------------------------------------------------
(* finalizeRun.                                                            *)

\* Mutant: a replay of the handoff that opened the PR counts as the review's.
NothingIsStale(e, seq, c) == FALSE

\* The handoff that opened the PR, delivered again after review has started.
stalePrHandoff(e, seq, c) ==
    e = "work_complete" /\ c.fin = "pr_review_in_progress" /\ c.prSeq = seq

\* The claim is read again; a run that ended meanwhile is not finalized.  The
\* FINALIZE_WAIT notice is awaited before the strategy is looked at.
BeginFinalize ==
    LET c == claim[coord.run]
        e == events[coord.seq].event
    IN
    /\ At("finalize")
    /\ Goto(IF c.state # "in_progress" \/ stalePrHandoff(e, coord.seq, c) THEN "commit"
            ELSE IF ~worktree[coord.run] THEN "block"
            ELSE IF c.fin = "pr_review_in_progress" THEN "mergePr"
            ELSE "notified")
    /\ UNCHANGED <<store, session, worktree, git, asked, cursor, bounds>>

\* git merge --no-ff: main has a merge commit that no branch contains.
Merge(r) ==
    /\ merged' = merged \cup {r}
    /\ branch' = Behind

\* Mutant: a merge that failed is taken for a merge.
MergesOnPaper ==
    /\ At("notified") /\ Strategy = "direct"
    /\ branch[coord.run] = "current"
    /\ Goto("markDone")
    /\ UNCHANGED <<store, session, worktree, git, asked, cursor, bounds>>

\* branchContainsMain holds and mergeTaskBranch succeeds.  The claim is not
\* read again after the await.
MergeBranch ==
    /\ At("notified") /\ Strategy = "direct"
    /\ branch[coord.run] = "current"
    /\ Merge(coord.run)
    /\ Goto("markDone")
    /\ UNCHANGED <<store, session, worktree, pr, asked, cursor, bounds>>

\* The branch lacks main, or the merge failed.
NeedsRebase ==
    /\ At("notified") /\ Strategy = "direct"
    /\ \/ branch[coord.run] = "behind" /\ UNCHANGED faults
       \/ branch[coord.run] = "current" /\ Fault
    /\ Goto("ask")
    /\ UNCHANGED <<store, session, worktree, git, asked, cursor, reports>>

\* git merge-base fails; or pushBranch, createPr or mergePr does.
GitCallFails ==
    /\ coord.pc \in {"notified", "mergePr"}
    /\ Fault
    /\ Goto("block")
    /\ UNCHANGED <<store, session, worktree, git, asked, cursor, reports>>

\* markTaskDoneRuntimeOnly: a claimed task records its start first, a task
\* back in todo, blocked or cancelled is refused.
MarkTaskDone ==
    /\ At("markDone")
    /\ \/ /\ task = "done" \/ task \in Live
          /\ task' = "done"
          /\ Goto("finish")
       \/ /\ task # "done" /\ task \notin Live
          /\ Goto("block")
          /\ UNCHANGED task
    /\ UNCHANGED <<claim, session, worktree, git, asked, events, cursor, bounds>>

\* pushMain only warns; finishRun keeps the outcome of a run that ended.
FinishMerged ==
    /\ At("finish")
    /\ finishRun(coord.run, "done", task)
    /\ Goto("stopLanded")
    /\ UNCHANGED <<session, worktree, git, asked, cursor, bounds>>

\* FINALIZE_SUCCESS, the session's stop and cleanupRunWorktree, which keeps
\* its entry when git cannot remove the worktree.
StopLanded ==
    /\ At("stopLanded")
    /\ session' = [session EXCEPT ![coord.run] = "none"]
    /\ \E gone \in BOOLEAN :
          worktree' = [worktree EXCEPT ![coord.run] = worktree[coord.run] /\ ~gone]
    /\ Goto("commit")
    /\ UNCHANGED <<store, git, asked, cursor, bounds>>

\* markFinalizeBlocked: a claim no longer in progress is left alone.
Block ==
    /\ At("block")
    /\ setRunFinalizationState(coord.run, "blocked_finalize", 0)
    /\ Goto(IF InProgress(coord.run) THEN "stopBlocked" ELSE "commit")
    /\ UNCHANGED <<task, session, worktree, git, asked, events, cursor, bounds>>

\* Mutant: a blocked run is cleaned up like a landed one.
DropsBlockedWork ==
    /\ At("stopBlocked")
    /\ session' = [session EXCEPT ![coord.run] = "none"]
    /\ worktree' = [worktree EXCEPT ![coord.run] = FALSE]
    /\ Goto("commit")
    /\ UNCHANGED <<store, git, asked, cursor, bounds>>

StopBlocked ==
    /\ At("stopBlocked")
    /\ session' = [session EXCEPT ![coord.run] = "none"]
    /\ Goto("commit")
    /\ UNCHANGED <<store, worktree, git, asked, cursor, bounds>>

-----------------------------------------------------------------------------
(* requestFinalizeRebase, from finalizeRun and from the inactivity sweep.  *)

AskRebase ==
    LET c == claim[coord.run] IN
    /\ At("ask")
    /\ \/ /\ c.retries >= 2
          /\ Goto("block")
          /\ UNCHANGED claim
       \/ /\ c.retries < 2
          /\ setRunFinalizationState(coord.run, "finalize_rebase_requested", 0)
          /\ Goto(IF c.state # "in_progress" THEN "commit"
                  ELSE IF c.fin = "finalize_rebase_requested" THEN "askAgain" ELSE "askFirst")
    /\ UNCHANGED <<task, session, worktree, git, asked, events, cursor, bounds>>

RebaseAsked ==
    /\ coord.pc \in {"askFirst", "askAgain"}
    /\ session[coord.run] = "live"
    /\ setRunFinalizationState(coord.run, "finalize_rebase_requested", 1)
    /\ Goto("commit")
    /\ UNCHANGED <<task, session, worktree, git, asked, events, cursor, bounds>>

\* One undelivered request is left to the sweep, the second one blocks.
RebaseNotDelivered ==
    /\ coord.pc \in {"askFirst", "askAgain"}
    /\ session[coord.run] # "live"
    /\ Goto(IF At("askAgain") THEN "block" ELSE "commit")
    /\ UNCHANGED <<store, session, worktree, git, asked, cursor, bounds>>

\* The worker has been inactive for RUN_INACTIVE_NUDGE_MS.  Earlier in the
\* same tick probeActiveWorkerSessions ended the run of a dead session.
handleFinalizationRetry(r) ==
    /\ At("idle")
    /\ InProgress(r)
    /\ session[r] # "dead"
    /\ claim[r].fin \in {"finalize_rebase_requested", "finalize_rebase_in_progress"}
    /\ Sweep(IF session[r] = "none" THEN "block" ELSE "ask", r)
    /\ UNCHANGED <<store, session, worktree, git, asked, cursor, bounds>>

-----------------------------------------------------------------------------
(* The pull request.                                                       *)

\* pushBranch and createPr: an open PR of the branch is taken again, a merged
\* one is not found and a new one is opened.
OpenPr ==
    /\ At("notified") /\ Strategy = "pr"
    /\ pr' = [pr EXCEPT ![coord.run] = CASE @ = "none" -> "open"
                                         [] @ = "merged" -> "reopened"
                                         [] OTHER -> @]
    /\ Goto("prOpened")
    /\ UNCHANGED <<store, session, worktree, branch, merged, asked, cursor, bounds>>

\* setPrRef, setPrCreatedAt and pr_created: three commits that a replay
\* repeats as they were.
RecordPr ==
    /\ At("prOpened")
    /\ claim' = IF InProgress(coord.run)
                THEN [claim EXCEPT ![coord.run] =
                         [Advanced(@, "pr_created", 0) EXCEPT !.prSeq = coord.seq]]
                ELSE claim
    /\ Goto(IF session[coord.run] = "none" THEN "block" ELSE "sendReview")
    /\ UNCHANGED <<task, session, worktree, git, asked, events, cursor, bounds>>

ReviewSent ==
    /\ At("sendReview")
    /\ session[coord.run] = "live"
    /\ asked' = [asked EXCEPT ![coord.run] = TRUE]
    /\ Goto("inReview")
    /\ UNCHANGED <<store, session, worktree, git, cursor, bounds>>

ReviewNotDelivered ==
    /\ At("sendReview")
    /\ session[coord.run] # "live"
    /\ Goto("block")
    /\ UNCHANGED <<store, session, worktree, git, asked, cursor, bounds>>

RecordReview ==
    /\ At("inReview")
    /\ setRunFinalizationState(coord.run, "pr_review_in_progress", 0)
    /\ Goto("commit")
    /\ UNCHANGED <<task, session, worktree, git, asked, events, cursor, bounds>>

\* mergePr returns at once when the PR is merged already.
MergePr ==
    /\ At("mergePr")
    /\ pr' = [pr EXCEPT ![coord.run] = "merged"]
    /\ Merge(coord.run)
    /\ Goto("prMerged")
    /\ UNCHANGED <<store, session, worktree, asked, cursor, bounds>>

RecordPrMerged ==
    /\ At("prMerged")
    /\ setRunFinalizationState(coord.run, "pr_merged", 0)
    /\ Goto("markDone")
    /\ UNCHANGED <<task, session, worktree, git, asked, events, cursor, bounds>>

-----------------------------------------------------------------------------
(* The tick's sweeps over runs that went quiet.                            *)

\* expireAndCleanupStaleLeases.  A merged task's run is spared; the expired
\* claim keeps its finalization fields.
ExpireLease(r) ==
    /\ At("idle")
    /\ Active(r)
    /\ task \notin Completed
    /\ claim' = [claim EXCEPT ![r].state = "failed"]
    /\ task' \in IF task \in Live THEN FailedTaskStatuses ELSE {task}
    /\ Sweep("stopBlocked", r)
    /\ UNCHANGED <<session, worktree, git, asked, events, cursor, bounds>>

\* probeActiveWorkerSessions finds the worker's process gone.
ProbeDead(r) ==
    /\ At("idle")
    /\ Active(r)
    /\ session[r] = "dead"
    /\ \E back \in FailedTaskStatuses : finishRun(r, "failed", back)
    /\ Sweep("stopBlocked", r)
    /\ UNCHANGED <<session, worktree, git, asked, cursor, bounds>>

\* The worker was silent for WORKER_STALE_FORCE_FAIL_MS, or did not start within
\* RUN_START_TIMEOUT_MS, and no handoff of its has been handled.
ForceFail(r) ==
    /\ At("idle")
    /\ Active(r)
    /\ claim[r].fin = "null"
    /\ \E back \in FailedTaskStatuses : finishRun(r, "failed", back)
    /\ Sweep("stopBlocked", r)
    /\ UNCHANGED <<session, worktree, git, asked, cursor, bounds>>

-----------------------------------------------------------------------------
(* The process.                                                            *)

\* The workers' sessions may or may not outlive the coordinator.
Crash ==
    /\ ~At("down")
    /\ Fault
    /\ coord' = Down
    /\ session' \in {session, [r \in Runs |-> IF session[r] = "live" THEN "dead" ELSE session[r]]}
    /\ UNCHANGED <<store, worktree, git, asked, cursor, reports>>

Restart ==
    /\ At("down")
    /\ coord' = Idle
    /\ UNCHANGED <<store, session, worktree, git, asked, cursor, bounds>>

\* orc event-cursor --reset-to: only while no coordinator runs, only back.
ResetCursor ==
    /\ At("down")
    /\ Fault
    /\ cursor' \in 0 .. cursor
    /\ UNCHANGED <<store, session, worktree, git, asked, coord, reports>>

Worker(r) ==
    \/ RunStart(r) \/ RunWorkComplete(r) \/ RunFail(r) \/ RunFinish(r)
    \/ \E e \in Reports : Progress(r, e)
    \/ Rebase(r) \/ WorkerDies(r)

Handler ==
    \/ StopEnded \/ Commit
    \/ BeginFinalize \/ MergeBranch \/ NeedsRebase \/ GitCallFails
    \/ MarkTaskDone \/ FinishMerged \/ StopLanded \/ Block \/ StopBlocked
    \/ AskRebase \/ RebaseAsked \/ RebaseNotDelivered
    \/ OpenPr \/ RecordPr \/ ReviewSent \/ ReviewNotDelivered \/ RecordReview
    \/ MergePr \/ RecordPrMerged

Next ==
    \/ \E r \in Runs : \/ Dispatch(r) \/ Worker(r)
                       \/ handleFinalizationRetry(r)
                       \/ ExpireLease(r) \/ ProbeDead(r) \/ ForceFail(r)
    \/ HandleEvent \/ Handler
    \/ MainAdvances
    \/ Crash \/ Restart \/ ResetCursor

Spec == Init /\ [][Next]_vars

-----------------------------------------------------------------------------
(* Safety.                                                                 *)

TypeOK ==
    /\ task \in Statuses
    /\ claim \in [Runs -> ClaimRows]
    /\ session \in [Runs -> {"none", "live", "dead"}]
    /\ worktree \in [Runs -> BOOLEAN]
    /\ branch \in [Runs -> {"current", "behind"}]
    /\ merged \in SUBSET Runs
    /\ pr \in [Runs -> {"none", "open", "merged", "reopened"}]
    /\ asked \in [Runs -> BOOLEAN]
    /\ events \in Seq(Events)
    /\ cursor \in 0 .. Len(events)
    /\ coord \in [pc : Places, seq : Nat, run : Runs \cup {NoRun}]
    /\ reports \in Nat /\ faults \in Nat

\* A task is done only when some run's work is in main, through every crash,
\* replay and failure of the steps between the merge and its record.
DoneMeansMerged == task = "done" => merged # {}

\* enforceInProgressLifecycle skips a run in one of these states: nothing but
\* the event that put it there, handled again, gets it out.
EventOwned == {"awaiting_finalize", "ready_to_merge", "pr_created", "pr_merged"}

\* A run that waits for the coordinator has its handoff still ahead of the
\* cursor, so no crash between two effects of finalizeRun strands it.
AwaitingHasEvent ==
    \A r \in Runs :
        InProgress(r) /\ claim[r].fin \in EventOwned =>
            \E s \in cursor + 1 .. Len(events) :
                events[s].run = r /\ events[s].event \in Handoffs

\* Requests, redelivered requests and the worker's answers all count against
\* one budget: a run is asked to rebase a bounded number of times.
RebaseBounded == \A r \in Runs : claim[r].retries <= 3

\* A run is reported ended at most once (docs/global-project-contract.md),
\* though run-fail, the merge, a dead PTY and silence may all end it.
OneTerminalEvent ==
    \A r \in Runs :
        Cardinality({s \in 1 .. Len(events) : events[s].run = r /\ events[s].event \in Terminal}) <= 1

\* While a run is active its worktree entry is kept, so the work of a run
\* that finalization blocked can be recovered (docs/recovery.md).
WorkIsPreserved == \A r \in Runs : Active(r) => worktree[r]

\* A PR is merged on a work_complete other than the one that opened it, however
\* often that one is delivered again.  (A ready_to_merge is never held back.)
PrMergeNeedsSecondHandoff ==
    \A r \in Runs :
        LET handoffs == {s \in 1 .. Len(events) : events[s].run = r /\ events[s].event \in Handoffs}
        IN  pr[r] = "merged" =>
                \/ Cardinality(handoffs) >= 2
                \/ \E s \in handoffs : events[s].event = "ready_to_merge"

\* No late failure of the run, and no replay, takes a merged task back.
MergeIsFinal == [][task = "done" => task' = "done"]_vars

-----------------------------------------------------------------------------
(* Liveness.  The tick runs to its end and is started again by a timer.    *)

FairSpec ==
    /\ Spec
    /\ WF_vars(HandleEvent) /\ WF_vars(Handler) /\ WF_vars(Restart)
    /\ \A r \in Runs : /\ WF_vars(handleFinalizationRetry(r)) /\ WF_vars(ProbeDead(r))
                       /\ WF_vars(RunWorkComplete(r))

\* Every report is handled in the end: no event stops the ones behind it.
EventsAreHandled ==
    \A s \in 1 .. MaxReports + MaxRuns : Len(events) >= s ~> cursor >= s

-----------------------------------------------------------------------------
(* What comments and documents say and the code does not do.               *)

\* coordinator.ts: "only the later reviewer handoff may merge the PR".
OnlyReviewerHandoffMerges == At("mergePr") => events[coord.seq].reviewed

\* templates/worker-bootstrap-v2.txt: after the review the worker runs
\* run-work-complete and the coordinator merges the PR.
InReview(r) == InProgress(r) /\ claim[r].fin = "pr_review_in_progress" /\ session[r] = "live"
ReviewEnds ==
    \A r \in Runs : InReview(r) ~> ~InReview(r) \/ reports = MaxReports

\* lib/reconcile.ts: "A merged task whose run has not finished yet is in the
\* finalize window; finalize retries own it."
MergedRunEnds ==
    \A r \in Runs : task = "done" /\ InProgress(r) ~> ~InProgress(r)
=============================================================================
