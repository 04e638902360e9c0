# A TLA+ verification of orc-state

orc-state runs coding agents over a backlog of tasks.  One *coordinator*
process dispatches tasks to worker sessions, watches their leases, finalizes
their branches and recovers from crashes; a *master* session, the operator's
CLI and the workers' own CLI commands are processes of their own that change
the same state directory at the same time.  The project beside this file models
the parts of that system where concurrency, crashes and timeouts meet, checks
them with TLC on small instances and proves the main results with TLAPS for
every instance.

Paths below are relative to the repository.

## The system and its parts

| part | state | operations | what is hard | what makes it correct |
|---|---|---|---|---|
| Task contract (`lib/projectContract.ts`, the SQLite triggers of `lib/projectTaskStore.ts`) | - | which status change is legal for which cause | the table exists twice, and callers set a status first and name a cause later | no caller gets a task from done except by a reset |
| Claims and runs (`lib/claimManager.ts`, `claimLeaseManager.ts`, `claimStateManager.ts`, `runStore.ts`, `reconcile.ts`) | claims in events.db: state, agent, lease, input wait, finalization | claim, start, heartbeat, input wait, finish, expire, reconcile | two databases, two commits; several reporters of one run's end | one active claim per task; tasks and claims agree; an outcome is final; a failure is charged once |
| Project task store (`lib/projectTaskStore.ts`, `projectTasks.ts`, `taskCompletion.ts`) | tasks, revisions, dependencies, transitions, run bindings in runtime.db | create, revise, claim, bind, transition, mark done | bindings are moved by task, not by run | a task is held exactly while one binding is active; a run sees the revision it was bound to |
| Operator mutations (`lib/operatorMutations.ts`, `lib/sessionState.ts`, `cli/kill-all.ts`) | the above | delegate, cancel, reset, unblock, expire, mark done, kill all, session reset and its rollback | they race with the worker and the coordinator | they leave nothing half done that reconcile cannot repair |
| State lock (`lib/lock.ts`) | one file | acquire, release, break | holders die; stale files are examined and removed in separate system calls | exclusion; a dead holder's lock is broken in the end |
| Command delivery (`lib/commandDelivery.ts`, transport in `coordinator.ts`) | commands in events.db, the dispatcher's position | enqueue, reserve, send, acknowledge, defer, fail, reconcile, resolve | awaits, timeouts that race late answers, a sweep during awaits, crashes | a side effect is sent at most once; the recorded outcome is honest |
| Coordinator: events and finalization (`coordinator.ts`, `lib/workerLifecycle*.ts`, `lib/eventCheckpoint.ts`) | event cursor, finalization state of claims, branches and PRs | process events, finalize, rebase, merge, PR review | effects before the cursor advances; a claim read before an await and used after it | work is merged once and recorded; a cancelled task is not merged |
| Coordinator: worker pool (`coordinator.ts`, `lib/workerRuntime.ts`, `agentRegistry.ts`, `remediationPolicies.ts`, `adapters/pty.ts`, `tmux.ts`) | agents.json, sessions, envelopes, pid files, tmux sessions | spawn, launch, ready, send, probe, give up, clean up, adopt | every pass decides from a snapshot and awaits; names are reused | capacity is respected; nobody's session is stopped by mistake; no claim waits for ever |
| Session start and coordinator singleton (`cli/start-session.ts`, `lib/sessionState.ts`, `coordinatorLiveness.ts`, `processIdentity.ts`) | coordinator.pid, a snapshot of the claims | reuse, terminate, reset, launch, spawn, roll back | unlink-and-retry, reused pids, a rollback over newer state | one coordinator; a session gets one; done stays done |
| Terminal broker and input requests (`lib/terminalBroker.ts`, `messageBridge.ts`, `runCommands.ts`) | terminals, control leases, input_requests, input state of claims | open, acquire, write, ask, answer, poll, time out | a lease used after its run ended; the answer is recorded twice, as row and as event | one writer at a time, to the run it asked for; a run waits only for what is unanswered |
| Control server, clients, messages (`lib/controlServer.ts`, `controlClient.ts`, `lifecycleDispatch.ts`, `messageRouter.ts`) | socket, token, descriptor, streams, messages | listen, close, request, retry, subscribe, send, consume | retries across restarts, three transactions per message | a request is applied once, events come without gaps, a queued message is announced |
| Task authoring (`lib/projectTaskStore.ts`, `projectTasks.ts`, `taskMarkdown.ts`, `projectWriteDispatch.ts`) | revisions, the backlog.json projection | create, revise, import, export, announce | editors in several processes, writes that move with the coordinator | no edit is overwritten; only commits are announced |
| Migration (`lib/projectMigration.ts`, `projectRegistry.ts`, `projectContext.ts`) | legacy files, migration record, marker, locks | plan, lock, register, back up, rebuild, verify, cut over | dies anywhere and is run again while the source changes | one atomic cutover |
| Structured sessions (`adapters/codexAppServer.ts`) | session objects, turns, calls | start, submit, read frames, time out, stop | frames in any order, calls that are given up | input between turns; completion is proven |
| Scouts (`mcp/handlers.ts`) | scout numbers in agents.json | request, remove | numbers are given away during awaits | a brief reaches its own scout |
| Event log and schema (`lib/eventLog.ts`, `runtimeSchema.ts`) | events | append, migrate | sequence numbers, import of the old JSONL | each event once, in order |
| MCP and CLI arguments, status views, memory, plans, backlog sync, git hosts | - | argument handling, reads, text, git | - | not protocol state of their own |

The parts interact through the two SQLite databases, the state lock that every
operation on claims and tasks takes, the events that workers append and the
coordinator consumes, and the commands the coordinator delivers to structured
worker sessions.

## The modules

| module | models | composed of |
|---|---|---|
| `TaskContract` | statuses and legal transitions | - |
| `RunLifecycle` | tasks, run bindings, claims and the two-commit operations on them | `TaskContract` |
| `RunLifecycleProofs` | theorems about `RunLifecycle` | `RunLifecycle`, TLAPS |
| `StateLock` | the lock file, one system call per step | - |
| `StateLockProofs` | theorems about `StateLock` | `StateLock`, TLAPS |
| `CommandDelivery` | commands, dispatcher, transport, provider, crashes | - |
| `CommandDeliveryProofs` | theorems about `CommandDelivery` | `CommandDelivery`, TLAPS |
| `Finalization` | the event cursor, the lifecycle reducer, `finalizeRun` and the sweeps around it | `TaskContract` |
| `FinalizationProofs` | theorems about `Finalization` | `Finalization`, TLAPS |
| `WorkerPool` | the coordinator's tick over task-scoped workers, registry, launches, terminals | - |
| `WorkerPoolProofs` | theorems about `WorkerPool` | `WorkerPool`, TLAPS |
| `SessionStart` | start-session, coordinator.pid, the rollback of a failed start | - |
| `ControlApi` | questions and answers, terminals and writer leases | - |
| `ControlServer` | the server's life, clients' retries, the event stream, messages | - |
| `Scouts` | request_scout and remove_scout | - |
| `ControlProofs` | theorems about `ControlApi`, `ControlServer` and `Scouts` | the three, TLAPS |
| `TaskStore` | revisions, editors, routed writes, announcements, run bindings to a revision | - |
| `Migration` | migrate --execute, up to the cutover; then `TaskStore` | `TaskStore`; implements `Cutover` |
| `Cutover` | abstract: an installation becomes a project in one step | - |
| `MigrationProofs` | theorems about `TaskStore` and `Migration`, and the refinement of `Cutover` | `Migration`, TLAPS |
| `CodexSession` | the Codex app-server adapter under the dispatcher | - |
| `SessionProofs` | theorems about `SessionStart` and `CodexSession` | the two, TLAPS |
| `MCRunLifecycle`, `MCCommandDelivery`, `MCWorkerPool`, `MCMigration` | the instances TLC checks | the module each extends |
| `MCControlApi` | one run for three modules that share no state: a behaviour takes the steps of one of them | `ControlApi`, `ControlServer`, `Scouts` |

Definitions named "Mutant" are faulty variants of the definition that follows
them.  Nothing uses them; each one shows that some property notices that fault.

Modules whose theorems share a proof module have no name in common, which is why
`CodexSession` has `CodexInit`, `CodexNext` and `CodexSpec`, `TaskStore` has
`StoreInit` and so on, and `Scouts` and `ControlServer` likewise.

### RunLifecycle

`task` and `bound` are the tables `tasks` and `task_runs` of runtime.db, `claim`
is the table `runs` of events.db.  Every operation runs under the state lock,
reads everything and then makes up to two commits, each atomic, one per
database.  Operations exclude each other (that is what `StateLock` is about), so
an operation is one action for its reads and its first commit, and leaves the
second in `pending`; `CommitBacklog`, `BacklogRejected` and `CommitClaims` make
it, `Interrupted` is the process dying or the commit throwing in between, and
`ClaimAbandoned` the one operation that undoes its first commit when the second
throws.  The order of the two commits is the code's: claiming, reconcile and the
session reset write runtime.db first, all others events.db.

| action | code |
|---|---|
| `ClaimTask`, `ClaimAbandoned` | `claimTask` of the claim manager and of the store, `bindRun` |
| `StartRun`, `RenewLease`, `FinishRunSuccess`, `FinishRunFailure` | `startRun`, `heartbeat` and `renewLeaseOnly`, `finishRun` |
| `RequestInput`, `AnswerInput` | `setRunInputState` |
| `expireLeases`, `reconcileState` | the coordinator's sweeps of the same names |
| `cancelTask`, `resetTask`, `unblockTask`, `delegateTask`, `expireRun`, `markTaskDone`, `killAll`, `sessionReset` | the operator's operations |
| `LeaseRunsDown`, `InputWaitRunsOut` | time; a lease is live, due (exactly now) or past, because the code compares with `<` in one place and `<=` in the other |

Abstractions: run ids are numbers in the order they are issued; times are the
three lease ages and the three input-wait ages; the reason texts, events,
projections and spec revisions are left out; only project mode (SQLite) is
modelled, not the legacy backlog.json mode.  `FinishRunSuccess` requires the
task to be merged, as `assertRunMayFinish` and the coordinator's order of calls
do; the merge itself is in `Finalization`.

### StateLock

`file` is the lock file (creator, written or not, age), `pc` the next system call
of each process.  `O_EXCL` creation, the write of the pid, stat, read, the
liveness probe, and both unlinks are separate steps, because other processes run
between them.  Ages are abstracted to fresh, stale (`LOCK_STALE_MS`) and ancient
(twenty times that).  Assumptions: a live process does not keep its file, or stay
between creating and writing it, until it is ancient (ten minutes of synchronous
work under a lock); a pid is not reused (a reused pid makes the lock look held,
so the code fails closed); writes do not fail; tokens distinguish no more than
pids do, since a process holds one lock at a time.

### CommandDelivery

`cmd` is the commands table, `at` and `cur` the dispatcher's position in `tick`
and the command it works on, `send` what became of each attempt handed to the
provider.  JavaScript runs to completion, so only the two awaits of `tick`
(`probing`, `sending`) let the sweep timer, acknowledgements and new commands in;
the run and the session, which other processes change, may change at any time.
`bounded()` gives up on an operation without stopping it: an attempt that
`SendFails` may still land and be answered.  Deadlines, the 30 s stall and the
back-off are flags that time sets.  Credentials, payloads and the refusal of a
conflicting idempotency key are left out: they refuse a request and change
nothing.  When the row of a cancelled run is deleted during an await,
`failTransport` throws out of the catch block; `Catch` then either ends the tick
(the caller awaited it) or takes the coordinator down (the timer did not).

### Finalization

The runs of one task from dispatch to the merge.  `claim` is the claim with its
finalization state, retry count and the seq of the handoff that opened its PR;
`session` and `worktree` are the worker's entry in agents.json and
run-worktrees.json; `branch`, `merged` and `pr` are what the coordinator can
observe of git and the git host; `events` is the log, `cursor` the durable offset
of the coordinator, `coord` the place of the tick in the code.

The control API runs in the coordinator's process, so worker commands are applied
only where the tick awaits (`Awaits`); a crash may come between any two durable
effects (`Places`).  `HandleEvent` is the reducer's part of
`processTerminalRunEvents`; `BeginFinalize`, `MergeBranch`, `NeedsRebase`,
`MarkTaskDone`, `FinishMerged`, `StopLanded` are `finalizeRun` and
`mergeAndFinishDirectRun`; `AskRebase`, `RebaseAsked`, `RebaseNotDelivered` are
`requestFinalizeRebase`, entered from the finalizer and from
`handleFinalizationRetry`; `OpenPr` to `RecordPrMerged` are the pull request;
`Block`, `StopBlocked` are `markFinalizeBlocked`; `Commit` is `advanceCursor`.
`ExpireLease`, `ProbeDead` and `ForceFail` are the sweeps that end a quiet run,
`ResetCursor` is `orc event-cursor --reset-to`.

Abstractions.  The attempt budget and the failure policy decide between todo and
blocked by a free choice.  Events that change none of this state are left out of
the log, so a seq here is a position among the others.  The two databases commit
together here; the windows between the two commits are `RunLifecycle`'s.  An
operator's cancel and reset are in `RunLifecycle` only.  Workers are the ephemeral
ones the coordinator spawns.  The branch of `processTerminalRunEvents` that records
`pr_failed` is left out: `run_failed` is appended by `finishRun`, in the
transaction that ends the claim, so the event never finds the claim in review.
`blocked_finalize` is left by an operator, by lease expiry or by the end of the
worker's session, as in the code.

### WorkerPool

`claim`, `worker` and `task` are what the coordinator and the CLI read and write;
`proc` is the provider process of each run, `own` the PTYs in this coordinator's
adapter, `events` the terminal events past the cursor.  A tick is a sequence of
passes (`at`); `NextPass` reads the claims and agents, and `plan` keeps what the
pass will do for each run from that snapshot; `op` is what it awaits.

| action | code |
|---|---|
| `BeginTick`, `NextPass`, `EndTick` | `tick`, `initializeTickState`, `reloadTickState` |
| `processTerminalRunEvents`, `expireAndCleanupStaleLeases`, `probeActiveWorkerSessions`, `enforceInProgressLifecycle`, `GiveUp`, `processClaimedSessionReadiness`, `markStaleAgentsDead` | the passes of these names, `executeRemediation`, `cleanupRunCapacity` |
| `planDispatch`, `executeDispatchPlan`, `start`, `launchWorkerSession`, `LaunchFails`, `prepareProviderLaunch`, `StartupFails`, `send`, `markTaskEnvelopeSent`, `SendFails` | dispatch of one task: claim, spawn, launch, readiness, envelope |
| `Crash`, `Terminated`, `Throws`, `Restart` | the process dies, `doShutdown`, an unhandled rejection, adoption of sessions by the next one |
| `reportForDuty`, `startRun`, `heartbeat`, `workComplete`, `runFail` | the worker's commands |
| `removeWorker`, `gcWorkers`, `RemovesRun` | `worker-remove`, `worker-gc`, cancel and reset |

Abstractions: times are three ages of a claim; a run that fails leaves its task to
do (attempts are `RunLifecycle`'s); nudges change no state and are left out; task
selection is a free choice among eligible tasks; the policy table is reduced to
whether a pass gives a run up.

Worker names are drawn from those no *registered* worker has
(`nextAvailableWorkerName`).  A run whose coordinator died between `claimTask` and
`registerAgent` (`DiesClaiming`) has a claim and no registered worker, so its name
may be drawn again; so may that of a run whose launch goes on after an operator
removed it.  The two runs then count as one worker in `activeClaimAgents`, and a
pass that cleans up after one stops the session of the other, since sessions are
stopped by name.  `DistinctNames` says that this coincidence has not happened; it is
the hypothesis of the two theorems that are false without it.  With one worker slot,
as in the run, a claim blocks the slot and the coincidence hurts nobody.

### SessionStart

`file` is coordinator.pid (who created it, written or not); opens, reads, writes
and unlinks are steps of `coord` (a coordinator) and `session` (a start-session
process).  `snap` is the snapshot a session takes before it resets the claims and
restores when the launch fails; one task and its runs are enough to say what it
overwrites.  `PidReused` gives a dead coordinator's pid to another process.

### ControlApi

One agent works one run after another in a tmux session that keeps its name
(`pane` is the run behind it).  Terminals: `openShell`, `provider`, `observe`,
`acquire`, `write`, `release`, `reconcile`, `markOffline` are the broker's methods;
`sendText` and `sendEnter` are the two halves of the coordinator's own message,
200 ms apart, under the same lease table.  Questions: `requestInput` and
`askFromCoordinator` insert a row, append an event and set the claim's input
state; `respondInput` answers a row and appends an event; `processEvent` replays
both into the claim; `poll`, `timeoutInput` and `expireInputWait` end the wait.
What is written on a screen and who may answer are left out.

### ControlServer

`listen` and `writeEndpoint` are the start of the server, `close` and
`ProcessEnds` its end; each start has a token of its own.  A request goes through
`discover`, `connect`, `route` and `applyLifecycle`; `Fails` decides about another
attempt from the error's code, as `sendLifecycle` does.  `pump` and `Receives`
are the stream with back-pressure (`HighWater` frames); `Disconnects` loses what
is on the way.  `sendMessage` makes up to three transactions; its third disjunct
is a crash between them.

### Scouts

`scout` are the scout rows of agents.json, `call` the `request_scout` calls of one
MCP server, `named` the process behind a session name: over tmux a name reaches
whatever session has it now, over a PTY the adapter of the call knows its own
process.  The awaits (startup dialogs, polling for duty, the pause before Enter)
are places of a call at which other calls and `remove_scout` run.

### TaskStore, Migration, Cutover

`spec[t]` is the sequence of revisions of a task, each with its body and the
revision its editor had read.  An editor drafts from what it read, sends the write
to the running coordinator or applies it itself when there is none, and may ask
again when the answer is lost; `notify` and the refresh of backlog.json follow the
commit, if the process lives.

A migrator goes through `planMigration`, the lock files, `register`,
`backupInstallation`, `wipe`, `copyHistory`, `importPlannedTasks`,
`importSettings`, `verify`, `writeMarker` and `cutOver`, and may die between any
two; the installation is a version number that an edit increments.  `Migration`
implements `Cutover` (`ImplementsCutover`): the abstract authority is "project"
once the record says cut over, the abstract source is the legacy version, and the
abstract content is what a reader finds in the project's store, history and
settings from then on.  `QuietInventory` assumes that nobody edits while the
inventory itself is read.

### CodexSession

A worker's handle names one session object at a time; each has the fields the
adapter keeps (`activeTurnId`, `submitting`, `turnCommands`, `finishedTurns`,
pending calls).  The provider answers calls and reports turns in any order;
`onFrame` is the adapter's reaction together with the continuations that run in
the same job; `SendExpires` and `CallExpires` are the two timeouts of a submission
that may be answered late; `stop`, `onExit`, `Crash` end a session.

## The runs

| run | instance | result |
|---|---|---|
| `run_lifecycle` | 2 tasks (one depends on the other), 1 agent, 2 runs, 1 lost commit, fairness | all hold |
| `lock_crash` | 2 processes, 1 crash, fairness | all hold |
| `lock_stale_break` | 3 processes, 1 crash | `MutualExclusion` is violated: see Findings |
| `command_delivery` | 1 command of each of four kinds, 2 attempts, 2 crashes, fairness | all hold |
| `finalization_direct` | direct merge, 2 runs, 2 handoffs, 2 faults | all hold |
| `finalization_pr` | pull request, 1 run, 3 handoffs, 1 fault, fairness | all hold |
| `worker_pool` | 2 tasks, 2 names, 1 worker at a time, both transports, 2 runs, 1 crash, 1 removal; tasks and names interchangeable | all hold (1,145,264 states) |
| `worker_pool_live` | 1 task, 1 name, otherwise the same, fairness | all hold |
| `session_start` | 3 sessions, 3 coordinators of which one acquires the lock at a time, 2 crashes, fairness | all hold |
| `control_api` | 2 runs, 2 questions, 2 answers, 1 operator; 1 client, 1 message, 3 starts, 3 events, 2 sessions; 3 scout calls, 2 numbers | all hold |
| `migration` | 1 migrator, 1 edit of the source, 1 crash; then 2 tasks, 2 editors, 1 run | all hold (755,024 states), and the migration implements `Cutover` |
| `structured_session` | 2 sessions, 2 commands, 1 timeout, fairness | all hold (484,925 states) |

Why the bounds suffice for the interesting cases.  Two runs let a task be claimed
again after a failure, a reset or a lost commit, which is where stale bindings
and claims meet new ones; the second task makes sweeps and resets touch several
rows and exercises dependencies.  One lost commit is enough to make the databases
disagree; the theorems cover any number.  Two processes and a crash show recovery
of the lock, three are the fewest that show the stale-break race; that more live
processes exclude each other is the theorem `ExclusionUntilDeath`.  Two attempts
reach the limit of `max_attempts` and let a late answer of the first attempt meet
the second.  Two runs of a task let the late steps of a failed run's finalization
meet its successor, and two faults let a crash be followed by a reset of the
cursor or by a git call that fails.  In the worker pool a second run meets what the passes still
plan for the first, with one worker slot for two tasks; a crash and a removal can
both happen during one launch.  Three sessions let one terminate a coordinator
another has spawned while a third looks for one.  Three starts of the server let a
client meet its server, the one that replaced it and a third; three events
fill a socket of two and leave one.  Three scout calls on two numbers let a number
be taken, removed, taken by a second call and met by the first.  One migrator that
dies once is run again over what it left; `MCMigration` lets a project be edited
only after an undisturbed migration, since the editors see nothing of how it came
about, and cuts the revisions at two edits.  In `ControlApi` the constraint
`TerminalsOrQuestions` separates the two halves, which share only the runs and
read nothing of each other.  Every bound is a constant named "Max..."; no other
state is cut.  Deadlock is checked where the system never stops; `Finalization`,
`SessionStart`, `MCControlApi` and `CodexSession` may end.

Fairness.  `RunLifecycle`: strong fairness of `reconcileState` and `expireLeases`
(the coordinator calls both at every tick, for ever; an operation that holds the
lock now is gone at a later tick) and weak fairness of the second commit (the
process goes on).  `StateLock`: every live process takes its next step, refused
callers try again, files grow old.  `CommandDelivery`: the timer fires, an
operation ends or times out, the dispatcher goes on; nothing forces a crashed
coordinator to be restarted, which a human does, so its liveness properties hold
"or the coordinator is down".
`Finalization`: the tick runs to its end and the timer starts it again (the
handlers, `HandleEvent`, the retry sweep and the probe are weakly fair), the
coordinator is restarted, and a worker whose `run-work-complete` would be accepted
reports in the end, as its instructions say.  `WorkerPool`: the timer drives the
tick, the coordinator is started again, leases run out; workers owe nothing.
`SessionStart`: processes go on, a coordinator told to stop stops; the user at
the prompt owes nothing.  `CodexSession`: what is written to a pipe is read, an
exit is reported; the provider owes nothing.

## What the properties say

RunLifecycle.  `OneActiveClaimPerTask` relates the tables at every moment, also in
the middle of an operation and after a crash.  `SettledAgreement` says that only a
lost commit makes tasks and claims disagree and that one completed
`reconcileState` ends it; `DoctorSeesDisagreement` that `orc doctor` reports every
disagreement in the meantime.  `AttemptsPaidByFailures` bounds the charged attempts
by the failed runs.  `EndedRunsStayEnded` is about steps; `StrandedTaskRecovers`
and `ExpiredRunReleased` about what must happen in the end.

StateLock.  `MutualExclusion`, `BreaksDeadLocksOnly`, `DeadLocksAreBroken`.

CommandDelivery.  `SideEffectsSentOnce` is the promise of docs/configuration.md;
`UncertaintyIsHonest` says that `failed` is never recorded for a side effect that
may have happened and `outcome_unknown` never for one that did not;
`ReservationsEnd` and `EndedRunsSettle` that no crash leaves a command behind.

Finalization.  `DoneMeansMerged` ties the recorded status to git through crashes
and stale claims; `OneTerminalEvent` is the promise of
docs/global-project-contract.md although four parties may end a run;
`WorkIsPreserved` that of docs/recovery.md; `PrMergeNeedsSecondHandoff` that a
redelivered handoff is not taken for the review's; `EventsAreHandled` that no event
holds up the others for ever.

WorkerPool.  `ClaimsWithinLimit` although capacity is computed from a stale
snapshot; `EnvelopeTypedOnce`, but for a crash right after it was typed;
`NoActiveRunIsKilled` although sessions are stopped by name; `ClaimsMoveOn` and
`FailedWorkersStop` under crashes and removals.

SessionStart.  `OneCoordinator` (with one coordinator acquiring at a time, see
below), `SessionGetsCoordinator`, `DoneTaskStaysDone`.

ControlApi and ControlServer.  `TextIsSubmittedAlone`, `KeysReachTheirRun`,
`AwaitingIsUnanswered`; `RequestsAppliedOnce`, `StreamHasNoGaps` and
`MessagesAreAnnounced` are what the clients' comments promise.  Scouts:
`BriefReachesItsScout`.

TaskStore and Migration.  `NoEditIsOverwritten`, `AnnouncedIsCommitted`,
`ImplementsCutover`.  CodexSession.  `InputBetweenTurns` (docs/configuration.md),
`CompletedIsProven`, `SessionsComeFree`; the first two name the one exception, a
call the adapter gave up.  With three commands and one session TLC shows how far that
exception reaches: a turn that was given up and is heard of late takes the place of
the active turn, so that the two turns at work may both be others'.  The property
therefore asks for a call given up in one of the two sessions, not for one of the two
commands.

## Findings

* `lock_stale_break`: two processes that both read a dead holder's pid break the
  lock one after the other; the second removes the lock the first has just
  created, and both are inside.  The window opens only after a process died
  holding the lock and the file is older than `LOCK_STALE_MS`.

Properties that are defined in the modules and that TLC refutes for this code; the
configurations are those of the runs of the same module unless stated:

* `OnlyReviewerHandoffMerges` (Finalization, PR): the handoff that opened a PR is
  recognised by its seq (coordinator.ts:2159: "only the later reviewer handoff may
  merge the PR").  A second `work_complete`, reported before the first is handled,
  is another seq and merges the PR that nobody has reviewed.
* `ReviewEnds` (Finalization, PR): the worker is told to run `run-work-complete`
  after its review (templates/worker-bootstrap-v2.txt:187);
  `nextFinalizationTransition` (lib/workerLifecycle.ts:90) refuses it in
  `pr_review_in_progress`, and no sweep looks at such a run.  Only
  `orc progress --event=work_complete`, which does not look at the state, gets the
  PR merged.
* `MergedRunEnds` (Finalization, direct): after a crash between marking the task
  done and `finishRun`, the replay finds a branch without the merge commit, asks for
  a rebase and may end in `blocked_finalize`; the inactivity sweep
  (coordinator.ts:1332), lease expiry and `reconcileState` all leave such a run
  alone, and it holds its capacity.
* `HandedOutScoutStays` (Scouts): a removed number is given to the next request, so
  a request that fails late stops and unregisters another one's scout
  (mcp/handlers.ts:485-488, 499-501).
* `OneCoordinator` with `MaxStarting = 2`: two coordinators that find the same stale
  coordinator.pid unlink one after the other, like the processes of
  `lock_stale_break` and without its age guard.
* `QuestionsCanBeAnswered` (ControlApi): a second question of the run makes the
  earlier one unanswerable without its request id, since the answer goes to the
  newest row, and an answered row refuses another text.
* `ShellsEnd` (ControlApi): `reconcile` looks only at rows that are running, so a
  shell that one failing probe marked offline outlives its run.
* `CutOverIsFinal` with two migrators (a second one that planned before the cutover
  wipes the project in use) and `CutOverIsWhole` with `QuietInventory = FALSE` (an
  edit while the inventory is read is imported in part and verified against itself).

Other disagreements that the models contain and no run is kept for:
docs/contracts.md says that claims are never deleted, and `cancelTask` deletes the
task's active claims (and, by the foreign keys, their commands, messages and
input requests); it says that finalization never moves backwards, and a second
rebase request moves a run back to `finalize_rebase_requested`; and after a crash
between `pr_merged` and `finishRun` the replayed handoff opens a second PR
(`OpenPr` then records the PR as reopened).

What else the models show, each from reading a trace or an action against the code:

* Worker pool.  `cancelTask` deletes a claim that a pass still plans for: `finishRun`
  throws, the tick rejects, and the unhandled rejection shuts the coordinator down
  (`Throws`); so does a worker unregistered while readiness relaunches it.
  `run_cancelled` and `claim_expired` are not cleaned up after as terminal events
  are.  `main` starts its first tick without `ticking`, so the timer may start a
  second one.  A crash between the launch and its record leaves a process nobody
  knows.  `processManagedSessionStartRetries` cannot be reached for task-scoped
  workers.
* Session start.  A failed start after "reuse" restores claims that have ended
  since.  A coordinator that takes more than two seconds to stop leaves the session
  without one, since it exits after the session looked.  "Failed preparing master
  session" exits without restoring the snapshot (`PreparationFails`).
* Input.  An answer without a request id is bound to the newest row, not to the one
  the worker polls; a crash between an answer's row and its event leaves the run
  awaiting; a worker that times out fails a run that was answered after its last
  look.  `reconcile` looks only at running rows, so a shell that was marked offline
  by one failing probe is never ended.
* Control server.  A client that read the old token and reaches the new server gets
  "unauthenticated", which it does not retry although nothing was applied; nor does
  it retry a reset connection.  A message consumed before its command was linked
  cannot be sent again after its session was replaced.
* Scouts.  `remove_scout` during a launch stops nothing and leaves the process, as
  does a launch whose dialogs fail.
* Migration.  A stale lock file is replaced non-atomically and names no process
  start; a crash between the marker and the record lets a retry cut over unchecked;
  a settings key removed after a crash makes verification fail for ever; the backup
  of a first attempt is not renewed.
* Codex.  A turn/start answered after the rpc timeout is attributed to the next
  submission (coordinator.ts:176 says "the command that started the turn"), and two
  turns may overlap; both are the exceptions the properties name.  A spawn that
  fails never emits "exit", so `stop` waits for ever.
* Doctor.  `FINALIZATION_STATES` of lib/lifecycleDiagnostics.ts:26 lacks the PR
  states of types/claims.ts, so every run in review is reported as invalid.

## What is proved

All theorems hold for every value of the constants that satisfies the modules'
named assumptions (finite tasks and names distinct from the "none" values;
bounds are numbers).

`RunLifecycleProofs`.  The argument has three layers.  `Inv` is `TypeOK`,
`ClaimInFlight`, `FailingActive`, `ClaimHasBinding` and `OneActiveClaimPerTask`.
That a claim commit cannot create a second active claim, or overwrite an ended
one, needs `ClaimInFlight` (the task stays claimed and free of other claims while
`claimTask` holds the lock), and that a second commit fails only claims that are
still active needs `FailingActive`; `TypeCorrect`, `SingleActiveClaim` and
`OutcomesAreFinal` follow.  On top of it `BindingTracksTask` and
`ActiveClaimIsBound` are preserved by the few kinds of step that touch tasks or
bindings (`StepKinds`): `BindingsFollowTasks`, `ClaimsAreBound`.  `Settling` adds,
for each operation between its commits, what its second commit will make agree
(`BacklogSettles`, `ClaimSettles`, `ReconcileSettles`, `ResetSettles`) and that a
claim is never behind its task (`StartedClaimFirst`); `Agreement` follows, and
with `ResetsKnown` also `MergesAreFinal`.  `RefusalsAreExplained` uses the same
invariant.  `DoctorIsComplete` needs only `Inv`: each way in which a task and its claims
can disagree is matched with an issue the doctor reports.  `AttemptsArePaid` counts: a
task's attempts and the charge of the operation under way are at most its failed runs
(`Paid`), and `ChargeKinds` says that a step charges only together with a new failure.

`StateLockProofs`.  As long as no process has died the lock excludes and every
release succeeds, for any number of processes (`ExclusionUntilDeath`,
`ReleaseUntilDeath`).  The invariant `CrashFree` says that whoever is in the
section owns the file, that no file is ancient, that a probe names a process and
that nobody has reached `break`; the run
`lock_stale_break` shows that the hypothesis cannot be dropped.

`CommandDeliveryProofs`.  `DeliveryInv` is `TypeOK`, `RowsOK` (what each row's
state and flags imply about the attempts handed over) and `WorkOK` (what the
dispatcher's position implies about the row it holds).  Each transaction is
proved once to keep a row in order (the lemmas "Keeps"), one frame lemma lifts
that to the table, and the theorems `AtMostOnce`, `AttemptsBoundSends`,
`HonestOutcomes` and `SettledForGood` follow.

`FinalizationProofs`.  `FinalizationInv` has seven parts.  `Base` is `TypeOK` with
`Position`: away from idle the tick has a run and, outside a sweep, exactly the
event next to the cursor, a handoff wherever the finalizer is.  `Budget` says what
each claim still owes: a run that was asked to rebase has an answer left in its
budget, and a request on its way found at most one unit spent.  `Waiting` adds to
`AwaitingHasEvent` that, at the places from which an event is about to be
acknowledged, the event's run no longer waits for it (`Settled`); without it the
cursor could pass a handoff somebody still needs.  `Landed` carries the merge from
git to its record.  `Reported` says that a terminal event is of an ended run and that
no run has two; it is stated over pairs of positions, which a step can keep, rather than
as the count of `OneTerminalEvent`, which follows.  `Kept` says that a tick about to drop
a worktree has an ended run in hand, and `Reviewed` where the handoff recorded with a
PR comes from and that whatever is being merged has had another.  `HandoffsAreKept`,
`RebasesAreBounded`, `DoneIsMerged`, `EndIsReportedOnce`, `WorkIsKept`,
`PrMergedOnSecondHandoff` and `FinalizationTyped` follow; `DoneIsFinal` holds of every
step by itself.

`WorkerPoolProofs`.  There are forty ways to take a step, but few shapes of it: all
but a claim move claims, workers and events in a few ways only (`Moves`: a claim
keeps its name and, once ended, stays ended; a worker keeps its session, loses it or
gets that of a run of its name), and all change the tick's control in one of the
shapes of `Stepped`.  Each action is proved once to have its shape, and `PoolInv` is
proved over the shapes.  Its parts: a name for every claim (`Named`), plans and
operations only for runs that were claimed (`Assigned`), at most one send at a time
(`Sole`), an envelope counted before it is recorded (`TypedBefore`), a worker's
session is a run of its name (`SessionOwned`), and `Limit`: the workers of active
claims *and* the tasks still to be claimed in this pass fit in `max_workers`.  The
last is why a snapshot that is stale when it is used does no harm: between the
snapshot and the claims only the dispatcher adds claims.  `PoolTyped`,
`EnvelopesAreTypedOnce` and `WorkersWithinLimit` need no hypothesis;
`RunsWithinLimit` and `ActiveRunsAreSpared` are conditional on `[]DistinctNames`.  The
invariant was first checked by TLC with two worker slots under the constraint
`DistinctNames` (2,945,211 states).

`ControlProofs`, Scouts.  A brief goes to whatever has the scout's name.  `ScoutsInv`
adds to the types and to `BriefReachesItsScout` what makes the name trustworthy at that
moment: a live process has a number and over tmux its name (`LiveIsNamed`, which
holds because a launch kills the session it takes the name from), so when a session
reports for duty its row carries its own name (`NamedWhenReady`), and a call under
way has a number (`Numbered`).  `BriefsReachTheirScouts` and `ScoutsTyped` follow
for any number of calls, scouts and server exits.

`ControlProofs`, ControlServer.  Three protocols share the server's process, so
`ServerInv` has a part for each, and a step of one leaves the others alone but for the
end of the process.  Requests (`RequestOK`): a client that will try again left nothing
at the server, and what the server still holds was not applied; without the first a
retry could find its earlier request still waiting.  Stream (`StreamPart`): what was
seen and what is on the way together are the first events in order, and the cursor
of an open stream is their number; `PumpKeeps` and `ReceivesKeeps` are the sequence
reasoning.  Messages (`MessagePart`): a queued message that has a command was
announced to the session it is for, which a rebinding keeps by dropping the command.
`AppliedOnce`, `NoGaps`, `QueuedIsAnnounced` and `ServerTyped` follow for any number
of clients, starts, events, sessions and keys.

`ControlProofs`, ControlApi.  The invariant covers terminals and questions together,
without the constraint that separates them in the run.  Terminals: the pane belongs to
the newest run (`RunsOrdered`) and a send between its text and its Enter holds the
lease of a terminal that serves its run (`SendHolds`); `TextGoesAlone` and
`KeysReachTheirLease` follow.  Questions: a run that waits has its newest question
unanswered, or an answer's event ahead of the coordinator's cursor (`AwaitingOpen`);
`WaitsAreUnanswered` is the case in which the cursor has reached the end.

`SessionProofs`, SessionStart.  Under `MaxStarting <= 1` the invariant `LockInv` says
that at most one coordinator lives, the one that acquires the lock included
(`OneLives`), that the lock names whoever works, and that a file that was opened is
there until it is written.  A session spawns only when the lock names nobody and nobody
is on the way to it, so nobody lives at that moment; that is the step the assumption is
needed for, and with `MaxStarting = 2` TLC refutes the conclusion.
`NeverTwoCoordinators` and `CoordinatorIsFound` follow.  `RollbackKeepsDone` needs only
that a done task is bound to no run (`DoneIsUnbound`), and no assumption.

`SessionProofs`, CodexSession.  `CodexInv` relates what the adapter believes to what
the provider does: frames on the wire are true of their turns (`FramesTrue`), a session
object's fields are true of the turns of its own commands (`ObjectsTrue`), and unless a
call of the session was given up, a turn that is not over is the one being submitted or
the active one (`Tracked`).  A command is submitted only where neither is there, hence
`InputWaitsForTurns`; `CompletedOnItsWord` and `CodexTyped` follow too, for any number of
sessions, commands and timeouts.  TLC checked the invariant with two sessions and two
commands and with one session and three commands (1,042,754 states).

`MigrationProofs`, TaskStore.  `EditsAreKept` and `AnnouncementsAreTrue` are about a
project by itself (`StoreSpec`), from the empty store on.  `StoreInv` says that what an
editor has read is still there (`BasesAreOld`: without it the first revision of a task
might be made from a later one), that what a process owes an announcement for is
committed and not announced (`NewsIsNew`), and that no two processes owe the same
(`NewsIsOnce`).

`MigrationProofs`, Migration.  The theorems assume `OneMigrator`: one process migrates
at a time and nobody edits while it takes its inventory.  Both halves are needed (see
Findings).  `MigrationInv` adds to `StoreInv`: nobody uses the project before the
cutover (`Unused`, so wiping its store takes nothing from an editor); a migrator's
tasks are of the version it took the fingerprint of, and the history it copied is of
that version or a later one (`PlanAgrees`), so a fingerprint that still agrees at the
end makes all three the same version; and the marker is written only when the project
holds one version whole (`MarkedIsWhole`), so that a retry which finds the marker may
cut over unchecked.  `MigrationIsCutover` is the refinement: the initial states map to
initial states; an edit of the source is `EditSource`; `cutOver` and the retry that
finds the marker are `CutOver`, with the version of `MarkedIsWhole` as witness; a step
of the project in use is `EditProject`, since the store only appends
(`RevisionsOnlyAdded`); everything else stutters, because a migrator that is filling
the project is not yet past its marker.  `CutOverStays`, `MigratedEditsAreKept` and
`MigratedAnnouncementsAreTrue` follow.

Only model-checked: every liveness property (fairness is out of the prover's reach),
and `BreaksDeadLocksOnly` with `MutualExclusion` after a crash, which hold for two
processes and not for three, so that there is no general theorem to state.  Every other
property of a passing run is stated by a theorem.

What the proofs changed in the models.  `InputBetweenTurns` was too strong (above).
`DoctorSeesDisagreement` counted an issue about an agent as one about a task of the same
name.  `executeDispatchPlan` claims the whole batch before any launch of it is under way,
as `runBounded` does.  Three `CASE` expressions had arms that overlap
(`reduceLifecycleEvent`, `route`, the supervise arms of `Step`), for which TLA+ leaves the
choice open and TLC takes the first; they are written so that the code's order decides.

## Plan

Done, in this order: `TaskContract` and `RunLifecycle`, `StateLock`,
`CommandDelivery`, `Finalization`, `WorkerPool`, `SessionStart`, `ControlApi`,
`ControlServer`, `TaskStore`, `Migration` with `Cutover`, `CodexSession` and `Scouts`, each
with its proofs.

Left, by what it would add:

1. An abstract task ownership that `RunLifecycle` implements, and a composition of
   `RunLifecycle` with `StateLock` that justifies treating an operation as two steps.
2. An abstract delivery (a side effect happens at most once and its record is honest)
   that `CommandDelivery` implements.
3. Cancel and reset composed with `Finalization`.

## Not modelled

MCP and CLI argument handling, the status views and the TUI (they read), memory,
planning and markdown (text), backlog sync and the legacy file mode (replaced by
projects), provider processes and git (external; only what the modelled code
observes of them), event validation, JSON schemas, credentials, sandbox settings
and prompts (no protocol state), database schema migrations (one-off, each in one
transaction).
