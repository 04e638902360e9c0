------------------------------ MODULE WorkerPool ------------------------------
(***************************************************************************)
(* The coordinator's tick (coordinator.ts): how task-scoped workers are    *)
(* spawned up to max_workers, watched, and taken away again, over the      *)
(* worker runtime (lib/workerRuntime.ts), the agent registry               *)
(* (lib/agentRegistry.ts), session supervision (lib/sessionSupervisor.ts)  *)
(* and the terminal adapters (adapters/pty.ts, adapters/tmux.ts).          *)
(*                                                                         *)
(* A tick is a sequence of passes.  Each pass visits the runs of the       *)
(* claims it read when it began, and every visit may await: meanwhile      *)
(* workers, operators and the clock go on.  What a pass decides from is    *)
(* therefore its snapshot, what it writes is checked against the files.    *)
(* plan keeps of a snapshot what the pass will do for each run.            *)
(*                                                                         *)
(* Runs are numbered in the order they are claimed.  A worker's name is    *)
(* free again once it is unregistered, and its pid file and its tmux       *)
(* session are named after it.  How often a task may fail, and what input  *)
(* requests, nudges and finalization do to a run, are RunLifecycle's and   *)
(* Finalization's: here a failed run leaves its task to do.                *)
(***************************************************************************)
EXTENDS Integers, FiniteSets

CONSTANTS
    Tasks,       \* tasks ready for dispatch
    Names,       \* worker names nextAvailableWorkerName may pick
    MaxWorkers,  \* worker_pool.max_workers
    Transports,  \* what resolveSessionTransport may answer: "pty", "tmux"
    MaxRuns,     \* bound: how many runs are claimed
    MaxCrashes,  \* bound: how often the coordinator dies or is told to stop
    MaxRemovals, \* bound: how often an operator cancels or resets a busy task
    NoTask, NoName

ASSUME TasksAssumption == NoTask \notin Tasks /\ IsFiniteSet(Tasks)
ASSUME NamesAssumption == NoName \notin Names /\ IsFiniteSet(Names)
ASSUME BoundsAssumption == MaxWorkers \in Nat /\ MaxRuns \in Nat
                           /\ MaxCrashes \in Nat /\ MaxRemovals \in Nat
ASSUME TransportsAssumption == Transports \subseteq {"pty", "tmux"}

VARIABLES
    task,       \* backlog: what each task may be dispatched for
    claim,      \* claims.json
    worker,     \* agents.json
    proc,       \* the provider process of each run's session
    own,        \* runs whose PTY is in this coordinator's adapter
    events,     \* runs whose run_finished or run_failed is past the cursor
    typed,      \* how often each run's envelope was typed
    transport,  \* the session transport of this installation
    at,         \* the pass the coordinator is in
    plan,       \* what the pass has still to do for each run
    todo,       \* tasks the tick may still dispatch
    op,         \* what the coordinator awaits for each run
    crashes,    \* coordinators that died or were told to stop so far
    removals    \* busy tasks cancelled or reset so far

vars == <<task, claim, worker, proc, own, events, typed, transport, at, plan, todo, op, crashes, removals>>

\* What workers, operators and the clock leave alone.
coordinator == <<typed, transport, at, plan, todo, op, crashes>>

Runs == 1 .. MaxRuns

ActiveStates == {"claimed", "in_progress"}

\* reset: failed by resetTask, which appends no terminal event.
Ended == {"done", "failed", "expired", "reset", "deleted"}

\* late: what the claim waits for (report for duty, run_started, activity)
\* is overdue; lapsed: its lease has run out as well.
ClaimRows ==
    [state : {"none"} \cup ActiveStates \cup Ended, task : Tasks \cup {NoTask},
     name : Names \cup {NoName}, sent : BOOLEAN, age : {"fresh", "late", "lapsed"}]

NoClaim == [state |-> "none", task |-> NoTask, name |-> NoName, sent |-> FALSE, age |-> "fresh"]

\* session is the run whose session the handle and the token are of, 0 none;
\* ready that session_ready_at is not before session_started_at.
WorkerRows ==
    [status : {"none", "idle", "running", "offline", "dead"}, session : 0 .. MaxRuns, ready : BOOLEAN]

NoWorker == [status |-> "none", session |-> 0, ready |-> FALSE]

Passes == {"events", "expire", "probe", "supervise", "ready", "dispatch"}
Steps == {"none", "event", "probe", "give_up", "launch", "send"}

Nothing == [r \in Runs |-> "none"]

Active(c) == c.state \in ActiveStates
ActiveRuns == {r \in Runs : Active(claim[r])}
AgentOf(r) == IF claim[r].name = NoName THEN NoWorker ELSE worker[claim[r].name]
Registered == {n \in Names : worker[n].status # "none"}

-----------------------------------------------------------------------------
(* The agent registry.                                                     *)

\* A new worker has no session yet.
registerAgent == [NoWorker EXCEPT !.status = "idle"]

removeAgent(n) == worker' = [worker EXCEPT ![n] = NoWorker]

\* An agent that was unregistered is not brought back: the call throws.
updateAgentRuntime(w, row) == IF w.status = "none" THEN w ELSE row

clearWorkerSessionRuntime(w, status) == updateAgentRuntime(w, [NoWorker EXCEPT !.status = status])

markWorkerOffline(w) == clearWorkerSessionRuntime(w, "offline")

Init ==
    /\ task = [t \in Tasks |-> "todo"]
    /\ claim = [r \in Runs |-> NoClaim]
    /\ worker = [n \in Names |-> NoWorker]
    /\ proc = [r \in Runs |-> "none"]
    /\ own = {}
    /\ events = {}
    /\ typed = [r \in Runs |-> 0]
    /\ transport \in Transports
    /\ at = "idle"
    /\ plan = Nothing
    /\ todo = {}
    /\ op = Nothing
    /\ crashes = 0
    /\ removals = 0

-----------------------------------------------------------------------------
(* The adapters: a session is known by its worker's name.                  *)

\* Runs whose live process goes by a name.
Under(n) == {r \in Runs : proc[r] = "live" /\ claim[r].name = n}

\* Sessions of that name in this coordinator's PTY adapter.
OwnedAs(n) == {r \in own : claim[r].name = n}

heartbeatProbe(w) == w.session \in Runs /\ proc[w.session] = "live"

inspect(r) == proc[r] = "live"

\* createAdapter routes by the handle: a tmux session can be written by any
\* coordinator, a PTY by its own only.
ownsSession(r) == IF transport = "tmux" THEN inspect(r) ELSE r \in own

Writable(r) == inspect(r) /\ ownsSession(r)

Types(r) == typed' = [typed EXCEPT ![r] = @ + 1]

\* The envelope of run r goes to session q.
tmuxSend(q, r) == transport = "tmux" /\ inspect(q) /\ Types(r)

\* A PTY whose process is gone swallows what is typed.
ptySend(q, r) == q \in own /\ IF inspect(q) THEN Types(r) ELSE UNCHANGED typed

\* The process behind the pid file, or the tmux session, is killed.
stop(w) ==
    /\ proc' = [r \in Runs |-> IF r = w.session /\ proc[r] = "live" THEN "dead" ELSE proc[r]]
    /\ own' = own \ {w.session}

-----------------------------------------------------------------------------
(* The claims.                                                             *)

Requeue(t) == task' = [task EXCEPT ![t] = "todo"]

End(r, state) == claim' = [claim EXCEPT ![r] = [@ EXCEPT !.state = state, !.age = "fresh"]]

\* A run that has ended is left alone; the failure is an event of its own.
finishRun(r) ==
    IF Active(claim[r])
    THEN End(r, "failed") /\ Requeue(claim[r].task) /\ events' = events \cup {r}
    ELSE UNCHANGED <<claim, task, events>>

\* Mutant: only the runs that have started hold a worker.
CountsStarted(claims) ==
    {claims[r].name : r \in {q \in Runs : claims[q].state = "in_progress"}}

activeClaimAgents(claims) == {claims[r].name : r \in {q \in Runs : Active(claims[q])}}

\* Mutant: a terminal event speaks for whoever goes by its worker's name.
NeverBusy(n, r) == FALSE

hasOtherActiveClaim(n, r) == \E q \in ActiveRuns \ {r} : claim[q].name = n

\* Stop the session and unregister the worker, after an await: op[r] = "clean"
\* is the other half.  The event cursor moves on only then.
cleanupRunCapacity(r) ==
    /\ op[r] = "clean"
    /\ IF AgentOf(r).status = "none" THEN UNCHANGED <<worker, proc, own>>
       ELSE stop(AgentOf(r)) /\ removeAgent(claim[r].name)
    /\ op' = [op EXCEPT ![r] = "none"]
    /\ events' = IF at = "events" THEN events \ {r} ELSE events
    /\ UNCHANGED <<task, claim, typed, transport, at, plan, todo, crashes, removals>>

-----------------------------------------------------------------------------
(* The tick, pass by pass.                                                 *)

\* Mutant: a claim is looked at whether or not its envelope was sent.
AnyClaimed(c) == c.state = "claimed"

AwaitsEnvelope(c) == c.state = "claimed" /\ ~c.sent

\* session_ready_at counts for the session in hand only.
isAgentSessionReady(w) == w.session # 0 /\ w.ready

\* What a pass will do for a run, from the claims and agents it has read.
Step(p, r) ==
    LET c == claim[r]
        w == AgentOf(r)
        reachable == w.session # 0 /\ w.status # "offline"
    IN CASE p = "probe" /\ Active(c) /\ reachable -> "probe"
         [] p = "supervise" /\ c.state = "claimed" /\ c.sent /\ c.age # "fresh" -> "give_up"
         [] p = "supervise" /\ c.state = "in_progress" ->
              IF c.age = "fresh" /\ reachable THEN "probe"
              ELSE IF c.age # "fresh" \/ w.status # "none" THEN "give_up" ELSE "none"
         [] p = "ready" /\ AwaitsEnvelope(c) /\ w.status \notin {"none", "offline"} ->
              IF w.session = 0 THEN "launch"
              ELSE IF isAgentSessionReady(w) THEN "send"
              ELSE IF c.age # "fresh" THEN "give_up" ELSE "none"
         [] OTHER -> "none"

PassesAfter ==
    [expire |-> <<"probe", "supervise", "ready">>, probe |-> <<"supervise", "ready">>,
     supervise |-> <<"ready">>, ready |-> <<>>]

InPass(p) == at = p /\ op = Nothing
PassDone == op = Nothing /\ plan = Nothing

BeginTick ==
    /\ at = "idle"
    /\ at' = "events"
    /\ plan' = [r \in Runs |-> IF r \in events THEN "event" ELSE "none"]
    /\ todo' = {t \in Tasks : task[t] = "todo"}
    /\ UNCHANGED <<task, claim, worker, proc, own, events, typed, transport, op, crashes, removals>>

\* reloadTickState, and on to the next pass that finds something to do.
NextPass ==
    /\ at \in DOMAIN PassesAfter /\ PassDone
    /\ \E i \in DOMAIN PassesAfter[at] :
          LET p == PassesAfter[at][i]
              steps(q) == [r \in Runs |-> Step(q, r)]
          IN /\ steps(p) # Nothing
             /\ \A j \in 1 .. i - 1 : steps(PassesAfter[at][j]) = Nothing
             /\ at' = p
             /\ plan' = steps(p)
    /\ UNCHANGED <<task, claim, worker, proc, own, events, typed, transport, todo, op, crashes, removals>>

\* Two hours without a heartbeat: the worker is dead and its handle forgotten.
markStaleAgentsDead(n) ==
    /\ at = "events"
    /\ worker[n].status \notin {"none", "dead"}
    /\ n \notin activeClaimAgents(claim)
    /\ worker' = [worker EXCEPT ![n] = [@ EXCEPT !.status = "dead", !.session = 0]]
    /\ UNCHANGED <<task, claim, proc, own, events, typed, transport, at, plan, todo, op, crashes, removals>>

\* Mutant: the cursor moves on before the worker is taken away.
AdvancesFirst(r) ==
    /\ InPass("events") /\ plan[r] = "event"
    /\ \/ /\ claim[r].state = "in_progress"
          /\ \/ End(r, "done") /\ task' = [task EXCEPT ![claim[r].task] = "done"]
             \/ End(r, "failed") /\ Requeue(claim[r].task)
       \/ claim[r].state # "in_progress" /\ UNCHANGED <<claim, task>>
    /\ events' = events \ {r}
    /\ op' = [op EXCEPT ![r] = IF hasOtherActiveClaim(claim[r].name, r) THEN "none" ELSE "clean"]
    /\ plan' = [plan EXCEPT ![r] = "none"]
    /\ UNCHANGED <<worker, proc, own, typed, transport, at, todo, crashes, removals>>

\* A terminal event ends its run if need be, and takes its worker away
\* unless another run goes by the worker's name.
processTerminalRunEvents(r) ==
    /\ InPass("events") /\ plan[r] = "event"
    /\ \/ /\ claim[r].state = "in_progress"
          /\ \/ End(r, "done") /\ task' = [task EXCEPT ![claim[r].task] = "done"]
             \/ End(r, "failed") /\ Requeue(claim[r].task)
       \/ claim[r].state # "in_progress" /\ UNCHANGED <<claim, task>>
    /\ IF hasOtherActiveClaim(claim[r].name, r)
       THEN events' = events \ {r} /\ UNCHANGED op
       ELSE op' = [op EXCEPT ![r] = "clean"] /\ UNCHANGED events
    /\ plan' = [plan EXCEPT ![r] = "none"]
    /\ UNCHANGED <<worker, proc, own, typed, transport, at, todo, crashes, removals>>

\* Mutant: the lease is looked at once the run has started.
LapsedInProgress(c) == c.state = "in_progress" /\ c.age = "lapsed"

Lapsed(c) == Active(c) /\ c.age = "lapsed"

\* expireStaleLeasesDetailed ends every claim whose lease has lapsed at once;
\* claim_expired is no terminal run event, so only this pass cleans up.
expireAndCleanupStaleLeases ==
    /\ at = "events" /\ PassDone
    /\ LET expired == {r \in Runs : Lapsed(claim[r])} IN
       /\ claim' = [r \in Runs |-> IF r \in expired
                      THEN [claim[r] EXCEPT !.state = "expired", !.age = "fresh"] ELSE claim[r]]
       /\ task' = [t \in Tasks |-> IF t \in {claim[r].task : r \in expired} THEN "todo" ELSE task[t]]
       /\ op' = [r \in Runs |-> IF r \in expired THEN "clean" ELSE "none"]
    /\ at' = "expire"
    /\ UNCHANGED <<worker, proc, own, events, typed, transport, plan, todo, crashes, removals>>

Visited(r) ==
    /\ plan' = [plan EXCEPT ![r] = "none"]
    /\ UNCHANGED <<transport, at, todo, crashes, removals>>

\* What a supervising pass does to a run it gives up.
GiveUp(r) ==
    /\ claim[r].state # "deleted"
    /\ finishRun(r)
    /\ op' = [op EXCEPT ![r] = "clean"]
    /\ UNCHANGED <<worker, proc, own, typed>>

\* doShutdown stops the sessions that would not outlive the coordinator.
doShutdown ==
    /\ at' = "down" /\ plan' = Nothing /\ todo' = {} /\ op' = Nothing
    /\ own' = {}
    /\ proc' = [r \in Runs |->
                  IF r \in own /\ proc[r] = "live" /\ AgentOf(r).session = r THEN "dead" ELSE proc[r]]
    /\ UNCHANGED <<task, claim, worker, events, typed, transport, removals>>

\* finishRun throws for a claim that cancelTask deleted since the snapshot:
\* the tick is rejected and the coordinator shuts itself down.
Decide(r, givesUp) ==
    \/ givesUp /\ GiveUp(r) /\ Visited(r)
    \/ givesUp /\ claim[r].state = "deleted" /\ doShutdown /\ UNCHANGED crashes
    \/ ~givesUp /\ Visited(r) /\ UNCHANGED <<task, claim, events, op, worker, proc, own, typed>>

\* A session that is gone fails its run; a live one has the lease renewed of
\* a run in progress, unless it lapsed already.
probeActiveWorkerSessions(r) ==
    /\ InPass("probe") /\ plan[r] = "probe"
    /\ Decide(r, proc[r] # "live")

\* The envelope was sent RUN_START_TIMEOUT_MS ago: enforceRunStartLifecycle.
\* enforceInProgressLifecycle: session_dead, repeated_failure,
\* excessive_nudges or two hours of inactivity.
enforceInProgressLifecycle(r) ==
    /\ InPass("supervise") /\ plan[r] # "none"
    /\ Decide(r, plan[r] = "give_up" \/ proc[r] # "live")

\* A worker without a session gets one, a ready one its envelope, and one
\* that did not report for duty in time is given up.
processClaimedSessionReadiness(r) ==
    /\ InPass("ready")
    /\ \/ plan[r] = "give_up" /\ Decide(r, TRUE)
       \/ /\ plan[r] \in {"launch", "send"}
          /\ op' = [op EXCEPT ![r] = plan[r]]
          /\ UNCHANGED <<task, claim, events, worker, proc, own, typed>>
          /\ Visited(r)

\* A session that is gone costs its worker the handle.
ensureSessionReady(w) ==
    IF heartbeatProbe(w) THEN w ELSE [w EXCEPT !.status = "idle", !.session = 0]

ensureSessionPoolReady ==
    [n \in Names |->
        IF worker[n].status \in {"none", "offline", "dead"} \/ worker[n].session = 0
        THEN worker[n] ELSE ensureSessionReady(worker[n])]

\* The tasks the scan offers; which of them comes first, by priority, is
\* left open.
nextSpawnableTask(excluded) == todo \ excluded

\* Capacity is what the active claims leave of max_workers, and only what
\* was to do when the tick began is dispatched.
planDispatch ==
    /\ at \in DOMAIN PassesAfter /\ PassDone
    /\ \A i \in DOMAIN PassesAfter[at], r \in Runs : Step(PassesAfter[at][i], r) = "none"
    /\ worker' = ensureSessionPoolReady
    /\ LET capacity == MaxWorkers - Cardinality(activeClaimAgents(claim))
           free == nextSpawnableTask({claim[r].task : r \in ActiveRuns})
       IN \E items \in SUBSET free :
             /\ \/ items = free /\ Cardinality(items) <= capacity
                \/ Cardinality(items) = capacity
                \/ items = {} /\ capacity <= 0
             /\ todo' = items
    /\ at' = "dispatch"
    /\ UNCHANGED <<task, claim, proc, own, events, typed, transport, plan, op, crashes, removals>>

\* The worker is registered for this run only, and its launch begins.
spawnEphemeralWorker(r, n) ==
    /\ worker' = [worker EXCEPT ![n] = registerAgent]
    /\ op' = [op EXCEPT ![r] = "launch"]

\* The next run, for a name that no registered worker has.
claimTask(t, r, n) ==
    /\ task[t] = "todo" /\ n \notin Registered
    /\ claim[r].state = "none" /\ \A q \in 1 .. r - 1 : claim[q].state # "none"
    /\ claim' = [claim EXCEPT ![r] = [NoClaim EXCEPT !.state = "claimed", !.task = t, !.name = n]]
    /\ task' = [task EXCEPT ![t] = "busy"]

\* runBounded claims the items of a batch one after another, each with its
\* worker, before it awaits their launches.  A task that is no longer to do,
\* or a pool out of names, is logged and skipped.
executeDispatchPlan(t) ==
    /\ at = "dispatch" /\ t \in todo /\ \A r \in Runs : op[r] \in {"none", "launch"}
    /\ todo' = todo \ {t}
    /\ \/ \E r \in Runs, n \in Names : claimTask(t, r, n) /\ spawnEphemeralWorker(r, n)
       \/ /\ task[t] # "todo" \/ Registered = Names \/ \A r \in Runs : claim[r].state # "none"
          /\ UNCHANGED <<claim, task, worker, op>>
    /\ UNCHANGED <<proc, own, events, typed, transport, at, plan, crashes, removals>>

EndTick ==
    /\ InPass("dispatch") /\ todo = {}
    /\ at' = "idle"
    /\ UNCHANGED <<task, claim, worker, proc, own, events, typed, transport, plan, todo, op, crashes, removals>>

-----------------------------------------------------------------------------
(* What the coordinator awaits comes back.                                 *)

Returned(r) ==
    /\ op' = [op EXCEPT ![r] = "none"]
    /\ UNCHANGED <<transport, at, plan, todo, crashes, removals>>

\* adapter.start: a session of the same name that this coordinator can reach
\* is killed, and the process runs before launchWorkerSession records it.
start(r) ==
    /\ op[r] = "launch"
    /\ proc' = [q \in Runs |->
                  IF q = r THEN "live"
                  ELSE IF q \in Under(claim[r].name) /\ Writable(q) THEN "dead" ELSE proc[q]]
    /\ own' = IF transport = "pty" THEN (own \ OwnedAs(claim[r].name)) \cup {r} ELSE own
    /\ op' = [op EXCEPT ![r] = "started"]
    /\ UNCHANGED <<task, claim, worker, events, typed, transport, at, plan, todo, crashes, removals>>

\* Dispatch logs what throws and goes on; out of readiness it ends the tick,
\* and the coordinator with it.
Throws(r) == at # "dispatch" /\ doShutdown /\ UNCHANGED crashes

\* The session is recorded, of a worker that is still registered.
launchWorkerSession(r) ==
    /\ op[r] = "started"
    /\ \/ AgentOf(r).status = "none" /\ Throws(r)
       \/ /\ AgentOf(r).status # "none" \/ at = "dispatch"
          /\ worker' = [worker EXCEPT ![claim[r].name] =
                           updateAgentRuntime(@, [status |-> "running", session |-> r, ready |-> FALSE])]
          /\ claim' = [claim EXCEPT ![r].age = IF @ = "late" /\ claim[r].state = "claimed" THEN "fresh" ELSE @]
          /\ UNCHANGED <<task, proc, own, events, typed>>
          /\ Returned(r)

\* A worker that dispatch spawned is unregistered again; one that readiness
\* relaunched is offline, and goes with the run_failed event.  For a worker
\* or a claim that was removed meanwhile that throws.
LaunchFails(r, replaced) ==
    \/ /\ at = "dispatch" \/ (claim[r].state # "deleted" /\ AgentOf(r).status # "none")
       /\ IF at = "dispatch" THEN removeAgent(claim[r].name)
          ELSE worker' = [worker EXCEPT ![claim[r].name] = markWorkerOffline(@)]
       /\ finishRun(r)
       /\ proc' = [q \in Runs |-> IF q \in replaced THEN "dead" ELSE proc[q]]
       /\ own' = own \ replaced
       /\ UNCHANGED typed
       /\ Returned(r)
    \/ (claim[r].state = "deleted" \/ AgentOf(r).status = "none") /\ Throws(r)

\* No binary, no checkout, no sandbox: nothing is started, but a PTY of the
\* same name has been torn down.
prepareProviderLaunch(r) == op[r] = "launch" /\ LaunchFails(r, OwnedAs(claim[r].name))

\* The startup dialogs throw, and the process stays.
StartupFails(r) == op[r] = "started" /\ LaunchFails(r, {})

\* adapter.send types the envelope if it can.
send(r) ==
    /\ op[r] = "send"
    /\ LET q == AgentOf(r).session IN q \in Runs /\ (tmuxSend(q, r) \/ ptySend(q, r))
    /\ op' = [op EXCEPT ![r] = "sent"]
    /\ UNCHANGED <<task, claim, worker, proc, own, events, transport, at, plan, todo, crashes, removals>>

markTaskEnvelopeSent(r) ==
    /\ op[r] = "sent"
    /\ Active(claim[r])
    /\ claim' = [claim EXCEPT ![r].sent = TRUE,
                     ![r].age = IF @ = "late" /\ claim[r].state = "claimed" THEN "fresh" ELSE @]
    /\ UNCHANGED <<task, worker, proc, own, events, typed>>
    /\ Returned(r)

\* Sending or marking throws and the run is given up; for a claim that was
\* deleted that throws as well, and its worker is left.
SendFails(r) ==
    /\ \/ op[r] = "send"
       \/ op[r] = "sent" /\ ~Active(claim[r])
    /\ \/ GiveUp(r)
       \/ /\ claim[r].state = "deleted"
          /\ op' = [op EXCEPT ![r] = "none"]
          /\ UNCHANGED <<task, claim, events, worker, proc, own, typed>>
    /\ UNCHANGED <<transport, at, plan, todo, crashes, removals>>

-----------------------------------------------------------------------------
(* The coordinator stops and starts.                                       *)

\* A PTY whose coordinator dies is hung up, and its process may ignore that.
Dies ==
    /\ at # "down" /\ crashes < MaxCrashes
    /\ crashes' = crashes + 1
    /\ at' = "down" /\ plan' = Nothing /\ todo' = {} /\ op' = Nothing
    /\ own' = {}
    /\ \E gone \in SUBSET {r \in own : proc[r] = "live"} :
          proc' = [r \in Runs |-> IF r \in gone THEN "dead" ELSE proc[r]]
    /\ UNCHANGED <<worker, events, typed, transport, removals>>

Crash == Dies /\ UNCHANGED <<task, claim>>

\* Between claimTask and registerAgent a worktree is made: a claim may be left
\* whose worker was never registered.
DiesClaiming(t) ==
    /\ at = "dispatch" /\ t \in todo /\ \A r \in Runs : op[r] \in {"none", "launch"}
    /\ \E r \in Runs, n \in Names : claimTask(t, r, n)
    /\ Dies

\* SIGTERM: the tick is waited for, but not the first one, and not longer
\* than 30 s.
Terminated ==
    /\ at # "down" /\ crashes < MaxCrashes
    /\ crashes' = crashes + 1
    /\ doShutdown

\* Sessions are adopted or given a state, and nothing is killed.
Restart ==
    /\ at = "down"
    /\ at' = "idle"
    /\ UNCHANGED <<task, claim, worker, proc, own, events, typed, transport, plan, todo, op, crashes, removals>>

-----------------------------------------------------------------------------
(* Workers, operators and the clock.                                       *)

\* A worker's own session reports ready.
reportForDuty(r) ==
    /\ proc[r] = "live"
    /\ AgentOf(r).session = r /\ ~AgentOf(r).ready
    /\ worker' = [worker EXCEPT ![claim[r].name].ready = TRUE]
    /\ UNCHANGED <<task, claim, proc, own, events, removals, coordinator>>

\* What a report is refused by: run_started needs a claimed run, every other
\* report one in progress, and work is complete once.
validateProgressInput(r, event) ==
    /\ claim[r].state = IF event = "run_started" THEN "claimed" ELSE "in_progress"
    /\ event = "work_complete" => r \notin events

\* A worker that has its envelope starts the run.
startRun(r) ==
    /\ proc[r] = "live" /\ typed[r] > 0
    /\ validateProgressInput(r, "run_started")
    /\ claim' = [claim EXCEPT ![r] = [@ EXCEPT !.state = "in_progress", !.age = "fresh"]]
    /\ UNCHANGED <<task, worker, proc, own, events, removals, coordinator>>

heartbeat(r) ==
    /\ proc[r] = "live"
    /\ validateProgressInput(r, "heartbeat") /\ claim[r].age # "fresh"
    /\ claim' = [claim EXCEPT ![r].age = "fresh"]
    /\ UNCHANGED <<task, worker, proc, own, events, removals, coordinator>>

\* run-work-complete only appends an event for the coordinator to finalize.
workComplete(r) ==
    /\ proc[r] = "live"
    /\ validateProgressInput(r, "work_complete")
    /\ events' = events \cup {r}
    /\ UNCHANGED <<task, claim, worker, proc, own, removals, coordinator>>

\* run-fail ends the run itself; the coordinator learns of it by the event.
runFail(r) ==
    /\ proc[r] = "live" /\ validateProgressInput(r, "run_failed")
    /\ finishRun(r)
    /\ UNCHANGED <<worker, proc, own, removals, coordinator>>

ProcessExits(r) ==
    /\ proc[r] = "live"
    /\ proc' = [proc EXCEPT ![r] = "dead"]
    /\ UNCHANGED <<task, claim, worker, own, events, removals, coordinator>>

TimesOut(r) ==
    /\ Active(claim[r]) /\ claim[r].age = "fresh"
    /\ claim' = [claim EXCEPT ![r].age = "late"]
    /\ UNCHANGED <<task, worker, proc, own, events, removals, coordinator>>

LeaseLapses(r) ==
    /\ Active(claim[r]) /\ claim[r].age # "lapsed"
    /\ claim' = [claim EXCEPT ![r].age = "lapsed"]
    /\ UNCHANGED <<task, worker, proc, own, events, removals, coordinator>>

\* cancelTask deletes the claim, resetTask fails it; neither event is one
\* the coordinator cleans up after.
RemovesRun(r) ==
    /\ Active(claim[r]) /\ removals < MaxRemovals
    /\ removals' = removals + 1
    /\ \/ End(r, "deleted") /\ task' = [task EXCEPT ![claim[r].task] = "blocked"]
       \/ End(r, "reset") /\ task' = [task EXCEPT ![claim[r].task] = "todo"]
    /\ UNCHANGED <<worker, proc, own, events, coordinator>>

\* orc worker-remove
removeWorker(n) ==
    /\ n \in Registered /\ n \notin activeClaimAgents(claim)
    /\ stop(worker[n])
    /\ removeAgent(n)
    /\ UNCHANGED <<task, claim, events, removals, coordinator>>

\* orc worker-gc
gcWorkers(n) ==
    /\ n \in Registered /\ n \notin activeClaimAgents(claim)
    /\ \/ worker[n].status \in {"offline", "dead"}
       \/ worker[n].session # 0 /\ ~heartbeatProbe(worker[n])
    /\ removeAgent(n)
    /\ UNCHANGED <<task, claim, proc, own, events, removals, coordinator>>

-----------------------------------------------------------------------------
Tick ==
    \/ BeginTick \/ NextPass \/ EndTick
    \/ expireAndCleanupStaleLeases \/ planDispatch
    \/ \E t \in Tasks : executeDispatchPlan(t)
    \/ \E r \in Runs :
          \/ processTerminalRunEvents(r)
          \/ probeActiveWorkerSessions(r) \/ enforceInProgressLifecycle(r)
          \/ processClaimedSessionReadiness(r)
          \/ cleanupRunCapacity(r)
          \/ start(r) \/ launchWorkerSession(r) \/ prepareProviderLaunch(r) \/ StartupFails(r)
          \/ send(r) \/ markTaskEnvelopeSent(r) \/ SendFails(r)

Environment ==
    \/ Crash \/ Terminated
    \/ \E t \in Tasks : DiesClaiming(t)
    \/ \E n \in Names : markStaleAgentsDead(n) \/ removeWorker(n) \/ gcWorkers(n)
    \/ \E r \in Runs :
          \/ reportForDuty(r) \/ startRun(r) \/ heartbeat(r) \/ workComplete(r) \/ runFail(r)
          \/ ProcessExits(r) \/ TimesOut(r) \/ LeaseLapses(r) \/ RemovesRun(r)

Next == Tick \/ Restart \/ Environment

Spec == Init /\ [][Next]_vars

\* The timer drives the tick, the operator starts a coordinator again, and
\* time passes.
FairSpec ==
    /\ Spec
    /\ WF_vars(Tick) /\ WF_vars(Restart)
    /\ \A r \in Runs : WF_vars(LeaseLapses(r))

-----------------------------------------------------------------------------
(* Properties.                                                             *)

TypeOK ==
    /\ task \in [Tasks -> {"todo", "busy", "blocked", "done"}]
    /\ claim \in [Runs -> ClaimRows]
    /\ worker \in [Names -> WorkerRows]
    /\ proc \in [Runs -> {"none", "live", "dead"}]
    /\ own \subseteq Runs /\ events \subseteq Runs
    /\ typed \in [Runs -> Nat]
    /\ transport \in Transports
    /\ at \in Passes \cup {"idle", "down"}
    /\ plan \in [Runs -> Steps]
    /\ todo \subseteq Tasks
    /\ op \in [Runs -> {"none", "launch", "started", "send", "sent", "clean"}]
    /\ crashes \in 0 .. MaxCrashes /\ removals \in 0 .. MaxRemovals

\* Names are drawn at random from those no registered worker has.  A run whose
\* worker is not registered (DiesClaiming), or whose launch is still under
\* way when an operator has ended it and removed its worker, can so come to
\* share its name with a run under way: nothing keeps the two apart.
InHand(r) == Active(claim[r]) \/ op[r] \in {"launch", "started"}

DistinctNames ==
    \A q, r \in Runs : q # r /\ InHand(q) /\ Active(claim[r]) => claim[q].name # claim[r].name

\* worker_pool.max_workers bounds the runs under way: dispatch counts the
\* workers of active claims in a snapshot that is stale when it claims.
ClaimsWithinLimit == Cardinality(ActiveRuns) <= MaxWorkers

\* A task envelope is typed again only by a coordinator that could not know
\* that its predecessor had typed it.
EnvelopeTypedOnce == \A r \in Runs : typed[r] <= 1 + crashes

\* No pass kills the session of a run that is under way: a worker is stopped
\* only once its run has ended, whatever event or snapshot said so.
NoActiveRunIsKilled ==
    [][\A r \in Runs : (proc[r] = "live" /\ proc'[r] = "dead" /\ Active(claim'[r])) =>
           \/ at' = "down"
           \/ at' = at /\ op' = op /\ plan' = plan]_vars

\* Every claim is started or ended: no order of launches, exits, timeouts,
\* crashes and deletions leaves a task claimed for ever.
ClaimsMoveOn == \A r \in Runs : claim[r].state = "claimed" ~> claim[r].state # "claimed"

\* A worker whose run failed is stopped, even when the coordinator dies
\* between the two: run_failed is handled again.
FailedWorkersStop ==
    \A r \in Runs :
        (claim[r].state = "failed" /\ proc[r] = "live" /\ AgentOf(r).session = r)
        ~> (proc[r] = "dead" \/ AgentOf(r).session # r)

=============================================================================
