------------------------- MODULE RunLifecycleProofs -------------------------
(***************************************************************************)
(* Proofs about RunLifecycle, for every set of tasks and agents and every  *)
(* number of runs, attempts and faults.                                    *)
(***************************************************************************)
EXTENDS RunLifecycle, FiniteSetTheorems, TLAPS

-----------------------------------------------------------------------------
(* Types.                                                                  *)

\* The status a cause leads to is a status.
LEMMA StatusForType ==
    ASSUME NEW cause
    PROVE  StatusFor(cause) \in Statuses
BY DEF StatusFor, Statuses

\* The state commitBacklog gives a binding is a state of a closed binding.
LEMMA RunStateType ==
    ASSUME NEW cause
    PROVE  RUN_STATE_FOR_CAUSE(cause) \in {"finished", "failed", "cancelled"}
BY DEF RUN_STATE_FOR_CAUSE

\* A move of some tasks for one cause is a function of the tasks.
LEMMA MoveType ==
    ASSUME NEW ts, NEW cause \in BacklogCauses
    PROVE  Move(ts, cause) \in Moves
BY DEF Move, Moves

\* commitBacklog leaves well-formed task and binding rows.
LEMMA CommitBacklogType ==
    ASSUME TypeOK, NEW moves \in Moves, NEW counted, commitBacklog(moves, counted)
    PROVE  task' \in [Tasks -> TaskRows] /\ bound' \in [Runs -> BindingRows]
<1>1. \A t \in Tasks : StatusAfter(moves, t) \in Statuses
  BY StatusForType DEF TypeOK, TaskRows, StatusAfter
<1>2. ASSUME NEW t \in Tasks
      PROVE  TaskAfter(moves, counted, t) \in TaskRows
  BY <1>1 DEF TypeOK, TaskRows, TaskAfter
<1>3. ASSUME NEW r \in Runs
      PROVE  BindingAfter(moves, r) \in BindingRows
  <2>1. bound[r] \in BindingRows
    BY DEF TypeOK
  <2>2. CASE bound[r].state \notin Live \/ StatusAfter(moves, bound[r].task) = task[bound[r].task].status
    BY <2>1, <2>2 DEF BindingAfter
  <2>3. CASE ~(bound[r].state \notin Live \/ StatusAfter(moves, bound[r].task) = task[bound[r].task].status)
    <3>1. bound[r] \in [state : {"claimed", "in_progress", "finished", "failed", "cancelled"},
                        task : Tasks, agent : Agents]
      BY <2>1, <2>3 DEF BindingRows, NoBinding, Live
    <3>. QED BY <2>3, <3>1, RunStateType DEF BindingRows, BindingAfter
  <2>. QED BY <2>2, <2>3
<1>. QED BY <1>2, <1>3 DEF commitBacklog

\* The three kinds of second commit are well formed.
LEMMA PendingType ==
    /\ NoPending \in PendingCommits
    /\ \A op \in {"startRun", "finishRun", "expireLeases", "cancelTask", "resetTask",
                  "expireRun", "killAll"} :
          \A moves \in Moves, counted \in SUBSET Tasks :
              ThenBacklog(op, moves, counted) \in PendingCommits
    /\ \A op \in {"reconcile", "sessionReset"} :
          \A runs \in SUBSET Runs : ThenFail(op, runs) \in PendingCommits
    /\ \A r \in Runs : ThenCreate(r) \in PendingCommits
<1>1. NoMoves \in Moves
  BY DEF NoMoves, Moves
<1>. QED BY <1>1 DEF NoPending, ThenBacklog, ThenFail, ThenCreate, PendingCommits

\* The initial state is well formed.
LEMMA InitType == Init => TypeOK
<1>. SUFFICES ASSUME Init PROVE TypeOK
  OBVIOUS
<1>1. task \in [Tasks -> TaskRows]
  BY DEF Init, TaskRows, Statuses
<1>2. bound \in [Runs -> BindingRows] /\ claim \in [Runs -> ClaimRows]
  <2>1. NoBinding \in BindingRows /\ NoClaim \in ClaimRows
    BY DEF BindingRows, ClaimRows
  <2>. QED BY <2>1 DEF Init
<1>3. pending \in PendingCommits
  BY PendingType DEF Init
<1>4. dirty \in BOOLEAN
  BY DEF Init
<1>5. faults \in 0 .. MaxFaults
  BY BoundsAssumption DEF Init
<1>. QED BY <1>1, <1>2, <1>3, <1>4, <1>5 DEF TypeOK

\* An active claim, and an active binding, name a task.
LEMMA ActiveNamesTask ==
    ASSUME TypeOK, NEW r \in Runs
    PROVE  /\ claim[r].state # "absent" => claim[r].task \in Tasks /\ claim[r].agent \in Agents
           /\ bound[r].state # "none" => bound[r].task \in Tasks /\ bound[r].agent \in Agents
           /\ Active(r) => claim[r].state # "absent"
           /\ bound[r].state \in Live => bound[r].state # "none"
BY DEF TypeOK, ClaimRows, BindingRows, NoClaim, NoBinding, Active, Live

\* Every step keeps the state well formed.
LEMMA NextType == TypeOK /\ ClaimInFlight /\ FailingActive /\ [Next]_vars => TypeOK'
<1>. SUFFICES ASSUME TypeOK, ClaimInFlight, FailingActive, [Next]_vars PROVE TypeOK'
  OBVIOUS
<1>. USE PendingType
<1>a. \A r \in Runs, s \in {"done", "failed"} :
          claim[r].state # "absent" => Ended(claim[r], s) \in ClaimRows
  BY ActiveNamesTask DEF ClaimRows, Ended
<1>b. NoClaim \in ClaimRows
  BY DEF ClaimRows
<1>c. \A t \in Tasks : CountedCause(t) \in BacklogCauses
  BY DEF CountedCause, BacklogCauses
<1>d. \A c \in {"failure_requeue", "failure_block", "run_start", "cancel", "unblock",
                "operator_reset", "merge_succeeded"} : \A ts : Move(ts, c) \in Moves
  BY MoveType DEF BacklogCauses
<1>1. ASSUME NEW t \in Tasks, NEW a \in Agents, NEW r \in Runs, ClaimTask(t, a, r)
      PROVE  TypeOK'
  <2>1. [task EXCEPT ![t].status = "claimed"] \in [Tasks -> TaskRows]
    BY DEF TypeOK, TaskRows, Statuses
  <2>2. ASSUME NEW q \in Runs
        PROVE  bound'[q] \in BindingRows
    <3>1. CASE q = r
      BY <1>1, <3>1 DEF BindingRows, ClaimTask, BindRun
    <3>2. CASE q # r /\ q \in ActiveBindings(t)
      <4>1. bound[q] \in [state : {"claimed", "in_progress", "finished", "failed", "cancelled"},
                          task : Tasks, agent : Agents]
        BY <3>2 DEF TypeOK, BindingRows, NoBinding, ActiveBindings, Live
      <4>. QED BY <1>1, <3>2, <4>1 DEF BindingRows, ClaimTask, BindRun
    <3>3. CASE q # r /\ q \notin ActiveBindings(t)
      BY <1>1, <3>3 DEF TypeOK, ClaimTask, BindRun
    <3>. QED BY <3>1, <3>2, <3>3
  <2>. QED BY <1>1, <2>1, <2>2 DEF TypeOK, ClaimTask, BindRun
<1>2. CASE ClaimAbandoned
  <2>1. faults' \in 0 .. MaxFaults
    BY <1>2, BoundsAssumption DEF TypeOK, ClaimAbandoned
  <2>. QED BY <1>2, <1>d, <2>1, CommitBacklogType DEF TypeOK, ClaimAbandoned
<1>3. ASSUME NEW r \in Runs, StartRun(r)
      PROVE  TypeOK'
  <2>1. claim' \in [Runs -> ClaimRows]
    BY <1>3, ActiveNamesTask DEF TypeOK, ClaimRows, NoClaim, StartRun
  <2>. QED BY <1>3, <1>d, <2>1 DEF TypeOK, StartRun
<1>4. ASSUME NEW r \in Runs,
             RenewLease(r) \/ RequestInput(r) \/ AnswerInput(r)
               \/ LeaseRunsDown(r) \/ InputWaitRunsOut(r)
      PROVE  TypeOK'
  <2>1. claim[r] \in [state : {"claimed", "in_progress", "done", "failed"},
                      task : Tasks, agent : Agents,
                      lease : {"live", "due", "past"}, input : {"none", "waiting", "overdue"}]
    BY <1>4 DEF TypeOK, ClaimRows, NoClaim, Active, Live, RenewLease, RequestInput,
                AnswerInput, LeaseRunsDown, InputWaitRunsOut
  <2>2. claim' \in [Runs -> ClaimRows]
    BY <1>4, <2>1 DEF TypeOK, ClaimRows, RenewLease, RequestInput, AnswerInput,
                LeaseRunsDown, InputWaitRunsOut
  <2>. QED BY <1>4, <2>2 DEF TypeOK, RenewLease, RequestInput, AnswerInput,
                LeaseRunsDown, InputWaitRunsOut
<1>5. ASSUME NEW r \in Runs, FinishRunSuccess(r)
      PROVE  TypeOK'
  <2>1. claim' \in [Runs -> ClaimRows]
    BY <1>5, <1>a, ActiveNamesTask DEF TypeOK, FinishRunSuccess
  <2>. QED BY <1>5, <2>1 DEF TypeOK, FinishRunSuccess
<1>6. ASSUME NEW r \in Runs, NEW policy \in FailurePolicies, FinishRunFailure(r, policy)
      PROVE  TypeOK'
  <2>1. claim' \in [Runs -> ClaimRows]
    BY <1>6, <1>a, ActiveNamesTask DEF TypeOK, FinishRunFailure, Failed
  <2>2. claim[r].task \in Tasks
    BY <1>6, ActiveNamesTask DEF FinishRunFailure
  <2>3. Move({claim[r].task}, CountedCause(claim[r].task)) \in Moves
    BY <1>c, <2>2, MoveType
  <2>4. pending' \in PendingCommits
    BY <1>6, <1>d, <2>2, <2>3 DEF FinishRunFailure, FailurePolicies
  <2>. QED BY <1>6, <2>1, <2>4 DEF TypeOK, FinishRunFailure
<1>7. CASE expireLeases
  <2>. DEFINE gone == {r \in Runs : Expired(r)}
              hit  == {t \in Tasks : task[t].status \in Live /\ \E r \in gone : claim[r].task = t}
              moves == [t \in Tasks |-> IF t \in hit THEN CountedCause(t) ELSE "none"]
  <2>1. claim' \in [Runs -> ClaimRows]
    BY <1>7, <1>a, ActiveNamesTask DEF TypeOK, expireLeases, Failed, Expired
  <2>2. moves \in Moves /\ hit \in SUBSET Tasks
    BY <1>c DEF Moves
  <2>3. pending' = ThenBacklog("expireLeases", moves, hit)
    BY <1>7 DEF expireLeases
  <2>4. pending' \in PendingCommits
    BY <2>2, <2>3
  <2>. QED BY <1>7, <2>1, <2>4 DEF TypeOK, expireLeases
<1>8. CASE reconcileState
  <2>. DEFINE orphans == {r \in Runs : Orphaned(r)}
  <2>1. ReconcileMoves \in Moves
    BY DEF ReconcileMoves, Moves, BacklogCauses
  <2>2. task' \in [Tasks -> TaskRows] /\ bound' \in [Runs -> BindingRows]
    BY <1>8, <2>1, CommitBacklogType DEF reconcileState
  <2>3. pending' \in PendingCommits
    BY <1>8 DEF reconcileState
  <2>4. dirty' \in BOOLEAN
    BY <1>8 DEF TypeOK, reconcileState
  <2>. QED BY <1>8, <2>2, <2>3, <2>4 DEF TypeOK, reconcileState
<1>9. ASSUME NEW t \in Tasks, cancelTask(t) \/ resetTask(t)
      PROVE  TypeOK'
  <2>1. claim' \in [Runs -> ClaimRows]
    BY <1>9, <1>a, <1>b, ActiveNamesTask DEF TypeOK, cancelTask, resetTask, Failed, ActiveOn
  <2>2. pending' \in PendingCommits
    BY <1>9, <1>d DEF cancelTask, resetTask
  <2>. QED BY <1>9, <2>1, <2>2 DEF TypeOK, cancelTask, resetTask
<1>10. ASSUME NEW t \in Tasks, unblockTask(t) \/ markTaskDone(t)
      PROVE  TypeOK'
  <2>1. task' \in [Tasks -> TaskRows] /\ bound' \in [Runs -> BindingRows]
    BY <1>10, <1>d, CommitBacklogType DEF unblockTask, markTaskDone
  <2>. QED BY <1>10, <2>1 DEF TypeOK, unblockTask, markTaskDone
<1>11. ASSUME NEW t \in Tasks, NEW a \in Agents \cup {NoAgent}, delegateTask(t, a)
      PROVE  TypeOK'
  <2>1. task' \in [Tasks -> TaskRows]
    BY <1>11 DEF TypeOK, TaskRows, Statuses, delegateTask
  <2>. QED BY <1>11, <2>1 DEF TypeOK, delegateTask
<1>12. ASSUME NEW r \in Runs, expireRun(r)
      PROVE  TypeOK'
  <2>1. claim' \in [Runs -> ClaimRows]
    BY <1>12, <1>a, ActiveNamesTask DEF TypeOK, expireRun, Failed
  <2>2. pending' \in PendingCommits
    BY <1>12, <1>d DEF expireRun
  <2>. QED BY <1>12, <2>1, <2>2 DEF TypeOK, expireRun
<1>13. CASE killAll
  <2>1. claim' \in [Runs -> ClaimRows]
    BY <1>13, <1>a, ActiveNamesTask DEF TypeOK, killAll, Failed
  <2>2. pending' \in PendingCommits
    BY <1>13, <1>d DEF killAll
  <2>. QED BY <1>13, <2>1, <2>2 DEF TypeOK, killAll
<1>14. CASE sessionReset
  <2>1. task' \in [Tasks -> TaskRows] /\ bound' \in [Runs -> BindingRows]
    BY <1>14, <1>d, CommitBacklogType DEF sessionReset
  <2>2. pending' \in PendingCommits
    BY <1>14 DEF sessionReset
  <2>. QED BY <1>14, <2>1, <2>2 DEF TypeOK, sessionReset
<1>15. CASE CommitBacklog
  <2>1. pending.moves \in Moves
    BY DEF TypeOK, PendingCommits
  <2>2. task' \in [Tasks -> TaskRows] /\ bound' \in [Runs -> BindingRows]
    BY <1>15, <2>1, CommitBacklogType DEF CommitBacklog
  <2>. QED BY <1>15, <2>2 DEF TypeOK, CommitBacklog
<1>16. CASE BacklogRejected
  BY <1>16 DEF TypeOK, BacklogRejected
<1>17. CASE CommitClaims
  <2>1. ASSUME NEW r \in Runs PROVE claim'[r] \in ClaimRows
    <3>1. CASE r = pending.create
      <4>1. bound[r].task \in Tasks /\ bound[r].agent \in Agents
        BY <3>1, ActiveNamesTask DEF ClaimInFlight
      <4>. QED BY <1>17, <3>1, <4>1 DEF CommitClaims, NewClaim, ClaimRows
    <3>2. CASE r # pending.create /\ r \in pending.fail
      <4>1. claim[r].state # "absent"
        BY <3>2, ActiveNamesTask DEF FailingActive
      <4>. QED BY <1>17, <1>a, <3>2, <4>1 DEF CommitClaims, Failed
    <3>3. CASE r # pending.create /\ r \notin pending.fail
      BY <1>17, <3>3 DEF TypeOK, CommitClaims
    <3>. QED BY <3>1, <3>2, <3>3
  <2>2. claim' \in [Runs -> ClaimRows]
    BY <1>17, <2>1 DEF CommitClaims
  <2>3. dirty' \in BOOLEAN
    BY <1>17 DEF CommitClaims
  <2>. QED BY <1>17, <2>2, <2>3 DEF TypeOK, CommitClaims
<1>18. CASE Interrupted
  <2>1. faults' \in 0 .. MaxFaults
    BY <1>18, BoundsAssumption DEF TypeOK, Interrupted
  <2>2. dirty' \in BOOLEAN
    BY <1>18 DEF Interrupted
  <2>. QED BY <1>18, <2>1, <2>2 DEF TypeOK, Interrupted
<1>19. CASE UNCHANGED vars
  BY <1>19 DEF TypeOK, vars
<1>. QED BY <1>1, <1>2, <1>3, <1>4, <1>5, <1>6, <1>7, <1>8, <1>9, <1>10, <1>11, <1>12,
            <1>13, <1>14, <1>15, <1>16, <1>17, <1>18, <1>19 DEF Next

-----------------------------------------------------------------------------
(* What a step does to claims and bindings.                                *)

\* The parts of the three kinds of second commit.
LEMMA PendingParts ==
    /\ NoPending.create = NoRun /\ NoPending.fail = {} /\ NoPending.db = "none"
    /\ NoPending.op = "none"
    /\ \A op, moves, counted :
          LET p == ThenBacklog(op, moves, counted) IN
          /\ p.create = NoRun /\ p.fail = {} /\ p.db = "tasks"
          /\ p.op = op /\ p.moves = moves /\ p.counted = counted
    /\ \A op, runs :
          LET p == ThenFail(op, runs) IN
          p.create = NoRun /\ p.fail = runs /\ p.db = "claims" /\ p.op = op
    /\ \A r :
          LET p == ThenCreate(r) IN
          p.create = r /\ p.fail = {} /\ p.db = "claims" /\ p.op = "claimTask"
    /\ NoRun \notin Runs
BY DEF NoPending, ThenBacklog, ThenFail, ThenCreate, NoRun, Runs

\* commitBacklog never unbinds a run or moves it to another task.
LEMMA CommitBacklogKeepsBindings ==
    ASSUME TypeOK, NEW moves \in Moves, NEW counted, commitBacklog(moves, counted),
           NEW r \in Runs
    PROVE  /\ bound'[r].task = bound[r].task /\ bound'[r].agent = bound[r].agent
           /\ bound'[r].state = "none" <=> bound[r].state = "none"
           /\ bound'[r].state \in Live => bound[r].state \in Live
<1>1. bound'[r] = BindingAfter(moves, r)
  BY DEF commitBacklog
<1>2. bound[r].state \in Live => bound[r].state # "none"
  BY DEF Live
<1>3. bound[r] \in BindingRows
  BY DEF TypeOK
<1>. QED BY <1>1, <1>2, <1>3, RunStateType DEF BindingAfter, BindingRows, NoBinding, Live

\* A run once issued stays bound to its task.
LEMMA BindingsKept ==
    ASSUME TypeOK, [Next]_vars, NEW r \in Runs, bound[r].state # "none"
    PROVE  bound'[r].state # "none" /\ bound'[r].task = bound[r].task
<1>. DEFINE Kept == bound'[r].state # "none" /\ bound'[r].task = bound[r].task
<1>d. \A c \in {"failure_requeue", "unblock", "merge_succeeded"} : \A ts : Move(ts, c) \in Moves
  BY MoveType DEF BacklogCauses
<1>1. ASSUME NEW t \in Tasks, NEW a \in Agents, NEW q \in Runs, ClaimTask(t, a, q)
      PROVE  Kept
  <2>1. q # r
    BY <1>1 DEF ClaimTask, Fresh
  <2>. QED BY <1>1, <2>1 DEF TypeOK, BindingRows, ClaimTask, BindRun
<1>2. CASE ClaimAbandoned
  BY <1>2, <1>d, CommitBacklogKeepsBindings DEF ClaimAbandoned
<1>3. CASE reconcileState
  <2>1. ReconcileMoves \in Moves
    BY DEF ReconcileMoves, Moves, BacklogCauses
  <2>. QED BY <1>3, <2>1, CommitBacklogKeepsBindings DEF reconcileState
<1>4. ASSUME NEW t \in Tasks, unblockTask(t) \/ markTaskDone(t)
      PROVE  Kept
  BY <1>4, <1>d, CommitBacklogKeepsBindings DEF unblockTask, markTaskDone
<1>5. CASE sessionReset
  BY <1>5, <1>d, CommitBacklogKeepsBindings DEF sessionReset
<1>6. CASE CommitBacklog
  <2>1. pending.moves \in Moves
    BY DEF TypeOK, PendingCommits
  <2>. QED BY <1>6, <2>1, CommitBacklogKeepsBindings DEF CommitBacklog
<1>7. CASE bound' = bound
  BY <1>7
<1>. QED BY <1>1, <1>2, <1>3, <1>4, <1>5, <1>6, <1>7
         DEF Next, vars, StartRun, RenewLease, RequestInput, AnswerInput, FinishRunSuccess,
             expireRun, LeaseRunsDown, InputWaitRunsOut, FinishRunFailure, cancelTask,
             resetTask, delegateTask, expireLeases, killAll, BacklogRejected, CommitClaims,
             Interrupted

\* A claim is created only by the second commit of claimTask; every other step
\* leaves a claim with its task and agent, or deletes it, and makes no ended
\* or missing claim active.
LEMMA ClaimsKept ==
    ASSUME TypeOK, FailingActive, [Next]_vars, NEW r \in Runs, ~(CommitClaims /\ r = pending.create)
    PROVE  /\ claim'[r].state # "absent" =>
                 /\ claim[r].state # "absent"
                 /\ claim'[r].task = claim[r].task /\ claim'[r].agent = claim[r].agent
           /\ Active(r)' => Active(r)
<1>. DEFINE Kept == /\ claim'[r].state # "absent" =>
                          /\ claim[r].state # "absent"
                          /\ claim'[r].task = claim[r].task /\ claim'[r].agent = claim[r].agent
                    /\ Active(r)' => Active(r)
<1>a. claim[r] \in ClaimRows /\ claim \in [Runs -> ClaimRows]
  BY DEF TypeOK
<1>b. Active(r) => claim[r].state # "absent"
  BY DEF Active, Live
<1>c. CASE claim' = claim
  BY <1>c DEF Active
<1>d. CASE claim'[r] = claim[r]
  BY <1>d DEF Active
<1>e. CASE Active(r) /\ \E s \in {"done", "failed"} : claim'[r] = Ended(claim[r], s)
  BY <1>b, <1>e DEF Active, Live, Ended
<1>f. CASE claim'[r] = NoClaim
  BY <1>f DEF Active, Live, NoClaim
<1>1. ASSUME NEW q \in Runs, StartRun(q)
      PROVE  Kept
  <2>1. CASE q = r
    <3>1. Active(r)
      BY <1>1, <2>1 DEF StartRun, Active, Live
    <3>. QED BY <1>1, <1>a, <1>b, <2>1, <3>1 DEF StartRun, ClaimRows, NoClaim
  <2>2. CASE q # r
    BY <1>1, <1>a, <1>d, <2>2 DEF StartRun
  <2>. QED BY <2>1, <2>2
<1>2. ASSUME NEW q \in Runs, RenewLease(q) \/ RequestInput(q) \/ AnswerInput(q)
               \/ LeaseRunsDown(q) \/ InputWaitRunsOut(q)
      PROVE  Kept
  <2>1. CASE q = r
    <3>1. Active(r)
      BY <1>2, <2>1 DEF RenewLease, RequestInput, AnswerInput, LeaseRunsDown, InputWaitRunsOut
    <3>. QED BY <1>2, <1>a, <1>b, <2>1, <3>1
         DEF ClaimRows, NoClaim, RenewLease, RequestInput, AnswerInput, LeaseRunsDown,
             InputWaitRunsOut
  <2>2. CASE q # r
    BY <1>2, <1>a, <1>d, <2>2
       DEF RenewLease, RequestInput, AnswerInput, LeaseRunsDown, InputWaitRunsOut
  <2>. QED BY <2>1, <2>2
<1>3. ASSUME NEW q \in Runs,
             FinishRunSuccess(q) \/ expireRun(q)
               \/ \E policy \in FailurePolicies : FinishRunFailure(q, policy)
      PROVE  Kept
  BY <1>3, <1>a, <1>d, <1>e DEF FinishRunSuccess, expireRun, FinishRunFailure, Failed
<1>4. CASE expireLeases
  BY <1>4, <1>a, <1>d, <1>e DEF expireLeases, Expired, Failed
<1>5. ASSUME NEW t \in Tasks, cancelTask(t) \/ resetTask(t)
      PROVE  Kept
  BY <1>5, <1>a, <1>d, <1>e, <1>f DEF cancelTask, resetTask, ActiveOn, Failed
<1>6. CASE killAll
  BY <1>6, <1>a, <1>d, <1>e DEF killAll, Failed
<1>7. CASE CommitClaims
  BY <1>7, <1>a, <1>d, <1>e DEF CommitClaims, FailingActive, Failed
<1>. QED BY <1>c, <1>1, <1>2, <1>3, <1>4, <1>5, <1>6, <1>7
         DEF Next, vars, ClaimTask, ClaimAbandoned, unblockTask, markTaskDone, delegateTask,
             reconcileState, sessionReset, CommitBacklog, BacklogRejected, Interrupted

-----------------------------------------------------------------------------
(* At most one active claim per task.                                      *)

\* The inductive invariant.  OneActiveClaimPerTask alone is not inductive: a
\* claim is created in the second commit of claimTask, so one has to know that
\* its task is still free then (ClaimInFlight), and the run id it is created
\* for never had a claim (ClaimHasBinding).
Inv == /\ TypeOK
       /\ ClaimInFlight
       /\ FailingActive
       /\ ClaimHasBinding
       /\ OneActiveClaimPerTask

\* While claimTask is between its commits, only its own continuation can step.
LEMMA InFlightSteps ==
    ASSUME TypeOK, ClaimInFlight, [Next]_vars, pending.create \in Runs
    PROVE  ClaimAbandoned \/ CommitClaims \/ Interrupted \/ UNCHANGED vars
<1>1. ~Idle /\ pending.db # "tasks"
  BY PendingParts DEF Idle, ClaimInFlight
<1>. QED BY <1>1
         DEF Next, ClaimTask, StartRun, RenewLease, RequestInput, AnswerInput,
             FinishRunSuccess, expireRun, LeaseRunsDown, InputWaitRunsOut, FinishRunFailure,
             cancelTask, resetTask, unblockTask, markTaskDone, delegateTask, expireLeases,
             reconcileState, killAll, sessionReset, CommitBacklog, BacklogRejected

\* Apart from claimTask, reconcileState and a session reset, a step leaves no
\* claim to be written.
LEMMA NoClaimsPending ==
    ASSUME \/ \E r \in Runs : \/ StartRun(r) \/ expireRun(r)
                              \/ \E policy \in FailurePolicies : FinishRunFailure(r, policy)
           \/ \E t \in Tasks : cancelTask(t) \/ resetTask(t)
           \/ expireLeases \/ killAll
    PROVE  pending'.create = NoRun /\ pending'.fail = {}
<1>1. CASE \E r \in Runs, policy \in FailurePolicies : FinishRunFailure(r, policy)
  <2>1. \/ pending' = NoPending
        \/ \E moves, counted : pending' = ThenBacklog("finishRun", moves, counted)
    BY <1>1 DEF FinishRunFailure, FailurePolicies
  <2>. QED BY <2>1, PendingParts
<1>2. CASE expireLeases
  <2>1. \E moves, counted : pending' = ThenBacklog("expireLeases", moves, counted)
    BY <1>2 DEF expireLeases
  <2>. QED BY <2>1, PendingParts
<1>3. CASE \E r \in Runs : StartRun(r) \/ expireRun(r)
  BY <1>3, PendingParts DEF StartRun, expireRun
<1>4. CASE \E t \in Tasks : cancelTask(t) \/ resetTask(t)
  BY <1>4, PendingParts DEF cancelTask, resetTask
<1>5. CASE killAll
  BY <1>5, PendingParts DEF killAll
<1>. QED BY <1>1, <1>2, <1>3, <1>4, <1>5

\* Only claimTask makes its claim the second commit.
LEMMA CreateComesFromClaimTask ==
    ASSUME TypeOK, [Next]_vars, pending'.create \in Runs
    PROVE  \/ \E t \in Tasks, a \in Agents : ClaimTask(t, a, pending'.create)
           \/ UNCHANGED vars
<1>1. ASSUME NEW t \in Tasks, NEW a \in Agents, NEW r \in Runs, ClaimTask(t, a, r)
      PROVE  ClaimTask(t, a, pending'.create)
  <2>1. pending'.create = r
    BY <1>1, PendingParts DEF ClaimTask
  <2>. QED BY <1>1, <2>1
<1>2. CASE reconcileState \/ sessionReset
  BY <1>2, PendingParts DEF reconcileState, sessionReset
<1>3. CASE Idle /\ pending' = pending
  BY <1>3, PendingParts DEF Idle
<1>4. CASE pending' = NoPending
  BY <1>4, PendingParts
<1>5. CASE pending'.create = NoRun
  BY <1>5, PendingParts
<1>. QED BY <1>1, <1>2, <1>3, <1>4, <1>5, NoClaimsPending
         DEF Next, ClaimAbandoned, RenewLease, RequestInput, AnswerInput, FinishRunSuccess,
             LeaseRunsDown, InputWaitRunsOut, unblockTask, markTaskDone, delegateTask,
             CommitBacklog, BacklogRejected, CommitClaims, Interrupted

\* ClaimInFlight is preserved.
LEMMA NextClaimInFlight ==
    TypeOK /\ ClaimInFlight /\ FailingActive /\ ClaimHasBinding /\ [Next]_vars => ClaimInFlight'
<1>. SUFFICES ASSUME TypeOK, ClaimInFlight, FailingActive, ClaimHasBinding, [Next]_vars,
                     pending'.create \in Runs
              PROVE  ClaimInFlight'
  BY DEF ClaimInFlight
<1>1. CASE UNCHANGED vars
  BY <1>1 DEF vars, ClaimInFlight, ActiveOn, Active
<1>2. ASSUME NEW t \in Tasks, NEW a \in Agents, ClaimTask(t, a, pending'.create)
      PROVE  ClaimInFlight'
  <2>. DEFINE r == pending'.create
  <2>1. r \in Runs /\ bound[r].state = "none"
    BY <1>2 DEF ClaimTask, Fresh
  <2>2. claim[r].state = "absent"
    BY <2>1 DEF ClaimHasBinding
  <2>3. bound'[r] = [state |-> "claimed", task |-> t, agent |-> a]
    BY <1>2 DEF ClaimTask, BindRun
  <2>4. task'[t].status = "claimed"
    BY <1>2 DEF TypeOK, TaskRows, ClaimTask, BindRun
  <2>5. ActiveOn(t)' = {}
    BY <1>2 DEF ClaimTask, ActiveOn, Active
  <2>6. pending'.op = "claimTask" /\ pending'.db = "claims" /\ pending'.fail = {}
    BY <1>2, PendingParts DEF ClaimTask
  <2>7. claim' = claim
    BY <1>2 DEF ClaimTask
  <2>. QED BY <2>2, <2>3, <2>4, <2>5, <2>6, <2>7 DEF ClaimInFlight
<1>. QED BY <1>1, <1>2, CreateComesFromClaimTask

\* FailingActive is preserved: between the commits of a reconcile or a session
\* reset no claim changes.
LEMMA NextFailingActive == TypeOK /\ FailingActive /\ [Next]_vars => FailingActive'
<1>. SUFFICES ASSUME TypeOK, FailingActive, [Next]_vars PROVE FailingActive'
  OBVIOUS
<1>1. CASE pending'.fail = {}
  BY <1>1 DEF FailingActive
<1>2. CASE reconcileState
  BY <1>2, PendingParts DEF reconcileState, FailingActive, Orphaned, Active
<1>3. CASE sessionReset
  BY <1>3, PendingParts DEF sessionReset, FailingActive, Active
<1>4. CASE UNCHANGED vars
  BY <1>4 DEF vars, FailingActive, Active
<1>5. Idle => pending.fail = {}
  BY PendingParts DEF Idle
<1>. QED BY <1>1, <1>2, <1>3, <1>4, <1>5, PendingParts, NoClaimsPending
         DEF Next, ClaimTask, ClaimAbandoned, RenewLease, RequestInput, AnswerInput,
             FinishRunSuccess, LeaseRunsDown, InputWaitRunsOut, unblockTask, markTaskDone,
             delegateTask, CommitBacklog, BacklogRejected, CommitClaims, Interrupted

\* ClaimHasBinding is preserved.
LEMMA NextClaimHasBinding ==
    TypeOK /\ ClaimInFlight /\ FailingActive /\ ClaimHasBinding /\ [Next]_vars => ClaimHasBinding'
<1>. SUFFICES ASSUME TypeOK, ClaimInFlight, FailingActive, ClaimHasBinding, [Next]_vars,
                     NEW r \in Runs, claim'[r].state # "absent"
              PROVE  bound'[r].state # "none" /\ bound'[r].task = claim'[r].task
  BY DEF ClaimHasBinding
<1>1. CASE CommitClaims /\ r = pending.create
  <2>1. claim'[r] = NewClaim(r) /\ bound' = bound
    BY <1>1 DEF CommitClaims
  <2>2. bound[r].state = "claimed"
    BY <1>1 DEF ClaimInFlight
  <2>. QED BY <2>1, <2>2 DEF NewClaim
<1>2. CASE ~(CommitClaims /\ r = pending.create)
  <2>1. claim[r].state # "absent" /\ claim'[r].task = claim[r].task
    BY <1>2, ClaimsKept
  <2>2. bound[r].state # "none" /\ bound[r].task = claim[r].task
    BY <2>1 DEF ClaimHasBinding
  <2>. QED BY <2>1, <2>2, BindingsKept
<1>. QED BY <1>1, <1>2

\* OneActiveClaimPerTask is preserved.
LEMMA NextOneActiveClaim ==
    Inv /\ [Next]_vars => OneActiveClaimPerTask'
<1>. SUFFICES ASSUME Inv, [Next]_vars, NEW q \in Runs, NEW r \in Runs,
                     Active(q)', Active(r)', claim'[q].task = claim'[r].task, q # r
              PROVE  FALSE
  BY DEF OneActiveClaimPerTask
<1>. USE DEF Inv
<1>a. claim'[q].state # "absent" /\ claim'[r].state # "absent"
  BY DEF Active, Live
<1>1. ASSUME NEW x \in Runs, NEW y \in Runs, x # y, Active(x)', Active(y)',
             claim'[x].task = claim'[y].task, claim'[y].state # "absent",
             CommitClaims, x = pending.create
      PROVE  FALSE
  <2>1. claim'[x] = NewClaim(x)
    BY <1>1 DEF CommitClaims
  <2>2. claim'[x].task = bound[x].task
    BY <2>1 DEF NewClaim
  <2>3. Active(y) /\ claim'[y].task = claim[y].task
    BY <1>1, ClaimsKept
  <2>4. y \in ActiveOn(bound[x].task)
    BY <1>1, <2>2, <2>3 DEF ActiveOn
  <2>. QED BY <1>1, <2>4 DEF ClaimInFlight
<1>2. CASE ~(CommitClaims /\ (q = pending.create \/ r = pending.create))
  BY <1>2, <1>a, ClaimsKept DEF OneActiveClaimPerTask
<1>. QED BY <1>1, <1>2, <1>a

\* The invariant holds initially.
LEMMA InitInv == Init => Inv
<1>. SUFFICES ASSUME Init PROVE Inv
  OBVIOUS
<1>1. TypeOK
  BY InitType
<1>2. \A r \in Runs : claim[r].state = "absent"
  BY DEF Init, NoClaim
<1>3. pending.create \notin Runs /\ pending.fail = {}
  BY PendingParts DEF Init
<1>. QED BY <1>1, <1>2, <1>3
         DEF Inv, ClaimInFlight, FailingActive, ClaimHasBinding, OneActiveClaimPerTask, Active, Live

\* The invariant is inductive.
LEMMA NextInv == Inv /\ [Next]_vars => Inv'
BY NextType, NextClaimInFlight, NextFailingActive, NextClaimHasBinding, NextOneActiveClaim
   DEF Inv

\* Every reachable state satisfies the invariant.
THEOREM Invariance == Spec => []Inv
BY InitInv, NextInv, PTL DEF Spec

\* Every reachable state is well formed: claimManager, the reconciler and the
\* operator's mutations leave only rows the two schemas allow.
THEOREM TypeCorrect == Spec => []TypeOK
<1>1. Inv => TypeOK
  BY DEF Inv
<1>. QED BY <1>1, Invariance, PTL

\* claimTask, finishRun, expireLeases, reconcileState and the operator's
\* mutations never leave two active claims on one task, wherever any of them
\* is cut off between its two commits.
THEOREM SingleActiveClaim == Spec => []OneActiveClaimPerTask
<1>1. Inv => OneActiveClaimPerTask
  BY DEF Inv
<1>. QED BY <1>1, Invariance, PTL

-----------------------------------------------------------------------------
(* An ended run stays ended.                                               *)

\* A step leaves the outcome of an ended run alone: only active claims are
\* failed, finished or deleted, and no claim is created over another.
LEMMA StepKeepsEnded ==
    ASSUME Inv, [Next]_vars, NEW r \in Runs, claim[r].state \in {"done", "failed"}
    PROVE  claim'[r].state = claim[r].state
<1>. USE DEF Inv
<1>a. ~Active(r) /\ claim[r].state # "claimed" /\ claim[r].state # "absent"
  BY DEF Active, Live
<1>b. claim \in [Runs -> ClaimRows]
  BY DEF TypeOK
<1>1. ASSUME NEW q \in Runs,
             \/ StartRun(q) \/ RenewLease(q) \/ RequestInput(q) \/ AnswerInput(q)
             \/ LeaseRunsDown(q) \/ InputWaitRunsOut(q)
             \/ FinishRunSuccess(q) \/ expireRun(q)
             \/ \E policy \in FailurePolicies : FinishRunFailure(q, policy)
      PROVE  claim'[r] = claim[r]
  <2>1. q # r
    BY <1>1, <1>a DEF StartRun, RenewLease, RequestInput, AnswerInput, LeaseRunsDown,
       InputWaitRunsOut, FinishRunSuccess, expireRun, FinishRunFailure
  <2>. QED BY <1>1, <1>b, <2>1 DEF StartRun, RenewLease, RequestInput, AnswerInput,
       LeaseRunsDown, InputWaitRunsOut, FinishRunSuccess, expireRun, FinishRunFailure
<1>2. CASE expireLeases
  BY <1>2, <1>a DEF expireLeases, Expired
<1>3. ASSUME NEW t \in Tasks, cancelTask(t) \/ resetTask(t)
      PROVE  claim'[r] = claim[r]
  BY <1>3, <1>a DEF cancelTask, resetTask, ActiveOn
<1>4. CASE killAll
  BY <1>4, <1>a DEF killAll
<1>5. CASE CommitClaims
  <2>1. r # pending.create
    BY <1>a DEF ClaimInFlight
  <2>2. r \notin pending.fail
    BY <1>a DEF FailingActive
  <2>. QED BY <1>5, <2>1, <2>2 DEF CommitClaims
<1>. QED BY <1>1, <1>2, <1>3, <1>4, <1>5
         DEF Next, vars, ClaimTask, ClaimAbandoned, unblockTask, markTaskDone, delegateTask,
             reconcileState, sessionReset, CommitBacklog, BacklogRejected, Interrupted

\* finishRun's outcome is final: no late run-fail, lease expiry, reset or
\* reconcile revives, re-decides or deletes an ended run.
THEOREM OutcomesAreFinal == Spec => EndedRunsStayEnded
<1>1. Inv /\ [Next]_vars =>
          [\A r \in Runs : claim[r].state \in {"done", "failed"} =>
               claim'[r].state = claim[r].state]_vars
  BY StepKeepsEnded
<1>. QED BY <1>1, Invariance, PTL DEF Spec, EndedRunsStayEnded

-----------------------------------------------------------------------------
(* Bindings follow tasks.                                                  *)

\* Moves that start a run only from claimed or in_progress; the store refuses
\* any other, and no other caller of commitBacklog asks for it.
StartsHeld(moves) ==
    \A t \in Tasks : moves[t] = "run_start" => task[t].status \in Live

\* What the store accepts starts only held tasks.
LEMMA AcceptedStartsHeld ==
    ASSUME NEW moves \in Moves, Accepted(moves)
    PROVE  StartsHeld(moves)
BY DEF Moves, Accepted, StartsHeld, StatusAfter, StatusFor, canTransitionTaskStatus, Live

\* The new status of a task whose status commitBacklog changes: held again
\* only if its run starts, and otherwise every binding of it is closed.
LEMMA ChangedStatus ==
    ASSUME TypeOK, NEW moves \in Moves, StartsHeld(moves), NEW t \in Tasks,
           StatusAfter(moves, t) # task[t].status
    PROVE  \/ /\ moves[t] = "run_start"
              /\ task[t].status = "claimed" /\ StatusAfter(moves, t) = "in_progress"
           \/ moves[t] # "run_start" /\ StatusAfter(moves, t) \notin Live
BY DEF Moves, BacklogCauses, StartsHeld, StatusAfter, StatusFor, Live

\* A step commits the backlog, binds a run, delegates, or leaves tasks and
\* bindings alone.
LEMMA StepKinds ==
    ASSUME Inv, [Next]_vars
    PROVE  \/ \E t \in Tasks, a \in Agents, r \in Runs : ClaimTask(t, a, r)
           \/ /\ claim' = claim
              /\ \E moves \in Moves : \E counted : StartsHeld(moves) /\ commitBacklog(moves, counted)
           \/ \E t \in Tasks, a \in Agents \cup {NoAgent} : delegateTask(t, a)
           \/ task' = task /\ bound' = bound
<1>. DEFINE Commits == /\ claim' = claim
                       /\ \E moves \in Moves : \E counted :
                             StartsHeld(moves) /\ commitBacklog(moves, counted)
<1>. USE DEF Inv
<1>a. \A c \in {"failure_requeue", "unblock", "merge_succeeded"} : \A ts :
          Move(ts, c) \in Moves /\ StartsHeld(Move(ts, c))
  BY MoveType DEF BacklogCauses, StartsHeld, Move
<1>1. CASE ClaimAbandoned
  <2>. DEFINE m == Move({bound[pending.create].task}, "failure_requeue")
  <2>1. commitBacklog(m, {}) /\ claim' = claim
    BY <1>1 DEF ClaimAbandoned
  <2>. QED BY <1>a, <2>1
<1>2. CASE reconcileState
  <2>1. ReconcileMoves \in Moves /\ StartsHeld(ReconcileMoves)
    BY DEF ReconcileMoves, Moves, BacklogCauses, StartsHeld, Live
  <2>2. commitBacklog(ReconcileMoves, {}) /\ claim' = claim
    BY <1>2 DEF reconcileState
  <2>. QED BY <2>1, <2>2
<1>3. ASSUME NEW t \in Tasks, unblockTask(t) \/ markTaskDone(t)
      PROVE  Commits
  <2>1. /\ claim' = claim
        /\ \E c \in {"unblock", "merge_succeeded"} : commitBacklog(Move({t}, c), {})
    BY <1>3 DEF unblockTask, markTaskDone
  <2>. QED BY <1>a, <2>1
<1>4. CASE sessionReset
  <2>. DEFINE m == Move({t \in Tasks : task[t].status \in Live}, "failure_requeue")
  <2>1. commitBacklog(m, {}) /\ claim' = claim
    BY <1>4 DEF sessionReset
  <2>. QED BY <1>a, <2>1
<1>5. CASE CommitBacklog
  <2>1. pending.moves \in Moves
    BY DEF TypeOK, PendingCommits
  <2>2. StartsHeld(pending.moves)
    BY <1>5, <2>1, AcceptedStartsHeld DEF CommitBacklog
  <2>3. commitBacklog(pending.moves, pending.counted) /\ claim' = claim
    BY <1>5 DEF CommitBacklog
  <2>. QED BY <2>1, <2>2, <2>3
<1>. QED BY <1>1, <1>2, <1>3, <1>4, <1>5
         DEF Next, vars, StartRun, RenewLease, RequestInput, AnswerInput, FinishRunSuccess,
             expireRun, LeaseRunsDown, InputWaitRunsOut, FinishRunFailure, cancelTask,
             resetTask, expireLeases, killAll, BacklogRejected, CommitClaims, Interrupted

\* commitBacklog keeps one binding in the state of each held task, and none on
\* any other.
LEMMA CommitKeepsTracking ==
    ASSUME TypeOK, BindingTracksTask, NEW moves \in Moves, NEW counted,
           StartsHeld(moves), commitBacklog(moves, counted)
    PROVE  BindingTracksTask'
<1>1. SUFFICES ASSUME NEW t \in Tasks
               PROVE  /\ task'[t].status \in Live =>
                            \E r \in ActiveBindings(t)' : bound'[r].state = task'[t].status
                      /\ \A q, r \in ActiveBindings(t)' : q = r /\ task'[t].status \in Live
  BY DEF BindingTracksTask
<1>2. task'[t].status = StatusAfter(moves, t)
  BY DEF commitBacklog, TaskAfter
<1>3. \A r \in Runs : bound'[r] = BindingAfter(moves, r) /\ bound'[r].task = bound[r].task
  BY CommitBacklogKeepsBindings DEF commitBacklog
<1>4. \A r \in ActiveBindings(t)' : r \in ActiveBindings(t)
  BY <1>3, CommitBacklogKeepsBindings DEF ActiveBindings
<1>5. CASE StatusAfter(moves, t) = task[t].status
  <2>1. \A r \in ActiveBindings(t) : r \in Runs /\ bound'[r] = bound[r] /\ r \in ActiveBindings(t)'
    BY <1>3, <1>5 DEF BindingAfter, ActiveBindings
  <2>. QED BY <1>2, <1>4, <1>5, <2>1 DEF BindingTracksTask
<1>6. CASE StatusAfter(moves, t) # task[t].status
  <2>1. CASE moves[t] = "run_start"
    <3>1. task[t].status = "claimed" /\ StatusAfter(moves, t) = "in_progress"
      BY <1>6, <2>1, ChangedStatus
    <3>2. PICK r \in ActiveBindings(t) : TRUE
      BY <3>1 DEF BindingTracksTask, Live
    <3>3. bound'[r].state = "in_progress" /\ r \in ActiveBindings(t)'
      <4>1. r \in Runs /\ bound[r].state \in Live /\ bound[r].task = t /\ bound[r] \in BindingRows
        BY <3>2 DEF ActiveBindings, TypeOK
      <4>2. bound'[r] = [bound[r] EXCEPT !.state = "in_progress"]
        BY <1>3, <1>6, <2>1, <3>1, <4>1 DEF BindingAfter, Live
      <4>3. bound'[r].state = "in_progress"
        BY <4>1, <4>2 DEF BindingRows, NoBinding
      <4>. QED BY <1>3, <4>1, <4>3 DEF ActiveBindings, Live
    <3>. QED BY <1>2, <1>4, <3>1, <3>3 DEF BindingTracksTask, Live
  <2>2. CASE moves[t] # "run_start"
    <3>1. StatusAfter(moves, t) \notin Live
      BY <1>6, <2>2, ChangedStatus
    <3>2. ActiveBindings(t)' = {}
      <4>1. SUFFICES ASSUME NEW r \in ActiveBindings(t)' PROVE FALSE
        OBVIOUS
      <4>2. r \in Runs /\ bound[r].state \in Live /\ bound[r].task = t /\ bound[r] \in BindingRows
        BY <1>4 DEF ActiveBindings, TypeOK
      <4>3. bound'[r] = [bound[r] EXCEPT !.state = RUN_STATE_FOR_CAUSE(moves[t])]
        <5>1. task[t].status \in Live
          BY <4>2 DEF BindingTracksTask, ActiveBindings
        <5>. QED BY <1>3, <1>6, <2>2, <4>2, <5>1 DEF BindingAfter
      <4>4. bound'[r].state \in {"finished", "failed", "cancelled"}
        BY <4>2, <4>3, RunStateType DEF BindingRows, NoBinding
      <4>. QED BY <4>4 DEF ActiveBindings, Live
    <3>. QED BY <1>2, <3>1, <3>2
  <2>. QED BY <2>1, <2>2
<1>. QED BY <1>5, <1>6

\* BindingTracksTask is preserved.
LEMMA NextTracking == Inv /\ BindingTracksTask /\ [Next]_vars => BindingTracksTask'
<1>. SUFFICES ASSUME Inv, BindingTracksTask, [Next]_vars PROVE BindingTracksTask'
  OBVIOUS
<1>. USE DEF Inv
<1>1. ASSUME NEW t \in Tasks, NEW a \in Agents, NEW r \in Runs, ClaimTask(t, a, r)
      PROVE  BindingTracksTask'
  <2>1. ActiveBindings(t) = {}
    BY <1>1 DEF ClaimTask, BindingTracksTask, Live
  <2>2. \A q \in Runs : bound'[q] = IF q = r THEN [state |-> "claimed", task |-> t, agent |-> a]
                                    ELSE bound[q]
    BY <1>1, <2>1 DEF ClaimTask, BindRun
  <2>3. bound[r].state \notin Live
    BY <1>1 DEF ClaimTask, Fresh, Live
  <2>4. ActiveBindings(t)' = {r}
    BY <2>1, <2>2 DEF ActiveBindings, Live
  <2>5. \A u \in Tasks \ {t} : ActiveBindings(u)' = ActiveBindings(u) /\ r \notin ActiveBindings(u)
    BY <2>2, <2>3 DEF ActiveBindings, Live
  <2>6. /\ task'[t].status = "claimed"
        /\ \A u \in Tasks \ {t} : task'[u].status = task[u].status
    BY <1>1 DEF ClaimTask, BindRun, TypeOK, TaskRows
  <2>7. \A u \in Tasks \ {t} : \A q \in ActiveBindings(u) : bound'[q] = bound[q]
    BY <2>2, <2>5 DEF ActiveBindings
  <2>8. bound'[r].state = "claimed"
    BY <2>2
  <2>9. ASSUME NEW u \in Tasks
        PROVE  /\ task'[u].status \in Live =>
                     \E q \in ActiveBindings(u)' : bound'[q].state = task'[u].status
               /\ \A p, q \in ActiveBindings(u)' : p = q /\ task'[u].status \in Live
    <3>1. CASE u = t
      BY <2>4, <2>6, <2>8, <3>1 DEF Live
    <3>2. CASE u # t
      BY <2>5, <2>6, <2>7, <3>2 DEF BindingTracksTask
    <3>. QED BY <3>1, <3>2
  <2>. QED BY <2>9 DEF BindingTracksTask
<1>2. ASSUME NEW moves \in Moves, NEW counted, StartsHeld(moves), commitBacklog(moves, counted)
      PROVE  BindingTracksTask'
  BY <1>2, CommitKeepsTracking
<1>3. ASSUME NEW t \in Tasks, NEW a \in Agents \cup {NoAgent}, delegateTask(t, a)
      PROVE  BindingTracksTask'
  <2>1. \A u \in Tasks : /\ task'[u].status \in Live <=> task[u].status \in Live
                         /\ task[u].status \in Live => task'[u].status = task[u].status
    BY <1>3 DEF delegateTask, TypeOK, TaskRows, Live
  <2>. QED BY <1>3, <2>1 DEF delegateTask, BindingTracksTask, ActiveBindings
<1>4. CASE task' = task /\ bound' = bound
  BY <1>4 DEF BindingTracksTask, ActiveBindings
<1>. QED BY <1>1, <1>2, <1>3, <1>4, StepKinds

\* commitBacklog never closes the binding of an active claim and leaves its
\* task held.
LEMMA CommitKeepsClaimBound ==
    ASSUME TypeOK, ClaimHasBinding, ActiveClaimIsBound, NEW moves \in Moves, NEW counted,
           StartsHeld(moves), commitBacklog(moves, counted), claim' = claim
    PROVE  ActiveClaimIsBound'
<1>. SUFFICES ASSUME NEW r \in Runs, Active(r)', task'[claim'[r].task].status \in Live
              PROVE  bound'[r].state \in Live /\ bound'[r].task = claim'[r].task
  BY DEF ActiveClaimIsBound
<1>. DEFINE t == claim[r].task
<1>1. Active(r) /\ claim[r].state # "absent"
  BY DEF Active, Live
<1>2. t \in Tasks /\ bound[r].task = t /\ bound[r] \in BindingRows
  BY <1>1, ActiveNamesTask DEF ClaimHasBinding, TypeOK
<1>3. StatusAfter(moves, t) \in Live
  BY <1>2 DEF commitBacklog, TaskAfter
<1>4. bound'[r] = BindingAfter(moves, r) /\ bound'[r].task = t
  BY <1>2, CommitBacklogKeepsBindings DEF commitBacklog
<1>5. CASE StatusAfter(moves, t) = task[t].status
  BY <1>1, <1>2, <1>3, <1>4, <1>5 DEF BindingAfter, ActiveClaimIsBound
<1>6. CASE StatusAfter(moves, t) # task[t].status
  <2>1. moves[t] = "run_start" /\ task[t].status = "claimed"
    BY <1>2, <1>3, <1>6, ChangedStatus
  <2>2. bound[r].state \in Live
    BY <1>1, <2>1 DEF ActiveClaimIsBound, Live
  <2>3. bound'[r] = [bound[r] EXCEPT !.state = "in_progress"]
    BY <1>2, <1>4, <1>6, <2>1, <2>2 DEF BindingAfter, Live
  <2>4. bound'[r].state = "in_progress"
    BY <1>2, <2>2, <2>3 DEF BindingRows, NoBinding, Live
  <2>. QED BY <1>4, <2>4 DEF Live
<1>. QED BY <1>5, <1>6

\* ActiveClaimIsBound is preserved.
LEMMA NextClaimBound ==
    Inv /\ BindingTracksTask /\ ActiveClaimIsBound /\ [Next]_vars => ActiveClaimIsBound'
<1>. SUFFICES ASSUME Inv, BindingTracksTask, ActiveClaimIsBound, [Next]_vars
              PROVE  ActiveClaimIsBound'
  OBVIOUS
<1>. USE DEF Inv
<1>1. ASSUME NEW t \in Tasks, NEW a \in Agents, NEW r \in Runs, ClaimTask(t, a, r)
      PROVE  ActiveClaimIsBound'
  <2>. SUFFICES ASSUME NEW q \in Runs, Active(q)', task'[claim'[q].task].status \in Live
                PROVE  bound'[q].state \in Live /\ bound'[q].task = claim'[q].task
    BY DEF ActiveClaimIsBound
  <2>1. Active(q) /\ claim[q].state # "absent" /\ claim' = claim
    BY <1>1 DEF ClaimTask, Active, Live
  <2>2. claim[q].task \in Tasks /\ claim[q].task # t
    BY <1>1, <2>1, ActiveNamesTask DEF ClaimTask, ActiveOn
  <2>3. task[claim[q].task].status \in Live
    BY <1>1, <2>1, <2>2 DEF ClaimTask, BindRun, TypeOK, TaskRows
  <2>4. bound[q].state \in Live /\ bound[q].task = claim[q].task
    BY <2>1, <2>3 DEF ActiveClaimIsBound
  <2>5. q # r /\ q \notin ActiveBindings(t)
    BY <1>1, <2>2, <2>4 DEF ClaimTask, Fresh, ActiveBindings, Live
  <2>. QED BY <1>1, <2>1, <2>4, <2>5 DEF ClaimTask, BindRun
<1>2. ASSUME NEW moves \in Moves, NEW counted, StartsHeld(moves), commitBacklog(moves, counted),
             claim' = claim
      PROVE  ActiveClaimIsBound'
  BY <1>2, CommitKeepsClaimBound
<1>3. ASSUME NEW t \in Tasks, NEW a \in Agents \cup {NoAgent}, delegateTask(t, a)
      PROVE  ActiveClaimIsBound'
  <2>1. \A u \in Tasks : task'[u].status \in Live => task[u].status \in Live
    BY <1>3 DEF delegateTask, TypeOK, TaskRows, Live
  <2>. QED BY <1>3, <2>1, ActiveNamesTask DEF delegateTask, ActiveClaimIsBound, Active
<1>4. CASE task' = task /\ bound' = bound
  <2>. SUFFICES ASSUME NEW r \in Runs, Active(r)', task[claim'[r].task].status \in Live
                PROVE  bound[r].state \in Live /\ bound[r].task = claim'[r].task
    BY <1>4 DEF ActiveClaimIsBound
  <2>1. CASE CommitClaims /\ r = pending.create
    BY <2>1 DEF CommitClaims, NewClaim, ClaimInFlight, Live
  <2>2. CASE ~(CommitClaims /\ r = pending.create)
    <3>1. claim'[r].state # "absent"
      BY DEF Active, Live
    <3>2. Active(r) /\ claim'[r].task = claim[r].task
      BY <2>2, <3>1, ClaimsKept
    <3>. QED BY <3>2 DEF ActiveClaimIsBound
  <2>. QED BY <2>1, <2>2
<1>. QED BY <1>1, <1>2, <1>3, <1>4, StepKinds

\* Both binding invariants hold in every reachable state.
LEMMA BindingInvariance == Spec => [](BindingTracksTask /\ ActiveClaimIsBound)
<1>. DEFINE Both == BindingTracksTask /\ ActiveClaimIsBound
<1>1. Init => Both
  BY DEF Init, NoBinding, NoClaim, BindingTracksTask, ActiveClaimIsBound, ActiveBindings,
         Active, Live
<1>2. Inv /\ Both /\ [Next]_vars => Both'
  BY NextTracking, NextClaimBound
<1>. QED BY <1>1, <1>2, Invariance, PTL DEF Spec

\* commitBacklog and bindRun keep one active binding, in the task's own state,
\* on every held task, and none on any other task.
THEOREM BindingsFollowTasks == Spec => []BindingTracksTask
BY BindingInvariance, PTL

\* A held task with an active claim is bound to that claim's run: the worker's
\* pinned specification is the one of its own run.
THEOREM ClaimsAreBound == Spec => []ActiveClaimIsBound
BY BindingInvariance, PTL

-----------------------------------------------------------------------------
(* Tasks and claims agree between operations.                              *)

\* Agree(t), were the task's status the given one.
Consistent(status, t) ==
    \/ status \in Completed
    \/ /\ status \in Live
       /\ \E r \in ActiveOn(t) : ActiveOn(t) = {r} /\ claim[r].state = status
    \/ /\ status \in {"todo", "blocked", "cancelled"}
       /\ ActiveOn(t) = {}

\* The second commit is one of three kinds.
PendingShape ==
    \/ Idle
    \/ pending.db = "tasks" /\ pending.op \notin {"claimTask", "reconcile", "sessionReset"}
    \/ /\ pending.op = "claimTask" /\ pending.db = "claims"
       /\ pending.create \in Runs /\ pending.fail = {}
    \/ /\ pending.op \in {"reconcile", "sessionReset"} /\ pending.db = "claims"
       /\ pending.create = NoRun

\* What a backlog commit, accepted or refused, will leave agrees.
BacklogSettles ==
    pending.db = "tasks" /\ ~dirty =>
        IF Accepted(pending.moves)
        THEN \A t \in Tasks : Consistent(StatusAfter(pending.moves, t), t)
        ELSE \A t \in Tasks : Agree(t)

\* What claimTask's commit of the claim will leave agrees.
ClaimSettles ==
    pending.op = "claimTask" /\ ~dirty =>
        \A t \in Tasks : t # bound[pending.create].task => Agree(t)

\* What reconcileState's commit of the claims will leave agrees, even if the
\* two databases did not agree before it.
ReconcileSettles ==
    pending.op = "reconcile" =>
        \A t \in Tasks :
            \/ task[t].status \in Completed
            \/ /\ task[t].status \in Live /\ ActiveOn(t) \cap pending.fail = {}
               /\ \E r \in ActiveOn(t) : ActiveOn(t) = {r} /\ claim[r].state = task[t].status
            \/ /\ task[t].status \in {"todo", "blocked", "cancelled"}
               /\ ActiveOn(t) \subseteq pending.fail

\* A session reset has released every task and will fail every active claim.
ResetSettles ==
    pending.op = "sessionReset" =>
        \A t \in Tasks : task[t].status \notin Live /\ ActiveOn(t) \subseteq pending.fail

\* A task is in progress, or about to be, only after its claim is: startRun
\* commits the claim first.
StartedClaimFirst ==
    \A t \in Tasks :
        \/ task[t].status = "in_progress"
        \/ pending.db = "tasks" /\ pending.moves[t] = "run_start"
        => \A r \in ActiveOn(t) : claim[r].state = "in_progress"

\* The inductive invariant for SettledAgreement.
Settling == /\ PendingShape /\ BacklogSettles /\ ClaimSettles /\ ReconcileSettles
            /\ ResetSettles /\ StartedClaimFirst /\ SettledAgreement

\* Ending the claims of a set leaves the other claims of a task as they were.
LEMMA EndingClaims ==
    ASSUME TypeOK, NEW gone,
           \A r \in Runs : IF r \in gone THEN claim'[r].state \notin Live
                           ELSE claim'[r] = claim[r],
           NEW t \in Tasks
    PROVE  /\ ActiveOn(t)' = ActiveOn(t) \ gone
           /\ \A r \in ActiveOn(t)' : claim'[r] = claim[r]
BY DEF ActiveOn, Active

\* A failed, finished or deleted claim is not active.
LEMMA EndedNotLive ==
    /\ \A c : Failed(c).state \notin Live /\ Ended(c, "done").state \notin Live
    /\ NoClaim.state \notin Live
BY DEF Failed, Ended, NoClaim, Live

\* A task that is in the same status, with the same active claims in the same
\* states, still agrees.
LEMMA AgreeKept ==
    ASSUME NEW t \in Tasks, Agree(t), task'[t].status = task[t].status,
           ActiveOn(t)' = ActiveOn(t), \A r \in ActiveOn(t) : claim'[r].state = claim[r].state
    PROVE  Agree(t)'
BY DEF Agree

\* The operations that end claims first and move their tasks second: the moves
\* are accepted, and what they leave agrees.
LEMMA EndThenMove ==
    ASSUME TypeOK, NEW gone, NEW op, NEW moves \in Moves, NEW counted,
           \A t \in Tasks : Agree(t),
           \A r \in Runs : IF r \in gone THEN claim'[r].state \notin Live
                           ELSE claim'[r] = claim[r],
           task' = task, pending' = ThenBacklog(op, moves, counted),
           \A t \in Tasks :
               \/ moves[t] = "none" /\ (ActiveOn(t) \cap gone = {} \/ task[t].status \in Completed)
               \/ /\ ActiveOn(t) \subseteq gone
                  /\ \/ moves[t] \in {"failure_requeue", "failure_block"} /\ task[t].status \in Live
                     \/ moves[t] = "operator_reset"
                     \/ moves[t] = "cancel" /\ task[t].status \notin TERMINAL_STATUSES
    PROVE  BacklogSettles'
<1>1. pending'.db = "tasks" /\ pending'.moves = moves
  BY PendingParts
<1>2. Accepted(moves)'
  <2>1. Accepted(moves)
    BY DEF Accepted, StatusAfter, StatusFor, canTransitionTaskStatus, Live
  <2>. QED BY <2>1 DEF Accepted, StatusAfter
<1>3. ASSUME NEW t \in Tasks
      PROVE  Consistent(StatusAfter(moves, t), t)'
  <2>1. /\ ActiveOn(t)' = ActiveOn(t) \ gone
        /\ \A r \in ActiveOn(t)' : claim'[r] = claim[r]
    BY EndingClaims
  <2>2. CASE moves[t] = "none"
    <3>1. StatusAfter(moves, t)' = task[t].status
      BY <2>2 DEF StatusAfter
    <3>2. CASE task[t].status \in Completed
      BY <3>1, <3>2 DEF Consistent
    <3>3. CASE ActiveOn(t) \cap gone = {}
      <4>1. ActiveOn(t)' = ActiveOn(t)
        BY <2>1, <3>3
      <4>. QED BY <2>1, <3>1, <4>1 DEF Consistent, Agree
    <3>. QED BY <2>2, <3>2, <3>3
  <2>3. CASE moves[t] # "none"
    <3>1. ActiveOn(t)' = {}
      BY <2>1, <2>3
    <3>2. StatusAfter(moves, t)' \in {"todo", "blocked", "cancelled"}
      BY <2>3 DEF StatusAfter, StatusFor
    <3>. QED BY <3>1, <3>2 DEF Consistent
  <2>. QED BY <2>2, <2>3
<1>. QED BY <1>1, <1>2, <1>3 DEF BacklogSettles

\* What an active claim says of its task when the two agree.
LEMMA AgreeingTask ==
    ASSUME TypeOK, NEW r \in Runs, Active(r), Agree(claim[r].task)
    PROVE  /\ claim[r].task \in Tasks /\ r \in ActiveOn(claim[r].task)
           /\ \/ task[claim[r].task].status \in Completed
              \/ /\ task[claim[r].task].status = claim[r].state
                 /\ ActiveOn(claim[r].task) = {r}
BY ActiveNamesTask DEF Agree, ActiveOn

\* The operations that end claims first, from a state that agrees.
LEMMA EndingOpsSettle ==
    ASSUME Inv, \A t \in Tasks : Agree(t),
           \/ \E r \in Runs : expireRun(r)
           \/ \E t \in Tasks : cancelTask(t) \/ resetTask(t)
           \/ expireLeases \/ killAll
    PROVE  BacklogSettles'
<1>. USE DEF Inv
<1>a. \A ts : \A c \in {"failure_requeue", "cancel", "operator_reset"} :
          Move(ts, c) \in Moves
  BY MoveType DEF BacklogCauses
<1>1. ASSUME NEW r \in Runs, expireRun(r) PROVE BacklogSettles'
  <2>. DEFINE u == claim[r].task
              gone == {r}
              moves == Move({u}, "failure_requeue")
  <2>1. u \in Tasks /\ ActiveOn(u) = {r} /\ task[u].status \in Live
    <3>1. Active(r) /\ task[u].status \notin TERMINAL_STATUSES
      BY <1>1 DEF expireRun
    <3>2. u \in Tasks
      BY <3>1, ActiveNamesTask
    <3>. QED BY <3>1, <3>2, AgreeingTask DEF Active, TERMINAL_STATUSES, Completed
  <2>2. \A q \in Runs : IF q \in gone THEN claim'[q].state \notin Live ELSE claim'[q] = claim[q]
    BY <1>1, EndedNotLive DEF expireRun, TypeOK
  <2>3. \A t \in Tasks : IF t = u THEN ActiveOn(t) \subseteq gone /\ moves[t] = "failure_requeue"
                         ELSE ActiveOn(t) \cap gone = {} /\ moves[t] = "none"
    BY <2>1 DEF ActiveOn, Move
  <2>4. pending' = ThenBacklog("expireRun", moves, {}) /\ task' = task /\ moves \in Moves
    BY <1>1, <1>a DEF expireRun
  <2>. HIDE DEF u, gone, moves
  <2>. QED BY <2>1, <2>2, <2>3, <2>4, EndThenMove
<1>2. ASSUME NEW u \in Tasks, cancelTask(u) \/ resetTask(u) PROVE BacklogSettles'
  <2>1. PICK c \in {"cancel", "operator_reset"} :
            /\ \E op : pending' = ThenBacklog(op, Move({u}, c), {})
            /\ c = "cancel" => task[u].status \notin TERMINAL_STATUSES
    BY <1>2 DEF cancelTask, resetTask
  <2>. DEFINE gone == ActiveOn(u)
              moves == Move({u}, c)
  <2>2. \A q \in Runs : IF q \in gone THEN claim'[q].state \notin Live ELSE claim'[q] = claim[q]
    BY <1>2, EndedNotLive DEF cancelTask, resetTask
  <2>3. \A t \in Tasks : IF t = u THEN ActiveOn(t) \subseteq gone /\ moves[t] = c
                         ELSE ActiveOn(t) \cap gone = {} /\ moves[t] = "none"
    BY DEF ActiveOn, Move
  <2>4. task' = task /\ moves \in Moves
    BY <1>2, <1>a DEF cancelTask, resetTask
  <2>5. PICK op : pending' = ThenBacklog(op, moves, {})
    BY <2>1
  <2>. HIDE DEF gone, moves
  <2>. QED BY <2>1, <2>2, <2>3, <2>4, <2>5, EndThenMove
<1>3. CASE expireLeases
  <2>. DEFINE gone == {r \in Runs : Expired(r)}
              hit  == {t \in Tasks : task[t].status \in Live /\ \E r \in gone : claim[r].task = t}
              moves == [t \in Tasks |-> IF t \in hit THEN CountedCause(t) ELSE "none"]
  <2>1. \A q \in Runs : IF q \in gone THEN claim'[q].state \notin Live ELSE claim'[q] = claim[q]
    BY <1>3, EndedNotLive DEF expireLeases
  <2>2. pending' = ThenBacklog("expireLeases", moves, hit) /\ task' = task
    BY <1>3 DEF expireLeases
  <2>3. moves \in Moves
    BY DEF Moves, BacklogCauses, CountedCause
  <2>4. ASSUME NEW t \in Tasks, t \in hit
        PROVE  /\ moves[t] \in {"failure_requeue", "failure_block"} /\ task[t].status \in Live
               /\ ActiveOn(t) \subseteq gone
    <3>1. PICK r \in gone : claim[r].task = t
      BY <2>4
    <3>2. r \in Runs /\ Active(r)
      BY <3>1 DEF Expired
    <3>3. ActiveOn(t) = {r}
      BY <2>4, <3>1, <3>2, AgreeingTask DEF Completed, Live
    <3>. QED BY <2>4, <3>1, <3>3 DEF CountedCause
  <2>5. ASSUME NEW t \in Tasks, t \notin hit
        PROVE  moves[t] = "none" /\ (ActiveOn(t) \cap gone = {} \/ task[t].status \in Completed)
    <3>1. task[t].status \in Live => ActiveOn(t) \cap gone = {}
      BY <2>5 DEF ActiveOn
    <3>2. task[t].status \notin Live => ActiveOn(t) = {} \/ task[t].status \in Completed
      BY DEF Agree
    <3>. QED BY <2>5, <3>1, <3>2
  <2>. HIDE DEF gone, hit, moves
  <2>. QED BY <2>1, <2>2, <2>3, <2>4, <2>5, EndThenMove
<1>4. CASE killAll
  <2>. DEFINE gone == {r \in Runs : Active(r)}
              ts == {t \in Tasks : task[t].status \in Live}
  <2>1. \A q \in Runs : IF q \in gone THEN claim'[q].state \notin Live ELSE claim'[q] = claim[q]
    BY <1>4, EndedNotLive DEF killAll
  <2>2. pending' = ThenBacklog("killAll", Move(ts, "operator_reset"), {}) /\ task' = task
    BY <1>4 DEF killAll
  <2>3. \A t \in Tasks : ActiveOn(t) \subseteq gone
    BY DEF ActiveOn
  <2>4. \A t \in Tasks : t \notin ts => ActiveOn(t) = {} \/ task[t].status \in Completed
    BY DEF Agree
  <2>5. \A t \in Tasks : Move(ts, "operator_reset")[t] = IF t \in ts THEN "operator_reset" ELSE "none"
    BY DEF Move
  <2>. HIDE DEF gone, ts
  <2>. QED BY <1>a, <2>1, <2>2, <2>3, <2>4, <2>5, EndThenMove
<1>. QED BY <1>1, <1>2, <1>3, <1>4

\* A failed run, from a state that agrees: its task is requeued or blocked, or
\* was already merged.
LEMMA FailureSettles ==
    ASSUME Inv, \A t \in Tasks : Agree(t), NEW r \in Runs, NEW policy \in FailurePolicies,
           FinishRunFailure(r, policy)
    PROVE  BacklogSettles' /\ (pending' = NoPending => \A t \in Tasks : Agree(t)')
<1>. USE DEF Inv
<1>. DEFINE u == claim[r].task
            gone == {r}
<1>1. Active(r) /\ u \in Tasks /\ task' = task
  BY ActiveNamesTask DEF FinishRunFailure
<1>2. \A q \in Runs : IF q \in gone THEN claim'[q].state \notin Live ELSE claim'[q] = claim[q]
  BY EndedNotLive DEF FinishRunFailure, TypeOK
<1>3. \A t \in Tasks : t # u => ActiveOn(t) \cap gone = {}
  BY DEF ActiveOn
<1>4. CASE task[u].status \in Live
  <2>1. ActiveOn(u) \subseteq gone
    BY <1>1, <1>4, AgreeingTask DEF Completed, Live
  <2>2. PICK c \in {"failure_requeue", "failure_block"} :
            \E counted : pending' = ThenBacklog("finishRun", Move({u}, c), counted)
    BY <1>4 DEF FinishRunFailure, FailurePolicies, CountedCause
  <2>. DEFINE moves == Move({u}, c)
  <2>3. \A t \in Tasks : moves[t] = IF t = u THEN c ELSE "none"
    BY DEF Move
  <2>4. moves \in Moves
    BY MoveType DEF BacklogCauses
  <2>5. PICK counted : pending' = ThenBacklog("finishRun", moves, counted)
    BY <2>2
  <2>6. BacklogSettles'
    <3>. HIDE DEF u, gone, moves
    <3>. QED BY <1>1, <1>2, <1>3, <1>4, <2>1, <2>3, <2>4, <2>5, EndThenMove
  <2>7. pending' # NoPending
    BY <2>2, PendingParts
  <2>. QED BY <2>6, <2>7
<1>5. CASE task[u].status \notin Live
  <2>1. pending' = NoPending
    BY <1>5 DEF FinishRunFailure
  <2>2. task[u].status \in Completed
    BY <1>1, <1>5, AgreeingTask DEF Active
  <2>3. ASSUME NEW t \in Tasks PROVE Agree(t)'
    <3>1. CASE t = u
      BY <1>1, <2>2, <3>1 DEF Agree
    <3>2. CASE t # u
      <4>1. ActiveOn(t)' = ActiveOn(t) /\ \A q \in ActiveOn(t) : claim'[q] = claim[q]
        <5>1. ActiveOn(t) \cap gone = {}
          BY <1>3, <3>2
        <5>. HIDE DEF gone
        <5>2. ActiveOn(t)' = ActiveOn(t) \ gone /\ \A q \in ActiveOn(t)' : claim'[q] = claim[q]
          BY <1>2, EndingClaims
        <5>. QED BY <5>1, <5>2
      <4>. QED BY <1>1, <4>1, AgreeKept
    <3>. QED BY <3>1, <3>2
  <2>. QED BY <2>1, <2>3, PendingParts DEF BacklogSettles
<1>. QED BY <1>4, <1>5

\* The start of a run, from a state that agrees: its task is claimed and the
\* store accepts the start, or merged and the store refuses it.
LEMMA StartSettles ==
    ASSUME Inv, \A t \in Tasks : Agree(t), NEW r \in Runs, StartRun(r)
    PROVE  BacklogSettles'
<1>. USE DEF Inv
<1>0. Active(r) /\ claim[r].task \in Tasks /\ task' = task
  BY ActiveNamesTask DEF StartRun, Active, Live
<1>a. PICK u : u = claim[r].task
  OBVIOUS
<1>b. PICK moves : moves = Move({u}, "run_start")
  OBVIOUS
<1>1. Active(r) /\ claim[r].task = u /\ u \in Tasks /\ task' = task
  BY <1>0, <1>a
<1>2. /\ \A q \in Runs \ {r} : claim'[q] = claim[q]
      /\ claim'[r].state = "in_progress" /\ claim'[r].task = u
  <2>1. claim \in [Runs -> ClaimRows]
    BY DEF TypeOK
  <2>. QED BY <1>1, <2>1 DEF StartRun
<1>3. \A t \in Tasks : ActiveOn(t)' = ActiveOn(t)
  BY <1>1, <1>2 DEF ActiveOn, Active, Live
<1>4. pending'.db = "tasks" /\ pending'.moves = moves
  BY <1>a, <1>b, PendingParts DEF StartRun
<1>5. \A t \in Tasks : moves[t] = IF t = u THEN "run_start" ELSE "none"
  BY <1>b DEF Move
<1>6. \A t \in Tasks : t # u => Agree(t)' /\ StatusAfter(moves, t)' = task[t].status
  <2>1. SUFFICES ASSUME NEW t \in Tasks, t # u
                 PROVE  Agree(t)' /\ StatusAfter(moves, t)' = task[t].status
    OBVIOUS
  <2>2. \A q \in ActiveOn(t) : claim'[q].state = claim[q].state
    BY <1>1, <1>2, <2>1 DEF ActiveOn
  <2>3. Agree(t)'
    BY <1>1, <1>3, <2>2, AgreeKept
  <2>4. StatusAfter(moves, t)' = task[t].status
    BY <1>1, <1>5, <2>1 DEF StatusAfter
  <2>. QED BY <2>3, <2>4
<1>7. StatusAfter(moves, u)' = "in_progress"
  BY <1>1, <1>5 DEF StatusAfter, StatusFor
<1>8. CASE task[u].status \in Completed
  <2>1. Agree(u)'
    BY <1>1, <1>8 DEF Agree
  <2>2. ~Accepted(moves)'
    BY <1>1, <1>5, <1>7, <1>8 DEF Accepted, canTransitionTaskStatus, Completed
  <2>. QED BY <1>4, <1>6, <2>1, <2>2 DEF BacklogSettles
<1>9. CASE task[u].status \notin Completed
  <2>1. ActiveOn(u) = {r} /\ task[u].status = "claimed"
    BY <1>1, <1>9, AgreeingTask DEF StartRun
  <2>2. Accepted(moves)'
    BY <1>1, <1>5, <1>6, <1>7, <2>1 DEF Accepted, canTransitionTaskStatus
  <2>3. ASSUME NEW t \in Tasks
        PROVE  Consistent(StatusAfter(moves, t), t)'
    <3>1. CASE t = u
      BY <1>2, <1>3, <1>7, <2>1, <3>1 DEF Consistent, Live
    <3>2. CASE t # u
      <4>1. Agree(t)' /\ StatusAfter(moves, t)' = task'[t].status
        BY <1>1, <1>6, <3>2
      <4>. QED BY <4>1 DEF Consistent, Agree
    <3>. QED BY <3>1, <3>2
  <2>. QED BY <1>4, <2>2, <2>3 DEF BacklogSettles
<1>. QED BY <1>8, <1>9

\* What reconcileState leaves of a task, from any state, once the claims it
\* orphans are failed.
LEMMA ReconcileOutcome ==
    ASSUME Inv, StartedClaimFirst, NEW t \in Tasks
    PROVE  LET status == StatusAfter(ReconcileMoves, t)
               orphans == {r \in Runs : Orphaned(r)} IN
           \/ status \in Completed
           \/ /\ status \in Live /\ ActiveOn(t) \cap orphans = {}
              /\ \E r \in ActiveOn(t) : ActiveOn(t) = {r} /\ claim[r].state = status
           \/ /\ status \in {"todo", "blocked", "cancelled"}
              /\ ActiveOn(t) \subseteq orphans
<1>. USE DEF Inv
<1>a. task[t].status \in Statuses
  BY DEF TypeOK, TaskRows
<1>1. CASE ActiveOn(t) = {}
  <2>1. StatusAfter(ReconcileMoves, t) \notin Live
    BY <1>1 DEF StatusAfter, StatusFor, ReconcileMoves, Live
  <2>2. StatusAfter(ReconcileMoves, t) \in Statuses
    BY <1>a, StatusForType DEF StatusAfter
  <2>. QED BY <1>1, <2>1, <2>2 DEF Statuses, Live, Completed
<1>2. CASE ActiveOn(t) # {}
  <2>1. PICK r \in ActiveOn(t) : ActiveOn(t) = {r}
    BY <1>2 DEF ActiveOn, OneActiveClaimPerTask
  <2>2. r \in Runs /\ Active(r) /\ claim[r].task = t
    BY DEF ActiveOn
  <2>3. Winner(r)
    BY <2>1, <2>2 DEF Winner, Runs
  <2>4. task[t].status = "in_progress" => claim[r].state = "in_progress"
    BY DEF StartedClaimFirst
  <2>5. CASE task[t].status \in Live
    <3>1. ~Orphaned(r)
      BY <2>2, <2>3, <2>4, <2>5 DEF Orphaned, Active, Live
    <3>2. StatusAfter(ReconcileMoves, t) = claim[r].state
      <4>1. ReconcileMoves[t] = IF task[t].status = "claimed" /\ claim[r].state = "in_progress"
                                THEN "run_start" ELSE "none"
        BY <2>1, <2>3 DEF ReconcileMoves
      <4>2. claim[r].state \in Live
        BY <2>2 DEF Active
      <4>. QED BY <2>4, <2>5, <4>1, <4>2 DEF StatusAfter, StatusFor, Live
    <3>. QED BY <2>1, <2>2, <3>1, <3>2 DEF Active
  <2>6. CASE task[t].status \notin Live
    <3>1. StatusAfter(ReconcileMoves, t) = task[t].status
      BY <2>6 DEF StatusAfter, ReconcileMoves, Live
    <3>2. task[t].status \in Completed \/ Orphaned(r)
      BY <2>2, <2>6 DEF Orphaned, Active, Live
    <3>. QED BY <1>a, <2>1, <2>2, <2>6, <3>1, <3>2 DEF Statuses, Live, Completed
  <2>. QED BY <2>5, <2>6
<1>. QED BY <1>1, <1>2

\* Without a second commit there is nothing left to settle.
LEMMA NothingPending ==
    ASSUME pending' = NoPending
    PROVE  PendingShape' /\ BacklogSettles' /\ ClaimSettles' /\ ReconcileSettles' /\ ResetSettles'
BY PendingParts
   DEF PendingShape, Idle, BacklogSettles, ClaimSettles, ReconcileSettles, ResetSettles

\* The first commit of every operation leaves a second one that settles.
LEMMA NextPendingSettles ==
    ASSUME Inv, Settling, [Next]_vars
    PROVE  PendingShape' /\ BacklogSettles' /\ ClaimSettles' /\ ReconcileSettles' /\ ResetSettles'
<1>. DEFINE Goal == /\ PendingShape' /\ BacklogSettles' /\ ClaimSettles'
                    /\ ReconcileSettles' /\ ResetSettles'
<1>. USE DEF Inv
<1>a. Idle /\ ~dirty => \A t \in Tasks : Agree(t)
  BY DEF Settling, SettledAgreement
<1>b. ASSUME dirty' = dirty, ~dirty => BacklogSettles', pending'.db = "tasks",
             pending'.op \notin {"none", "claimTask", "reconcile", "sessionReset"}
      PROVE  Goal
  <2>1. BacklogSettles'
    BY <1>b DEF BacklogSettles
  <2>. QED BY <1>b, <2>1 DEF PendingShape, ClaimSettles, ReconcileSettles, ResetSettles
<1>1. CASE pending' = NoPending
  BY <1>1, NothingPending
<1>2. CASE UNCHANGED vars
  BY <1>2 DEF vars, Settling, PendingShape, Idle, BacklogSettles, ClaimSettles, ReconcileSettles,
     ResetSettles, Accepted, Consistent, StatusAfter, Agree, ActiveOn, Active
<1>3. ASSUME NEW u \in Tasks, NEW a \in Agents, NEW r \in Runs, ClaimTask(u, a, r)
      PROVE  Goal
  <2>1. /\ pending'.create = r /\ pending'.op = "claimTask" /\ pending'.db = "claims"
        /\ pending'.fail = {}
    BY <1>3, PendingParts DEF ClaimTask
  <2>2. bound'[r].task = u
    BY <1>3 DEF ClaimTask, BindRun
  <2>3. \A t \in Tasks : t # u /\ Agree(t) => Agree(t)'
    <3>1. claim' = claim /\ \A t \in Tasks : t # u => task'[t].status = task[t].status
      BY <1>3 DEF ClaimTask, BindRun, TypeOK
    <3>. QED BY <3>1 DEF Agree, ActiveOn, Active
  <2>4. ClaimSettles'
    BY <1>a, <1>3, <2>1, <2>2, <2>3 DEF ClaimTask, ClaimSettles
  <2>. QED BY <2>1, <2>4 DEF PendingShape, BacklogSettles, ReconcileSettles, ResetSettles
<1>4. ASSUME NEW r \in Runs, StartRun(r) PROVE Goal
  <2>1. dirty' = dirty /\ Idle /\ pending'.db = "tasks" /\ pending'.op = "startRun"
    BY <1>4, PendingParts DEF StartRun
  <2>. QED BY <1>a, <1>b, <1>4, <2>1, StartSettles
<1>5. ASSUME NEW r \in Runs, NEW policy \in FailurePolicies, FinishRunFailure(r, policy)
      PROVE  Goal
  <2>1. dirty' = dirty /\ Idle
    BY <1>5 DEF FinishRunFailure
  <2>2. \/ pending' = NoPending
        \/ \E moves, counted : pending' = ThenBacklog("finishRun", moves, counted)
    BY <1>5 DEF FinishRunFailure, FailurePolicies
  <2>3. pending' = NoPending \/ (pending'.db = "tasks" /\ pending'.op = "finishRun")
    BY <2>2, PendingParts
  <2>. QED BY <1>a, <1>b, <1>1, <1>5, <2>1, <2>3, FailureSettles
<1>6. CASE \/ \E r \in Runs : expireRun(r)
           \/ \E t \in Tasks : cancelTask(t) \/ resetTask(t)
           \/ expireLeases \/ killAll
  <2>1. dirty' = dirty /\ Idle
    BY <1>6 DEF expireRun, cancelTask, resetTask, expireLeases, killAll
  <2>2. \E op \in {"expireRun", "cancelTask", "resetTask", "expireLeases", "killAll"} :
            \E moves, counted : pending' = ThenBacklog(op, moves, counted)
    BY <1>6 DEF expireRun, cancelTask, resetTask, expireLeases, killAll
  <2>3. /\ pending'.db = "tasks"
        /\ pending'.op \in {"expireRun", "cancelTask", "resetTask", "expireLeases", "killAll"}
    BY <2>2, PendingParts
  <2>. QED BY <1>a, <1>b, <1>6, <2>1, <2>3, EndingOpsSettle
<1>7. CASE reconcileState /\ pending' # NoPending
  <2>. DEFINE orphans == {r \in Runs : Orphaned(r)}
  <2>1. pending' = ThenFail("reconcile", orphans) /\ claim' = claim
    BY <1>7 DEF reconcileState
  <2>2. /\ pending'.op = "reconcile" /\ pending'.db = "claims" /\ pending'.create = NoRun
        /\ pending'.fail = orphans
    BY <2>1, PendingParts
  <2>3. \A t \in Tasks : task'[t].status = StatusAfter(ReconcileMoves, t) /\ ActiveOn(t)' = ActiveOn(t)
    BY <1>7, <2>1 DEF reconcileState, commitBacklog, TaskAfter, ActiveOn, Active
  <2>4. ReconcileSettles'
    <3>1. \A t \in Tasks :
              LET status == task'[t].status IN
              \/ status \in Completed
              \/ /\ status \in Live /\ ActiveOn(t)' \cap orphans = {}
                 /\ \E r \in ActiveOn(t)' : ActiveOn(t)' = {r} /\ claim'[r].state = status
              \/ /\ status \in {"todo", "blocked", "cancelled"}
                 /\ ActiveOn(t)' \subseteq orphans
      <4>. HIDE DEF orphans
      <4>. SUFFICES ASSUME NEW t \in Tasks
                    PROVE  LET status == task'[t].status IN
                           \/ status \in Completed
                           \/ /\ status \in Live /\ ActiveOn(t)' \cap orphans = {}
                              /\ \E r \in ActiveOn(t)' : ActiveOn(t)' = {r} /\ claim'[r].state = status
                           \/ /\ status \in {"todo", "blocked", "cancelled"}
                              /\ ActiveOn(t)' \subseteq orphans
        OBVIOUS
      <4>. QED BY <2>1, <2>3, ReconcileOutcome DEF Settling, orphans
    <3>. HIDE DEF orphans
    <3>. QED BY <2>2, <3>1 DEF ReconcileSettles
  <2>. QED BY <2>2, <2>4 DEF PendingShape, BacklogSettles, ClaimSettles, ResetSettles
<1>8. CASE sessionReset
  <2>. DEFINE all == {r \in Runs : Active(r)}
              held == {t \in Tasks : task[t].status \in Live}
  <2>1. /\ pending'.op = "sessionReset" /\ pending'.db = "claims" /\ pending'.create = NoRun
        /\ pending'.fail = all
    BY <1>8, PendingParts DEF sessionReset
  <2>2. ASSUME NEW t \in Tasks
        PROVE  task'[t].status \notin Live /\ ActiveOn(t)' \subseteq all
    <3>1. task'[t].status = StatusAfter(Move(held, "failure_requeue"), t) /\ claim' = claim
      BY <1>8 DEF sessionReset, commitBacklog, TaskAfter
    <3>2. StatusAfter(Move(held, "failure_requeue"), t) \notin Live
      BY DEF StatusAfter, StatusFor, Move, Live
    <3>. QED BY <3>1, <3>2 DEF ActiveOn, Active
  <2>. HIDE DEF all
  <2>. QED BY <2>1, <2>2 DEF PendingShape, BacklogSettles, ClaimSettles, ReconcileSettles, ResetSettles
<1>9. ASSUME Idle, pending' = pending PROVE Goal
  BY <1>1, <1>9 DEF Idle
<1>. QED BY <1>1, <1>2, <1>3, <1>4, <1>5, <1>6, <1>7, <1>8, <1>9
         DEF Next, ClaimAbandoned, RenewLease, RequestInput, AnswerInput, FinishRunSuccess,
             LeaseRunsDown, InputWaitRunsOut, unblockTask, markTaskDone, delegateTask,
             CommitBacklog, BacklogRejected, CommitClaims, Interrupted

\* StartedClaimFirst is preserved.
LEMMA NextStarted == Inv /\ Settling /\ [Next]_vars => StartedClaimFirst'
<1>. SUFFICES ASSUME Inv, Settling, [Next]_vars, NEW t \in Tasks, NEW r \in ActiveOn(t)',
                     \/ task'[t].status = "in_progress"
                     \/ pending'.db = "tasks" /\ pending'.moves[t] = "run_start"
              PROVE  claim'[r].state = "in_progress"
  BY DEF StartedClaimFirst
<1>. USE DEF Inv
<1>a. r \in Runs /\ Active(r)' /\ claim'[r].task = t /\ claim'[r].state # "absent"
  BY DEF ActiveOn, Active, Live
<1>b. CASE CommitClaims /\ r = pending.create
  <2>1. task'[t].status = "claimed" /\ pending'.db = "none"
    BY <1>a, <1>b, PendingParts DEF CommitClaims, NewClaim, ClaimInFlight
  <2>. QED BY <2>1
<1>c. ASSUME ~(CommitClaims /\ r = pending.create)
      PROVE  r \in ActiveOn(t)
  BY <1>a, <1>c, ClaimsKept DEF ActiveOn
\* No step but StartRun changes the state of a claim that stays active.
<1>d. ASSUME ~(CommitClaims /\ r = pending.create), claim[r].state = "in_progress"
      PROVE  claim'[r].state = "in_progress"
  <2>1. claim \in [Runs -> ClaimRows] /\ claim'[r].state \in Live
    BY <1>a DEF TypeOK, Active
  <2>2. \A s \in {"done", "failed"} : claim'[r] # Ended(claim[r], s)
    BY <2>1 DEF Ended, Live
  <2>3. claim'[r] # NoClaim
    BY <1>a DEF NoClaim
  <2>4. ASSUME NEW q \in Runs,
               \/ StartRun(q) \/ RenewLease(q) \/ RequestInput(q) \/ AnswerInput(q)
               \/ LeaseRunsDown(q) \/ InputWaitRunsOut(q)
               \/ FinishRunSuccess(q) \/ expireRun(q)
               \/ \E policy \in FailurePolicies : FinishRunFailure(q, policy)
        PROVE  claim'[r].state = "in_progress"
    BY <1>a, <1>d, <2>1, <2>2, <2>4
       DEF StartRun, RenewLease, RequestInput, AnswerInput, LeaseRunsDown, InputWaitRunsOut,
           FinishRunSuccess, expireRun, FinishRunFailure, Failed, ClaimRows, NoClaim
  <2>5. CASE expireLeases \/ killAll \/ \E u \in Tasks : cancelTask(u) \/ resetTask(u)
    BY <1>a, <1>d, <2>2, <2>3, <2>5 DEF expireLeases, killAll, cancelTask, resetTask, Failed
  <2>6. CASE CommitClaims
    BY <1>a, <1>d, <2>2, <2>6 DEF CommitClaims, Failed
  <2>. QED BY <1>d, <2>4, <2>5, <2>6
       DEF Next, vars, ClaimTask, ClaimAbandoned, unblockTask, markTaskDone, delegateTask,
           reconcileState, sessionReset, CommitBacklog, BacklogRejected, Interrupted
<1>1. CASE \E q \in Runs : StartRun(q)
  <2>1. PICK q \in Runs : StartRun(q)
    BY <1>1
  <2>2. CASE q = r
    BY <1>a, <2>1, <2>2 DEF StartRun, TypeOK
  <2>3. CASE q # r
    <3>1. claim'[r] = claim[r] /\ ~CommitClaims /\ r \in ActiveOn(t)
      BY <1>a, <2>1, <2>3, PendingParts DEF StartRun, TypeOK, CommitClaims, Idle, ActiveOn, Active
    <3>2. claim[q].task # t
      BY <2>1, <2>3, <3>1 DEF OneActiveClaimPerTask, ActiveOn, StartRun, Active, Live
    <3>3. pending'.moves[t] # "run_start"
      BY <2>1, <3>2, PendingParts DEF StartRun, Move
    <3>4. task[t].status = "in_progress"
      BY <2>1, <3>3 DEF StartRun
    <3>. QED BY <3>1, <3>4 DEF Settling, StartedClaimFirst
  <2>. QED BY <2>2, <2>3
<1>2. ASSUME ~(CommitClaims /\ r = pending.create), task[t].status = "in_progress"
      PROVE  claim'[r].state = "in_progress"
  BY <1>c, <1>d, <1>2 DEF Settling, StartedClaimFirst
<1>3. ASSUME CommitBacklog, task'[t].status = "in_progress"
      PROVE  claim'[r].state = "in_progress"
  <2>1. ~(CommitClaims /\ r = pending.create)
    BY <1>3 DEF CommitBacklog, CommitClaims
  <2>2. task[t].status = "in_progress" \/ pending.moves[t] = "run_start"
    BY <1>3 DEF CommitBacklog, commitBacklog, TaskAfter, StatusAfter, StatusFor
  <2>. QED BY <1>c, <1>d, <1>3, <2>1, <2>2 DEF CommitBacklog, Settling, StartedClaimFirst
<1>4. ASSUME reconcileState, task'[t].status = "in_progress"
      PROVE  claim'[r].state = "in_progress"
  <2>1. claim' = claim /\ ~(CommitClaims /\ r = pending.create)
    BY <1>4, PendingParts DEF reconcileState, CommitClaims, Idle
  <2>2. task[t].status = "in_progress" \/ ReconcileMoves[t] = "run_start"
    BY <1>4 DEF reconcileState, commitBacklog, TaskAfter, StatusAfter, StatusFor
  <2>3. ReconcileMoves[t] = "run_start" => \E q \in ActiveOn(t) : claim[q].state = "in_progress"
    BY DEF ReconcileMoves
  <2>4. \A q \in ActiveOn(t) : q = r
    BY <1>c, <2>1 DEF ActiveOn, OneActiveClaimPerTask
  <2>. QED BY <1>2, <2>1, <2>2, <2>3, <2>4
<1>5. ASSUME NEW moves, NEW counted, NEW c \in {"failure_requeue", "unblock", "merge_succeeded"},
             NEW ts, moves = Move(ts, c), commitBacklog(moves, counted),
             task'[t].status = "in_progress"
      PROVE  task[t].status = "in_progress"
  BY <1>5 DEF commitBacklog, TaskAfter, StatusAfter, StatusFor, Move
<1>6. CASE ClaimAbandoned \/ sessionReset \/ \E u \in Tasks : unblockTask(u) \/ markTaskDone(u)
  <2>1. PICK c \in {"failure_requeue", "unblock", "merge_succeeded"} :
            \E ts : commitBacklog(Move(ts, c), {})
    BY <1>6 DEF ClaimAbandoned, sessionReset, unblockTask, markTaskDone
  <2>2. pending'.db # "tasks"
    <3>1. CASE ClaimAbandoned
      BY <3>1, PendingParts DEF ClaimAbandoned
    <3>2. CASE sessionReset
      BY <3>2, PendingParts DEF sessionReset
    <3>3. CASE \E u \in Tasks : unblockTask(u) \/ markTaskDone(u)
      BY <3>3, PendingParts DEF unblockTask, markTaskDone, Idle
    <3>. QED BY <1>6, <3>1, <3>2, <3>3
  <2>3. task[t].status = "in_progress"
    BY <1>5, <2>1, <2>2
  <2>4. claim' = claim
    BY <1>6 DEF ClaimAbandoned, sessionReset, unblockTask, markTaskDone
  <2>5. ~(CommitClaims /\ r = pending.create)
    BY <1>a, <2>4 DEF ClaimInFlight
  <2>. QED BY <1>2, <2>3, <2>5
<1>7. ASSUME NEW u \in Tasks,
             \/ \E a \in Agents, q \in Runs : ClaimTask(u, a, q)
             \/ \E a \in Agents \cup {NoAgent} : delegateTask(u, a)
      PROVE  claim'[r].state = "in_progress"
  <2>1. pending'.db # "tasks"
    BY <1>7, PendingParts DEF ClaimTask, delegateTask, Idle
  <2>2. task[t].status = "in_progress"
    BY <1>7, <2>1 DEF ClaimTask, BindRun, delegateTask, TypeOK, TaskRows
  <2>3. ~CommitClaims
    BY <1>7, PendingParts DEF ClaimTask, delegateTask, Idle, CommitClaims
  <2>. QED BY <1>2, <2>2, <2>3
<1>8. ASSUME task' = task, pending'.db = "tasks" => pending'.moves[t] # "run_start"
      PROVE  claim'[r].state = "in_progress"
  BY <1>b, <1>2, <1>8
<1>9. ASSUME NEW q \in Runs,
             expireRun(q) \/ \E policy \in FailurePolicies : FinishRunFailure(q, policy)
      PROVE  claim'[r].state = "in_progress"
  <2>. DEFINE u == claim[q].task
  <2>1. \/ pending' = NoPending
        \/ \E c \in {"failure_requeue", "failure_block"} : \E op, counted :
              pending' = ThenBacklog(op, Move({u}, c), counted)
    <3>1. CASE expireRun(q)
      BY <3>1 DEF expireRun
    <3>2. ASSUME NEW policy \in FailurePolicies, FinishRunFailure(q, policy),
                 task[u].status \in Live
          PROVE  \E c \in {"failure_requeue", "failure_block"} : \E counted :
                     pending' = ThenBacklog("finishRun", Move({u}, c), counted)
      BY <3>2 DEF FinishRunFailure, FailurePolicies, CountedCause
    <3>3. ASSUME NEW policy \in FailurePolicies, FinishRunFailure(q, policy),
                 task[u].status \notin Live
          PROVE  pending' = NoPending
      BY <3>3 DEF FinishRunFailure
    <3>. QED BY <1>9, <3>1, <3>2, <3>3
  <2>2. pending'.db = "tasks" => pending'.moves[t] # "run_start"
    <3>1. CASE pending' = NoPending
      BY <3>1, PendingParts
    <3>2. ASSUME NEW c \in {"failure_requeue", "failure_block"}, NEW op, NEW counted,
                 pending' = ThenBacklog(op, Move({u}, c), counted)
          PROVE  pending'.moves[t] # "run_start"
      <4>1. pending'.moves = Move({u}, c)
        BY <3>2, PendingParts
      <4>. QED BY <4>1 DEF Move
    <3>. QED BY <2>1, <3>1, <3>2
  <2>. QED BY <1>8, <1>9, <2>2 DEF expireRun, FinishRunFailure
<1>10. CASE killAll \/ \E u \in Tasks : cancelTask(u) \/ resetTask(u)
  <2>1. \E op, counted, ts : \E c \in {"operator_reset", "cancel"} :
            pending' = ThenBacklog(op, Move(ts, c), counted)
    BY <1>10 DEF killAll, cancelTask, resetTask
  <2>2. pending'.moves[t] # "run_start"
    BY <2>1, PendingParts DEF Move
  <2>. QED BY <1>8, <1>10, <2>2 DEF killAll, cancelTask, resetTask
<1>11. CASE expireLeases
  <2>. DEFINE gone == {q \in Runs : Expired(q)}
              hit  == {u \in Tasks : task[u].status \in Live /\ \E q \in gone : claim[q].task = u}
              moves == [u \in Tasks |-> IF u \in hit THEN CountedCause(u) ELSE "none"]
  <2>1. pending' = ThenBacklog("expireLeases", moves, hit)
    BY <1>11 DEF expireLeases
  <2>2. pending'.moves[t] # "run_start"
    BY <2>1, PendingParts DEF CountedCause
  <2>. QED BY <1>8, <1>11, <2>2 DEF expireLeases
<1>12. CASE BacklogRejected \/ CommitClaims \/ Interrupted
  BY <1>8, <1>12, PendingParts DEF BacklogRejected, CommitClaims, Interrupted
<1>13. CASE \E q \in Runs : \/ RenewLease(q) \/ RequestInput(q) \/ AnswerInput(q)
                            \/ LeaseRunsDown(q) \/ InputWaitRunsOut(q) \/ FinishRunSuccess(q)
  BY <1>8, <1>13, PendingParts DEF Idle, RenewLease, RequestInput, AnswerInput, LeaseRunsDown,
     InputWaitRunsOut, FinishRunSuccess
<1>14. CASE UNCHANGED vars
  <2>1. r \in ActiveOn(t)
    BY <1>14 DEF vars, ActiveOn, Active
  <2>. QED BY <1>14, <2>1 DEF vars, Settling, StartedClaimFirst
<1>15. CASE CommitBacklog
  BY <1>3, <1>15, PendingParts DEF CommitBacklog
<1>16. CASE reconcileState
  <2>1. pending'.db # "tasks"
    BY <1>16, PendingParts DEF reconcileState
  <2>. QED BY <1>4, <1>16, <2>1
<1>. QED BY <1>1, <1>6, <1>7, <1>9, <1>10, <1>11, <1>12, <1>13, <1>14, <1>15, <1>16 DEF Next

\* The second commit of an operation settles what its first commit began.
LEMMA SecondCommitAgrees ==
    ASSUME Inv, Settling, ~dirty', NEW t \in Tasks,
           ClaimAbandoned \/ CommitBacklog \/ BacklogRejected \/ CommitClaims
    PROVE  Agree(t)'
<1>. USE DEF Inv
<1>1. CASE CommitBacklog
  <2>1. Consistent(StatusAfter(pending.moves, t), t)
    BY <1>1 DEF CommitBacklog, Settling, BacklogSettles
  <2>2. task'[t].status = StatusAfter(pending.moves, t) /\ claim' = claim
    BY <1>1 DEF CommitBacklog, commitBacklog, TaskAfter
  <2>. QED BY <2>1, <2>2 DEF Consistent, Agree, ActiveOn, Active
<1>2. CASE BacklogRejected
  <2>1. Agree(t) /\ task' = task /\ claim' = claim
    BY <1>2 DEF BacklogRejected, Settling, BacklogSettles
  <2>. QED BY <2>1 DEF Agree, ActiveOn, Active
<1>3. CASE pending.op = "claimTask" /\ (ClaimAbandoned \/ CommitClaims)
  <2>. DEFINE c == pending.create
              u == bound[c].task
  <2>1. c \in Runs /\ pending.fail = {}
    BY <1>3, PendingParts DEF Settling, PendingShape, Idle
  <2>2. /\ u \in Tasks /\ task[u].status = "claimed" /\ ActiveOn(u) = {}
        /\ claim[c].state = "absent"
    BY <2>1, ActiveNamesTask DEF ClaimInFlight
  <2>3. t # u => Agree(t)
    BY <1>3 DEF ClaimAbandoned, CommitClaims, Settling, ClaimSettles
  <2>4. CASE ClaimAbandoned
    <3>1. /\ claim' = claim
          /\ task'[t].status = StatusAfter(Move({u}, "failure_requeue"), t)
      BY <2>4 DEF ClaimAbandoned, commitBacklog, TaskAfter
    <3>2. task'[t].status = IF t = u THEN "todo" ELSE task[t].status
      BY <3>1 DEF StatusAfter, StatusFor, Move
    <3>. HIDE DEF u
    <3>. QED BY <2>2, <2>3, <3>1, <3>2 DEF Agree, ActiveOn, Active
  <2>5. CASE CommitClaims
    <3>1. /\ task' = task
          /\ \A r \in Runs : claim'[r] = IF r = c THEN NewClaim(c) ELSE claim[r]
      BY <2>1, <2>5 DEF CommitClaims
    <3>2. NewClaim(c).state = "claimed" /\ NewClaim(c).task = u
      BY DEF NewClaim
    <3>. HIDE DEF u, c
    <3>3. \A r \in ActiveOn(t) : r # c
      BY <2>2 DEF ActiveOn, Active, Live
    <3>4. CASE t = u
      <4>1. ActiveOn(t)' = {c}
        BY <2>1, <2>2, <3>1, <3>2, <3>4 DEF ActiveOn, Active, Live
      <4>. QED BY <2>1, <2>2, <3>1, <3>2, <3>4, <4>1 DEF Agree, Live
    <3>5. CASE t # u
      <4>1. ActiveOn(t)' = ActiveOn(t)
        BY <2>1, <2>2, <3>1, <3>2, <3>5 DEF ActiveOn, Active, Live
      <4>2. \A r \in ActiveOn(t) : claim'[r].state = claim[r].state
        BY <3>1, <3>3 DEF ActiveOn
      <4>. QED BY <2>3, <3>1, <3>5, <4>1, <4>2, AgreeKept
    <3>. QED BY <3>4, <3>5
  <2>. QED BY <1>3, <2>4, <2>5
<1>4. CASE pending.op # "claimTask" /\ CommitClaims
  <2>. DEFINE gone == pending.fail
  <2>1. pending.op \in {"reconcile", "sessionReset"} /\ pending.create = NoRun
    BY <1>4, PendingParts DEF CommitClaims, Settling, PendingShape, Idle
  <2>2. /\ task' = task
        /\ \A r \in Runs : IF r \in gone THEN claim'[r].state \notin Live ELSE claim'[r] = claim[r]
    BY <1>4, <2>1, PendingParts, EndedNotLive DEF CommitClaims
  <2>3. /\ pending.op = "reconcile" =>
              \/ task[t].status \in Completed
              \/ /\ task[t].status \in Live /\ ActiveOn(t) \cap gone = {}
                 /\ \E r \in ActiveOn(t) : ActiveOn(t) = {r} /\ claim[r].state = task[t].status
              \/ /\ task[t].status \in {"todo", "blocked", "cancelled"}
                 /\ ActiveOn(t) \subseteq gone
        /\ pending.op = "sessionReset" => task[t].status \notin Live /\ ActiveOn(t) \subseteq gone
    BY DEF Settling, ReconcileSettles, ResetSettles
  <2>. HIDE DEF gone
  <2>4. /\ ActiveOn(t)' = ActiveOn(t) \ gone
        /\ \A r \in ActiveOn(t)' : claim'[r] = claim[r]
    BY <2>2, EndingClaims
  <2>5. task[t].status \in Statuses
    BY DEF TypeOK, TaskRows
  <2>6. CASE ActiveOn(t) \subseteq gone /\ task[t].status \notin Live
    <3>1. ActiveOn(t)' = {}
      BY <2>4, <2>6
    <3>. QED BY <2>2, <2>5, <2>6, <3>1 DEF Agree, Statuses, Live, Completed
  <2>7. CASE task[t].status \in Completed
    BY <2>2, <2>7 DEF Agree
  <2>8. CASE /\ task[t].status \in Live /\ ActiveOn(t) \cap gone = {}
             /\ \E r \in ActiveOn(t) : ActiveOn(t) = {r} /\ claim[r].state = task[t].status
    <3>1. ActiveOn(t)' = ActiveOn(t)
      BY <2>4, <2>8
    <3>. QED BY <2>2, <2>4, <2>8, <3>1 DEF Agree
  <2>. QED BY <2>1, <2>3, <2>6, <2>7, <2>8 DEF Live
<1>. QED BY <1>1, <1>2, <1>3, <1>4 DEF ClaimAbandoned

\* An operation of a single commit keeps tasks and claims in agreement.
LEMMA SingleCommitAgrees ==
    ASSUME Inv, NEW t \in Tasks, Agree(t),
           \/ \E r \in Runs : \/ RenewLease(r) \/ RequestInput(r) \/ AnswerInput(r)
                              \/ LeaseRunsDown(r) \/ InputWaitRunsOut(r) \/ FinishRunSuccess(r)
           \/ \E u \in Tasks : \/ unblockTask(u) \/ markTaskDone(u)
                               \/ \E a \in Agents \cup {NoAgent} : delegateTask(u, a)
    PROVE  Agree(t)'
<1>. USE DEF Inv
<1>1. ASSUME NEW r \in Runs, \/ RenewLease(r) \/ RequestInput(r) \/ AnswerInput(r)
                             \/ LeaseRunsDown(r) \/ InputWaitRunsOut(r)
      PROVE  Agree(t)'
  <2>1. task' = task /\ claim \in [Runs -> ClaimRows] /\ Active(r)
    BY <1>1 DEF TypeOK, RenewLease, RequestInput, AnswerInput, LeaseRunsDown, InputWaitRunsOut
  <2>2. claim[r] \in [state : {"claimed", "in_progress", "done", "failed"},
                      task : Tasks, agent : Agents,
                      lease : {"live", "due", "past"}, input : {"none", "waiting", "overdue"}]
    BY <2>1 DEF ClaimRows, NoClaim, Active, Live
  <2>3. \A q \in Runs : claim'[q].state = claim[q].state /\ claim'[q].task = claim[q].task
    BY <1>1, <2>1, <2>2
       DEF RenewLease, RequestInput, AnswerInput, LeaseRunsDown, InputWaitRunsOut
  <2>4. ActiveOn(t)' = ActiveOn(t) /\ \A q \in ActiveOn(t) : claim'[q].state = claim[q].state
    BY <2>3 DEF ActiveOn, Active
  <2>. QED BY <2>1, <2>4, AgreeKept
<1>2. ASSUME NEW r \in Runs, FinishRunSuccess(r)
      PROVE  Agree(t)'
  <2>1. task' = task /\ task[claim[r].task].status \in Completed
    BY <1>2 DEF FinishRunSuccess
  <2>2. CASE claim[r].task = t
    BY <2>1, <2>2 DEF Agree
  <2>3. CASE claim[r].task # t
    <3>1. \A q \in Runs \ {r} : claim'[q] = claim[q]
      BY <1>2 DEF FinishRunSuccess, TypeOK
    <3>2. claim'[r].state \notin Live /\ r \notin ActiveOn(t)
      BY <1>2, <2>3, EndedNotLive DEF FinishRunSuccess, TypeOK, ActiveOn
    <3>3. ActiveOn(t)' = ActiveOn(t) /\ \A q \in ActiveOn(t) : claim'[q].state = claim[q].state
      BY <3>1, <3>2 DEF ActiveOn, Active
    <3>. QED BY <2>1, <3>3, AgreeKept
  <2>. QED BY <2>2, <2>3
<1>3. ASSUME NEW u \in Tasks, unblockTask(u) \/ markTaskDone(u)
      PROVE  Agree(t)'
  <2>1. PICK c \in {"unblock", "merge_succeeded"} :
            /\ claim' = claim /\ task'[t].status = StatusAfter(Move({u}, c), t)
            /\ IF c = "unblock" THEN task[u].status = "blocked" ELSE task[u].status \in Live
    <3>1. CASE unblockTask(u)
      BY <3>1 DEF unblockTask, commitBacklog, TaskAfter
    <3>2. CASE markTaskDone(u)
      BY <3>2 DEF markTaskDone, commitBacklog, TaskAfter
    <3>. QED BY <1>3, <3>1, <3>2
  <2>2. task'[t].status = IF t # u THEN task[t].status
                          ELSE IF c = "unblock" THEN "todo" ELSE "done"
    BY <2>1 DEF StatusAfter, StatusFor, Move
  <2>3. ActiveOn(t)' = ActiveOn(t)
    BY <2>1 DEF ActiveOn, Active
  <2>. QED BY <2>1, <2>2, <2>3 DEF Agree, Live, Completed
<1>4. ASSUME NEW u \in Tasks, NEW a \in Agents \cup {NoAgent}, delegateTask(u, a)
      PROVE  Agree(t)'
  <2>1. /\ claim' = claim
        /\ task'[t].status = IF t = u /\ task[t].status = "blocked" THEN "todo" ELSE task[t].status
    BY <1>4 DEF delegateTask, TypeOK, TaskRows
  <2>2. ActiveOn(t)' = ActiveOn(t)
    BY <2>1 DEF ActiveOn, Active
  <2>. QED BY <2>1, <2>2 DEF Agree, Live, Completed
<1>. QED BY <1>1, <1>2, <1>3, <1>4

\* SettledAgreement is preserved.
LEMMA NextSettled == Inv /\ Settling /\ [Next]_vars => SettledAgreement'
<1>. SUFFICES ASSUME Inv, Settling, [Next]_vars, pending' = NoPending, ~dirty', NEW t \in Tasks
              PROVE  Agree(t)'
  BY DEF SettledAgreement, Idle
<1>a. Idle /\ ~dirty => \A u \in Tasks : Agree(u)
  BY DEF Settling, SettledAgreement
<1>1. CASE ClaimAbandoned \/ CommitBacklog \/ BacklogRejected \/ CommitClaims
  BY <1>1, SecondCommitAgrees
<1>2. CASE \/ \E r \in Runs : \/ RenewLease(r) \/ RequestInput(r) \/ AnswerInput(r)
                              \/ LeaseRunsDown(r) \/ InputWaitRunsOut(r) \/ FinishRunSuccess(r)
           \/ \E u \in Tasks : \/ unblockTask(u) \/ markTaskDone(u)
                               \/ \E a \in Agents \cup {NoAgent} : delegateTask(u, a)
  <2>0. Idle /\ dirty' = dirty
    BY <1>2 DEF RenewLease, RequestInput, AnswerInput, LeaseRunsDown, InputWaitRunsOut,
       FinishRunSuccess, unblockTask, markTaskDone, delegateTask
  <2>1. Idle /\ ~dirty
    BY <2>0
  <2>. QED BY <1>a, <1>2, <2>1, SingleCommitAgrees
<1>3. ASSUME NEW r \in Runs, NEW policy \in FailurePolicies, FinishRunFailure(r, policy)
      PROVE  Agree(t)'
  BY <1>a, <1>3, FailureSettles DEF FinishRunFailure
<1>4. CASE reconcileState
  <2>. DEFINE orphans == {r \in Runs : Orphaned(r)}
  <2>1. orphans = {}
    BY <1>4, PendingParts DEF reconcileState
  <2>2. task'[t].status = StatusAfter(ReconcileMoves, t) /\ claim' = claim
    BY <1>4 DEF reconcileState, commitBacklog, TaskAfter
  <2>3. ActiveOn(t)' = ActiveOn(t)
    BY <2>2 DEF ActiveOn, Active
  <2>4. StartedClaimFirst
    BY DEF Settling
  <2>. QED BY <2>1, <2>2, <2>3, <2>4, ReconcileOutcome DEF Agree
<1>5. CASE UNCHANGED vars
  BY <1>a, <1>5 DEF vars, Idle, Agree, ActiveOn, Active
<1>6. ASSUME \/ \E u \in Tasks, a \in Agents, r \in Runs : ClaimTask(u, a, r)
             \/ \E r \in Runs : StartRun(r) \/ expireRun(r)
             \/ \E u \in Tasks : cancelTask(u) \/ resetTask(u)
             \/ expireLeases \/ killAll \/ sessionReset
      PROVE  pending'.db # "none"
  <2>1. ASSUME NEW u \in Tasks, NEW a \in Agents, NEW r \in Runs, ClaimTask(u, a, r)
        PROVE  pending'.db = "claims"
    BY <2>1, PendingParts DEF ClaimTask
  <2>2. ASSUME NEW r \in Runs, StartRun(r) \/ expireRun(r)
        PROVE  pending'.db = "tasks"
    BY <2>2, PendingParts DEF StartRun, expireRun
  <2>3. ASSUME NEW u \in Tasks, cancelTask(u) \/ resetTask(u)
        PROVE  pending'.db = "tasks"
    BY <2>3, PendingParts DEF cancelTask, resetTask
  <2>4. ASSUME expireLeases PROVE pending'.db = "tasks"
    BY <2>4, PendingParts DEF expireLeases
  <2>5. ASSUME killAll PROVE pending'.db = "tasks"
    BY <2>5, PendingParts DEF killAll
  <2>6. ASSUME sessionReset PROVE pending'.db = "claims"
    BY <2>6, PendingParts DEF sessionReset
  <2>. QED BY <1>6, <2>1, <2>2, <2>3, <2>4, <2>5, <2>6
<1>7. pending'.db = "none"
  BY PendingParts
<1>8. ~Interrupted
  BY DEF Interrupted
<1>. QED BY <1>1, <1>2, <1>3, <1>4, <1>5, <1>6, <1>7, <1>8 DEF Next

\* Every reachable state settles.
LEMMA SettlingInvariance == Spec => []Settling
<1>1. Init => Settling
  <2>. SUFFICES ASSUME Init PROVE Settling
    OBVIOUS
  <2>1. \A t \in Tasks : ActiveOn(t) = {} /\ task[t].status = "todo"
    BY DEF Init, NoClaim, ActiveOn, Active, Live
  <2>2. pending = NoPending
    BY DEF Init
  <2>3. \A t \in Tasks : Agree(t)
    BY <2>1 DEF Agree
  <2>. QED BY <2>1, <2>2, <2>3, PendingParts
       DEF Settling, PendingShape, Idle, BacklogSettles, ClaimSettles, ReconcileSettles,
           ResetSettles, StartedClaimFirst, SettledAgreement
<1>2. Inv /\ Settling /\ [Next]_vars => Settling'
  BY NextPendingSettles, NextStarted, NextSettled DEF Settling
<1>. QED BY <1>1, <1>2, Invariance, PTL DEF Spec

\* Once no operation is under way, tasks and claims agree, unless a second
\* commit was lost and reconcileState has not completed since: every complete
\* operation of claimManager, claimLeaseManager, operatorMutations, kill-all
\* and sessionState keeps the agreement, and one reconcileState restores it.
THEOREM Agreement == Spec => []SettledAgreement
<1>1. Settling => SettledAgreement
  BY DEF Settling
<1>. QED BY <1>1, SettlingInvariance, PTL

-----------------------------------------------------------------------------
(* A merged task stays merged.                                             *)

\* Apart from an operator's reset of one task, operator_reset (orc kill-all)
\* is only asked for held tasks.
ResetsKnown ==
    \A t \in Tasks :
        pending.db = "tasks" /\ pending.moves[t] = "operator_reset" =>
            pending.op = "resetTask" \/ task[t].status \in Live

\* ResetsKnown is preserved: the lock keeps the task as it is until the commit.
LEMMA NextResetsKnown == Inv /\ ResetsKnown /\ [Next]_vars => ResetsKnown'
<1>. SUFFICES ASSUME Inv, ResetsKnown, [Next]_vars, NEW t \in Tasks, pending'.db = "tasks",
                     pending'.moves[t] = "operator_reset"
              PROVE  pending'.op = "resetTask" \/ task'[t].status \in Live
  BY DEF ResetsKnown
<1>. USE DEF Inv
<1>1. ASSUME pending' = NoPending PROVE FALSE
  BY <1>1, PendingParts
<1>2. ASSUME Idle, pending' = pending PROVE FALSE
  BY <1>1, <1>2 DEF Idle
<1>3. CASE UNCHANGED vars
  BY <1>3 DEF vars, ResetsKnown
<1>4. ASSUME NEW u \in Tasks, NEW a \in Agents, NEW r \in Runs, ClaimTask(u, a, r) PROVE FALSE
  BY <1>4, PendingParts DEF ClaimTask
<1>5. ASSUME NEW r \in Runs, StartRun(r) \/ expireRun(r) PROVE FALSE
  BY <1>5, PendingParts DEF StartRun, expireRun, Move
<1>6. ASSUME NEW r \in Runs, NEW policy \in FailurePolicies, FinishRunFailure(r, policy)
      PROVE  FALSE
  <2>. DEFINE u == claim[r].task
  <2>1. \/ pending' = NoPending
        \/ \E c \in {"failure_requeue", "failure_block"} : \E counted :
              pending' = ThenBacklog("finishRun", Move({u}, c), counted)
    <3>1. CASE task[u].status \in Live
      BY <1>6, <3>1 DEF FinishRunFailure, FailurePolicies, CountedCause
    <3>2. CASE task[u].status \notin Live
      BY <1>6, <3>2 DEF FinishRunFailure
    <3>. QED BY <3>1, <3>2
  <2>2. ASSUME NEW c \in {"failure_requeue", "failure_block"}, NEW counted,
               pending' = ThenBacklog("finishRun", Move({u}, c), counted)
        PROVE  pending'.moves[t] # "operator_reset"
    <3>1. pending'.moves = Move({u}, c)
      BY <2>2, PendingParts
    <3>. QED BY <3>1 DEF Move
  <2>. QED BY <1>1, <2>1, <2>2
<1>7. CASE \E u \in Tasks : cancelTask(u)
  BY <1>7, PendingParts DEF cancelTask, Move
<1>8. CASE \E u \in Tasks : resetTask(u)
  BY <1>8, PendingParts DEF resetTask
<1>9. ASSUME expireLeases PROVE FALSE
  <2>. DEFINE gone == {q \in Runs : Expired(q)}
              hit  == {u \in Tasks : task[u].status \in Live /\ \E q \in gone : claim[q].task = u}
              moves == [u \in Tasks |-> IF u \in hit THEN CountedCause(u) ELSE "none"]
  <2>1. pending' = ThenBacklog("expireLeases", moves, hit)
    BY <1>9 DEF expireLeases
  <2>. QED BY <2>1, PendingParts DEF CountedCause
<1>10. CASE killAll
  BY <1>10, PendingParts DEF killAll, Move
<1>11. ASSUME reconcileState \/ sessionReset PROVE FALSE
  BY <1>11, PendingParts DEF reconcileState, sessionReset
<1>. QED BY <1>1, <1>2, <1>3, <1>4, <1>5, <1>6, <1>7, <1>8, <1>9, <1>10, <1>11
         DEF Next, ClaimAbandoned, RenewLease, RequestInput, AnswerInput, FinishRunSuccess,
             LeaseRunsDown, InputWaitRunsOut, unblockTask, markTaskDone, delegateTask,
             CommitBacklog, BacklogRejected, CommitClaims, Interrupted

\* The moves that leave a merged task merged.
LEMMA MovesKeepDone ==
    ASSUME NEW t \in Tasks, task[t].status = "done", NEW moves \in Moves, NEW counted,
           commitBacklog(moves, counted),
           moves[t] \in {"none", "merge_succeeded"}
    PROVE  task'[t].status = "done"
BY DEF commitBacklog, TaskAfter, StatusAfter, StatusFor

\* A step takes a merged task back only if it commits an operator's reset.
LEMMA StepKeepsDone ==
    ASSUME Inv, PendingShape, ResetsKnown, [Next]_vars, NEW t \in Tasks,
           task[t].status = "done", pending.op # "resetTask"
    PROVE  task'[t].status = "done"
<1>. USE DEF Inv
<1>a. \A ts : \A c \in {"failure_requeue", "unblock", "merge_succeeded"} : Move(ts, c) \in Moves
  BY MoveType DEF BacklogCauses
<1>1. CASE ClaimAbandoned
  <2>. DEFINE u == bound[pending.create].task
              moves == Move({u}, "failure_requeue")
  <2>1. u # t
    BY <1>1, PendingParts DEF ClaimAbandoned, ClaimInFlight, PendingShape, Idle
  <2>2. commitBacklog(moves, {}) /\ moves \in Moves
    BY <1>1, <1>a DEF ClaimAbandoned
  <2>3. moves[t] = "none"
    BY <2>1 DEF Move
  <2>. HIDE DEF moves
  <2>. QED BY <2>2, <2>3, MovesKeepDone
<1>2. CASE sessionReset
  <2>. DEFINE held == {u \in Tasks : task[u].status \in Live}
              moves == Move(held, "failure_requeue")
  <2>1. commitBacklog(moves, {}) /\ moves \in Moves
    BY <1>2, <1>a DEF sessionReset
  <2>2. moves[t] = "none"
    BY DEF Move, Live
  <2>. HIDE DEF moves
  <2>. QED BY <2>1, <2>2, MovesKeepDone
<1>3. ASSUME NEW u \in Tasks, unblockTask(u) \/ markTaskDone(u)
      PROVE  task'[t].status = "done"
  <2>1. u # t
    BY <1>3 DEF unblockTask, markTaskDone, Live
  <2>2. PICK c \in {"unblock", "merge_succeeded"} : commitBacklog(Move({u}, c), {})
    BY <1>3 DEF unblockTask, markTaskDone
  <2>. DEFINE moves == Move({u}, c)
  <2>3. commitBacklog(moves, {}) /\ moves \in Moves
    BY <1>a, <2>2
  <2>4. moves[t] = "none"
    BY <2>1 DEF Move
  <2>. HIDE DEF moves
  <2>. QED BY <2>3, <2>4, MovesKeepDone
<1>4. CASE reconcileState
  <2>1. commitBacklog(ReconcileMoves, {}) /\ ReconcileMoves \in Moves
    BY <1>4 DEF reconcileState, ReconcileMoves, Moves, BacklogCauses
  <2>2. ReconcileMoves[t] = "none"
    BY DEF ReconcileMoves, Live
  <2>. QED BY <2>1, <2>2, MovesKeepDone
<1>5. CASE CommitBacklog
  <2>1. /\ commitBacklog(pending.moves, pending.counted) /\ pending.moves \in Moves
        /\ Accepted(pending.moves)
    BY <1>5 DEF CommitBacklog, TypeOK, PendingCommits
  <2>2. pending.moves[t] # "operator_reset"
    BY <1>5 DEF CommitBacklog, ResetsKnown, Live
  <2>3. pending.moves[t] \in {"none", "merge_succeeded"}
    BY <2>1, <2>2 DEF Moves, BacklogCauses, Accepted, StatusAfter, StatusFor,
       canTransitionTaskStatus, Live, TERMINAL_STATUSES
  <2>. QED BY <2>1, <2>3, MovesKeepDone
<1>6. ASSUME NEW u \in Tasks, \/ \E a \in Agents, r \in Runs : ClaimTask(u, a, r)
                              \/ \E a \in Agents \cup {NoAgent} : delegateTask(u, a)
      PROVE  task'[t].status = "done"
  BY <1>6 DEF ClaimTask, BindRun, delegateTask, TypeOK, TaskRows
<1>. QED BY <1>1, <1>2, <1>3, <1>4, <1>5, <1>6
         DEF Next, vars, StartRun, RenewLease, RequestInput, AnswerInput, FinishRunSuccess,
             expireRun, LeaseRunsDown, InputWaitRunsOut, FinishRunFailure, cancelTask,
             resetTask, expireLeases, killAll, BacklogRejected, CommitClaims, Interrupted

\* A merged task goes back only by an operator's reset: no failure, expiry,
\* cancellation, kill-all, session reset or reconcile of a run that is still
\* active after its merge takes the task back.
THEOREM MergesAreFinal == Spec => MergedStaysMerged
<1>1. Init => ResetsKnown
  BY PendingParts DEF Init, ResetsKnown
<1>2. Inv /\ Settling /\ ResetsKnown /\ [Next]_vars =>
          [\A t \in Tasks : task[t].status = "done" /\ task'[t].status # "done" =>
               pending.op = "resetTask"]_vars
  BY StepKeepsDone DEF Settling
<1>. QED BY <1>1, <1>2, NextResetsKnown, Invariance, SettlingInvariance, PTL
         DEF Spec, MergedStaysMerged

-----------------------------------------------------------------------------
(* What the store refuses.                                                 *)

\* The moves that the store accepts for each of their tasks.
LEMMA AcceptedMoves ==
    ASSUME NEW ts, NEW cause \in BacklogCauses,
           \A t \in Tasks : t \in ts =>
               \/ StatusFor(cause) = task[t].status
               \/ canTransitionTaskStatus(task[t].status, StatusFor(cause), cause)
    PROVE  Accepted(Move(ts, cause))
BY DEF Accepted, StatusAfter, Move, BacklogCauses

\* The second commit a step prepares, unless it is explained, will be accepted.
LEMMA NextRejections == Inv /\ Settling /\ RejectionsExplained /\ [Next]_vars => RejectionsExplained'
<1>. SUFFICES ASSUME Inv, Settling, RejectionsExplained, [Next]_vars,
                     pending'.db = "tasks", ~Accepted(pending.moves)', ~dirty'
              PROVE  /\ pending'.op = "startRun"
                     /\ \E t \in Tasks : pending'.moves[t] = "run_start" /\ task'[t].status \in Completed
  BY DEF RejectionsExplained
<1>. DEFINE Explained == /\ pending'.op = "startRun"
                         /\ \E t \in Tasks : pending'.moves[t] = "run_start"
                                             /\ task'[t].status \in Completed
<1>a. ASSUME task' = task, NEW moves, pending'.moves = moves, Accepted(moves)
      PROVE  FALSE
  BY <1>a DEF Accepted, StatusAfter
<1>b. ASSUME Idle, dirty' = dirty, NEW t \in Tasks PROVE Agree(t)
  BY <1>b DEF Settling, SettledAgreement
<1>c. \A t \in Tasks : task[t].status \in Statuses
  BY DEF Inv, TypeOK, TaskRows
<1>d. \A r \in Runs : Active(r) => claim[r].task \in Tasks /\ r \in ActiveOn(claim[r].task)
  BY ActiveNamesTask DEF Inv, ActiveOn
<1>1. ASSUME NEW r \in Runs, StartRun(r) PROVE Explained
  <2>. DEFINE t == claim[r].task
  <2>1. /\ pending'.op = "startRun" /\ pending'.moves = Move({t}, "run_start")
        /\ task' = task /\ Idle /\ dirty' = dirty /\ claim[r].state = "claimed"
    BY <1>1, PendingParts DEF StartRun
  <2>2. t \in Tasks /\ r \in ActiveOn(t)
    BY <1>d, <2>1 DEF Active, Live
  <2>3. CASE task[t].status \in Completed
    BY <2>1, <2>2, <2>3 DEF Move
  <2>4. CASE task[t].status \notin Completed
    <3>1. task[t].status = "claimed"
      BY <1>b, <2>1, <2>2, <2>4 DEF Agree
    <3>2. Accepted(Move({t}, "run_start"))
      BY <3>1, AcceptedMoves DEF BacklogCauses, StatusFor, canTransitionTaskStatus
    <3>. QED BY <1>a, <2>1, <3>2
  <2>. QED BY <2>3, <2>4
<1>2. ASSUME NEW r \in Runs, NEW policy \in FailurePolicies, FinishRunFailure(r, policy) PROVE FALSE
  <2>. DEFINE t == claim[r].task
  <2>1. task' = task /\ task[t].status \in Live
    BY <1>2, PendingParts DEF FinishRunFailure
  <2>2. \E c \in {"failure_requeue", "failure_block"} : pending'.moves = Move({t}, c)
    BY <1>2, <2>1, PendingParts DEF FinishRunFailure, FailurePolicies, CountedCause
  <2>3. \A c \in {"failure_requeue", "failure_block"} : Accepted(Move({t}, c))
    BY <2>1, AcceptedMoves DEF BacklogCauses, StatusFor, canTransitionTaskStatus
  <2>. QED BY <1>a, <2>1, <2>2, <2>3
<1>3. ASSUME NEW t \in Tasks, cancelTask(t) PROVE FALSE
  <2>1. task' = task /\ pending'.moves = Move({t}, "cancel") /\ task[t].status \notin TERMINAL_STATUSES
    BY <1>3, PendingParts DEF cancelTask
  <2>2. Accepted(Move({t}, "cancel"))
    BY <2>1, AcceptedMoves DEF BacklogCauses, StatusFor, canTransitionTaskStatus
  <2>. QED BY <1>a, <2>1, <2>2
<1>4. ASSUME NEW t \in Tasks, resetTask(t) PROVE FALSE
  <2>1. task' = task /\ pending'.moves = Move({t}, "operator_reset")
    BY <1>4, PendingParts DEF resetTask
  <2>2. Accepted(Move({t}, "operator_reset"))
    BY AcceptedMoves DEF BacklogCauses, StatusFor, canTransitionTaskStatus
  <2>. QED BY <1>a, <2>1, <2>2
<1>5. ASSUME NEW r \in Runs, expireRun(r) PROVE FALSE
  <2>. DEFINE t == claim[r].task
  <2>1. /\ task' = task /\ Idle /\ dirty' = dirty /\ Active(r)
        /\ pending'.moves = Move({t}, "failure_requeue") /\ task[t].status \notin TERMINAL_STATUSES
    BY <1>5, PendingParts DEF expireRun
  <2>2. task[t].status \in Live
    BY <1>b, <1>d, <2>1 DEF Agree, TERMINAL_STATUSES, Completed
  <2>3. Accepted(Move({t}, "failure_requeue"))
    BY <2>2, AcceptedMoves DEF BacklogCauses, StatusFor, canTransitionTaskStatus
  <2>. QED BY <1>a, <2>1, <2>3
<1>6. ASSUME expireLeases PROVE FALSE
  <2>. DEFINE gone == {r \in Runs : Expired(r)}
              hit  == {v \in Tasks : task[v].status \in Live /\ \E r \in gone : claim[r].task = v}
              moves == [v \in Tasks |-> IF v \in hit THEN CountedCause(v) ELSE "none"]
  <2>1. pending' = ThenBacklog("expireLeases", moves, hit) /\ task' = task
    BY <1>6 DEF expireLeases
  <2>2. pending'.moves = moves
    BY <2>1, PendingParts
  <2>3. ASSUME NEW v \in Tasks
        PROVE  \/ StatusAfter(moves, v) = task[v].status
               \/ canTransitionTaskStatus(task[v].status, StatusAfter(moves, v), moves[v])
    <3>1. CASE v \in hit
      <4>1. task[v].status \in Live /\ moves[v] \in {"failure_requeue", "failure_block"}
        BY <3>1 DEF CountedCause
      <4>. QED BY <4>1 DEF StatusAfter, StatusFor, canTransitionTaskStatus
    <3>2. CASE v \notin hit
      BY <3>2 DEF StatusAfter
    <3>. QED BY <3>1, <3>2
  <2>4. Accepted(moves)
    BY <2>3 DEF Accepted
  <2>. QED BY <1>a, <2>1, <2>2, <2>4
<1>7. ASSUME killAll PROVE FALSE
  <2>. DEFINE held == {t \in Tasks : task[t].status \in Live}
  <2>1. task' = task /\ pending'.moves = Move(held, "operator_reset")
    BY <1>7, PendingParts DEF killAll
  <2>2. Accepted(Move(held, "operator_reset"))
    BY AcceptedMoves DEF BacklogCauses, StatusFor, canTransitionTaskStatus
  <2>. QED BY <1>a, <2>1, <2>2
<1>8. CASE UNCHANGED <<task, pending, dirty>>
  <2>1. pending.db = "tasks" /\ ~dirty /\ ~Accepted(pending.moves)
    BY <1>8 DEF Accepted, StatusAfter
  <2>. QED BY <1>8, <2>1 DEF RejectionsExplained
<1>9. ASSUME pending' = NoPending \/ (\E op, runs : pending' = ThenFail(op, runs))
             \/ (\E r \in Runs : pending' = ThenCreate(r))
      PROVE  FALSE
  BY <1>9, PendingParts
<1>10. ASSUME Idle, pending' = pending PROVE FALSE
  BY <1>10, PendingParts DEF Idle
<1>. QED BY <1>1, <1>2, <1>3, <1>4, <1>5, <1>6, <1>7, <1>8, <1>9, <1>10
         DEF Next, vars, ClaimTask, ClaimAbandoned, RenewLease, RequestInput, AnswerInput,
             FinishRunSuccess, LeaseRunsDown, InputWaitRunsOut, unblockTask, markTaskDone,
             delegateTask, reconcileState, sessionReset, CommitBacklog, BacklogRejected,
             CommitClaims, Interrupted

\* Outside a crash window an operation's second commit is refused in one case
\* only: the start of a run whose task was marked done meanwhile.
THEOREM RefusalsAreExplained == Spec => []RejectionsExplained
<1>1. Init => RejectionsExplained
  BY PendingParts DEF Init, RejectionsExplained
<1>. QED BY <1>1, NextRejections, Invariance, SettlingInvariance, PTL DEF Spec

-----------------------------------------------------------------------------
(* What the doctor reports.                                                *)

\* The runs are finitely many, so any set of them can be counted.
LEMMA RunsCounted ==
    ASSUME NEW S \in SUBSET Runs
    PROVE  IsFiniteSet(S) /\ Cardinality(S) \in Nat
<1>1. IsFiniteSet(Runs)
  BY BoundsAssumption, FS_Interval DEF Runs
<1>2. IsFiniteSet(S)
  BY <1>1, FS_Subset
<1>. QED BY <1>2, FS_CardinalityType

\* The active claim of a task is the only one, and so it wins.
LEMMA ActiveWins ==
    ASSUME Inv, NEW t \in Tasks, NEW r \in ActiveOn(t)
    PROVE  ActiveOn(t) = {r} /\ Winner(r) /\ claim[r].state \in Live
<1>1. r \in Runs /\ Active(r) /\ claim[r].task = t
  BY DEF ActiveOn
<1>2. \A q \in ActiveOn(t) : q = r
  BY <1>1 DEF ActiveOn, Inv, OneActiveClaimPerTask
<1>3. r <= r
  BY <1>1, BoundsAssumption DEF Runs
<1>. QED BY <1>1, <1>2, <1>3 DEF Winner, Active

\* No task has two active claims to report.
LEMMA NoDuplicates ==
    ASSUME Inv, NEW t \in Tasks
    PROVE  ~(Cardinality(ActiveOn(t)) > 1)
<1>1. CASE ActiveOn(t) = {}
  BY <1>1, FS_EmptySet
<1>2. CASE ActiveOn(t) # {}
  <2>1. PICK r : ActiveOn(t) = {r}
    BY <1>2, ActiveWins
  <2>2. Cardinality(ActiveOn(t)) = 1
    BY <2>1, FS_Singleton
  <2>. QED BY <2>2
<1>. QED BY <1>1, <1>2

\* What it takes for a task to be reported.
LEMMA ReportedTask ==
    ASSUME Inv, NEW t \in Tasks
    PROVE  (\E issue \in detectLifecycleIssues :
                issue[1] # "duplicate_active_agent_claims" /\ issue[2] = t)
           <=> \/ ActiveOn(t) = {} /\ task[t].status \in Live
               \/ \E r \in ActiveOn(t) : task[t].status # claim[r].state
<1>. DEFINE claimed == {u \in Tasks : ActiveOn(u) # {}}
            Missing == {u \in Tasks \ claimed : task[u].status \in Live}
            Mismatched == {u \in claimed : \E r \in ActiveOn(u) : Winner(r) /\ task[u].status # claim[r].state}
            Doubled == {u \in claimed : Cardinality(ActiveOn(u)) > 1}
            Shared == {b \in Agents : Cardinality({r \in Runs : Active(r) /\ claim[r].agent = b}) > 1}
<1>1. detectLifecycleIssues =
         {<<"duplicate_active_claims", u>> : u \in Doubled}
         \cup {<<"task_status_missing_active_claim", u>> : u \in Missing}
         \cup {<<"task_status_claim_mismatch", u>> : u \in Mismatched}
         \cup {<<"duplicate_active_agent_claims", b>> : b \in Shared}
  BY DEF detectLifecycleIssues
<1>2. Doubled = {}
  BY NoDuplicates
<1>3. t \in Missing <=> ActiveOn(t) = {} /\ task[t].status \in Live
  OBVIOUS
<1>4. t \in Mismatched <=> \E r \in ActiveOn(t) : task[t].status # claim[r].state
  BY ActiveWins
<1>. HIDE DEF claimed, Missing, Mismatched, Doubled, Shared
<1>5. ASSUME NEW issue \in detectLifecycleIssues,
             issue[1] # "duplicate_active_agent_claims", issue[2] = t
      PROVE  t \in Missing \/ t \in Mismatched
  BY <1>1, <1>2, <1>5
<1>6. ASSUME t \in Missing \/ t \in Mismatched
      PROVE  \E issue \in detectLifecycleIssues :
                issue[1] # "duplicate_active_agent_claims" /\ issue[2] = t
  <2>1. CASE t \in Missing
    <3>1. <<"task_status_missing_active_claim", t>> \in detectLifecycleIssues
      BY <1>1, <2>1
    <3>. QED BY <3>1
  <2>2. CASE t \in Mismatched
    <3>1. <<"task_status_claim_mismatch", t>> \in detectLifecycleIssues
      BY <1>1, <2>2
    <3>. QED BY <3>1
  <2>. QED BY <1>6, <2>1, <2>2
<1>. QED BY <1>3, <1>4, <1>5, <1>6

\* Whatever an interrupted operation leaves behind, the doctor names the tasks
\* that disagree with their claims, and no task that agrees but merged ones.
THEOREM DoctorIsComplete == Spec => []DoctorSeesDisagreement
<1>1. Inv => DoctorSeesDisagreement
  <2>. SUFFICES ASSUME Inv PROVE DoctorSeesDisagreement
    OBVIOUS
  <2>1. ASSUME NEW t \in Tasks
        PROVE  LET reported == \E issue \in detectLifecycleIssues :
                                   issue[1] # "duplicate_active_agent_claims" /\ issue[2] = t IN
               /\ ~Agree(t) => reported
               /\ reported /\ Agree(t) => task[t].status \in Completed
    <3>. DEFINE Wrong == \/ ActiveOn(t) = {} /\ task[t].status \in Live
                         \/ \E r \in ActiveOn(t) : task[t].status # claim[r].state
    <3>1. task[t].status \in Statuses
      BY DEF Inv, TypeOK, TaskRows
    <3>2. ASSUME ~Agree(t) PROVE Wrong
      <4>1. CASE ActiveOn(t) = {}
        BY <3>1, <3>2, <4>1 DEF Agree, Statuses, Completed, Live
      <4>2. ASSUME NEW r \in ActiveOn(t) PROVE Wrong
        BY <3>1, <3>2, <4>2, ActiveWins DEF Agree, Statuses, Completed, Live
      <4>. QED BY <4>1, <4>2
    <3>3. ASSUME Wrong, Agree(t) PROVE task[t].status \in Completed
      BY <3>3 DEF Agree, Live
    <3>. QED BY <3>2, <3>3, ReportedTask
  <2>2. validateLegacyStateInvariants = {}
    BY NoDuplicates DEF validateLegacyStateInvariants
  <2>. QED BY <2>1, <2>2 DEF DoctorSeesDisagreement
<1>. QED BY <1>1, Invariance, PTL

-----------------------------------------------------------------------------
(* Attempts are paid for.                                                  *)

FailedOn(t) == {r \in Runs : claim[r].state = "failed" /\ claim[r].task = t}

\* The attempt a second commit is about to count is paid for already.
Charge(t) == IF t \in pending.counted THEN 1 ELSE 0
Paid == \A t \in Tasks : task[t].attempts + Charge(t) <= Cardinality(FailedOn(t))

\* Only a failure counts an attempt in its second commit.
LEMMA NothingCounted ==
    /\ NoPending.counted = {}
    /\ \A op, runs : ThenFail(op, runs).counted = {}
    /\ \A r : ThenCreate(r).counted = {}
BY DEF NoPending, ThenFail, ThenCreate

\* A failed claim stays a failed claim of its task.
LEMMA FailedStays ==
    ASSUME Inv, [Next]_vars, NEW t
    PROVE  FailedOn(t) \subseteq FailedOn(t)'
<1>. SUFFICES ASSUME NEW r \in Runs, claim[r].state = "failed", claim[r].task = t
              PROVE  claim'[r].state = "failed" /\ claim'[r].task = t
  BY DEF FailedOn
<1>1. claim'[r].state = "failed"
  BY StepKeepsEnded
<1>2. ~(CommitClaims /\ r = pending.create)
  BY DEF Inv, ClaimInFlight
<1>3. claim'[r].task = claim[r].task
  BY <1>1, <1>2, ClaimsKept DEF Inv
<1>. QED BY <1>1, <1>3

\* What a step does to the attempts of a task and to the charge on it.
ChargeKept(t) ==
    task'[t].attempts = task[t].attempts /\ (t \in pending'.counted => t \in pending.counted)
Charged(t) ==
    /\ task'[t].attempts = task[t].attempts + 1
    /\ t \in pending.counted /\ t \notin pending'.counted
NewFailure(t) ==
    /\ task'[t].attempts = task[t].attempts
    /\ \E r \in Runs : r \in FailedOn(t)' /\ r \notin FailedOn(t)

\* A commit of the backlog that counts nothing leaves the attempts alone.
LEMMA CommitCounts ==
    ASSUME NEW t \in Tasks, NEW moves, NEW counted, commitBacklog(moves, counted)
    PROVE  task'[t].attempts = IF t \in counted THEN task[t].attempts + 1 ELSE task[t].attempts
BY DEF commitBacklog, TaskAfter

\* A step leaves attempts and charges alone, counts what is charged, or
\* charges a failure that is new.
LEMMA ChargeKinds ==
    ASSUME Inv, [Next]_vars, NEW t \in Tasks
    PROVE  ChargeKept(t) \/ Charged(t) \/ NewFailure(t)
<1>. USE DEF ChargeKept
<1>1. ASSUME NEW u \in Tasks, NEW a \in Agents, NEW r \in Runs, ClaimTask(u, a, r)
      PROVE  ChargeKept(t)
  BY <1>1, NothingCounted DEF ClaimTask, BindRun, Inv, TypeOK, TaskRows
<1>2. CASE ClaimAbandoned \/ reconcileState \/ sessionReset
  BY <1>2, CommitCounts, NothingCounted DEF ClaimAbandoned, reconcileState, sessionReset
<1>3. ASSUME NEW u \in Tasks, unblockTask(u) \/ markTaskDone(u)
      PROVE  ChargeKept(t)
  BY <1>3, CommitCounts DEF unblockTask, markTaskDone
<1>4. ASSUME NEW u \in Tasks, NEW a \in Agents \cup {NoAgent}, delegateTask(u, a)
      PROVE  ChargeKept(t)
  BY <1>4 DEF delegateTask, Inv, TypeOK, TaskRows
<1>5. ASSUME NEW r \in Runs,
             \/ RenewLease(r) \/ RequestInput(r) \/ AnswerInput(r) \/ FinishRunSuccess(r)
             \/ LeaseRunsDown(r) \/ InputWaitRunsOut(r)
      PROVE  ChargeKept(t)
  BY <1>5 DEF RenewLease, RequestInput, AnswerInput, FinishRunSuccess, LeaseRunsDown, InputWaitRunsOut
<1>6. ASSUME NEW r \in Runs, StartRun(r) \/ expireRun(r)
      PROVE  ChargeKept(t)
  BY <1>6, PendingParts DEF StartRun, expireRun
<1>7. ASSUME NEW u \in Tasks, cancelTask(u) \/ resetTask(u)
      PROVE  ChargeKept(t)
  BY <1>7, PendingParts DEF cancelTask, resetTask
<1>8. CASE killAll
  BY <1>8, PendingParts DEF killAll
<1>9. CASE BacklogRejected \/ CommitClaims \/ Interrupted
  BY <1>9, NothingCounted DEF BacklogRejected, CommitClaims, Interrupted
<1>10. CASE CommitBacklog
  BY <1>10, CommitCounts, NothingCounted DEF CommitBacklog, Charged
<1>11. ASSUME NEW r \in Runs, NEW policy \in FailurePolicies, FinishRunFailure(r, policy)
       PROVE  ChargeKept(t) \/ NewFailure(t)
  <2>. DEFINE u == claim[r].task
  <2>1. pending'.counted \subseteq {u}
    <3>1. \/ pending' = NoPending
          \/ \E moves : \E counted \in {{}, {u}} : pending' = ThenBacklog("finishRun", moves, counted)
      <4>1. CASE task[u].status \notin Live
        BY <1>11, <4>1 DEF FinishRunFailure
      <4>2. CASE task[u].status \in Live
        BY <1>11, <4>2 DEF FinishRunFailure, FailurePolicies
      <4>. QED BY <4>1, <4>2
    <3>. QED BY <3>1, PendingParts, NothingCounted
  <2>2. task' = task /\ Active(r) /\ claim'[r] = Failed(claim[r])
    BY <1>11 DEF FinishRunFailure, Inv, TypeOK
  <2>3. t = u => r \in FailedOn(t)' /\ r \notin FailedOn(t)
    BY <2>2 DEF FailedOn, Failed, Ended, Active, Live
  <2>. QED BY <2>1, <2>2, <2>3 DEF NewFailure
<1>12. ASSUME expireLeases
       PROVE  ChargeKept(t) \/ NewFailure(t)
  <2>. DEFINE gone == {r \in Runs : Expired(r)}
              hit  == {v \in Tasks : task[v].status \in Live /\ \E r \in gone : claim[r].task = v}
              moves == [v \in Tasks |-> IF v \in hit THEN CountedCause(v) ELSE "none"]
  <2>1. pending' = ThenBacklog("expireLeases", moves, hit) /\ task' = task
    BY <1>12 DEF expireLeases
  <2>2. pending'.counted = hit
    BY <2>1, PendingParts
  <2>3. ASSUME t \in hit PROVE NewFailure(t)
    <3>1. PICK r \in gone : claim[r].task = t
      BY <2>3
    <3>2. Active(r) /\ claim'[r] = Failed(claim[r])
      BY <1>12, <3>1 DEF expireLeases, Expired
    <3>3. r \in Runs /\ r \in FailedOn(t)' /\ r \notin FailedOn(t)
      BY <3>1, <3>2 DEF FailedOn, Failed, Ended, Active, Live
    <3>. QED BY <2>1, <3>3 DEF NewFailure
  <2>. QED BY <2>1, <2>2, <2>3
<1>13. CASE UNCHANGED vars
  BY <1>13 DEF vars
<1>. QED BY <1>1, <1>2, <1>3, <1>4, <1>5, <1>6, <1>7, <1>8, <1>9, <1>10, <1>11, <1>12, <1>13
         DEF Next

\* Every step keeps the attempts paid for.
LEMMA NextPaid == Inv /\ Inv' /\ Paid /\ [Next]_vars => Paid'
<1>. SUFFICES ASSUME Inv, Inv', Paid, [Next]_vars, NEW t \in Tasks
              PROVE  task'[t].attempts + Charge(t)' <= Cardinality(FailedOn(t)')
  BY DEF Paid, FailedOn
<1>. DEFINE F == FailedOn(t)
            G == FailedOn(t)'
<1>1. F \subseteq G /\ F \in SUBSET Runs /\ G \in SUBSET Runs
  BY FailedStays DEF FailedOn
<1>2. task[t].attempts \in Nat /\ task'[t].attempts \in Nat
  BY DEF Inv, TypeOK, TaskRows
<1>3. task[t].attempts + Charge(t) <= Cardinality(F)
  BY DEF Paid
<1>. HIDE DEF F, G
<1>4. IsFiniteSet(F) /\ IsFiniteSet(G) /\ Cardinality(F) \in Nat /\ Cardinality(G) \in Nat
  BY <1>1, RunsCounted
<1>5. Cardinality(F) <= Cardinality(G)
  BY <1>1, <1>4, FS_Subset
<1>6. CASE ChargeKept(t)
  BY <1>2, <1>3, <1>4, <1>5, <1>6 DEF ChargeKept, Charge, G
<1>7. CASE Charged(t)
  BY <1>2, <1>3, <1>4, <1>5, <1>7 DEF Charged, Charge, G
<1>8. CASE NewFailure(t)
  <2>1. PICK r \in Runs : r \in G /\ r \notin F
    BY <1>8 DEF NewFailure, F, G
  <2>2. F \cup {r} \in SUBSET G
    BY <1>1, <2>1
  <2>3. Cardinality(F \cup {r}) = Cardinality(F) + 1
    BY <1>4, <2>1, FS_AddElement
  <2>4. Cardinality(F \cup {r}) <= Cardinality(G)
    BY <1>4, <2>2, FS_Subset
  <2>. QED BY <1>2, <1>3, <1>4, <1>8, <2>3, <2>4 DEF NewFailure, Charge, G
<1>. QED BY <1>6, <1>7, <1>8, ChargeKinds

\* A failed run is charged to its task at most once, however many of run-fail,
\* expiry, a dead PTY and a replay report it, and wherever one is cut off.
THEOREM AttemptsArePaid == Spec => []AttemptsPaidByFailures
<1>1. Init => Paid
  <2>. SUFFICES ASSUME Init, NEW t \in Tasks
                PROVE  task[t].attempts + Charge(t) <= Cardinality(FailedOn(t))
    BY DEF Paid
  <2>1. task[t].attempts = 0 /\ Charge(t) = 0
    BY NothingCounted DEF Init, Charge
  <2>2. FailedOn(t) \in SUBSET Runs
    BY DEF FailedOn
  <2>3. Cardinality(FailedOn(t)) \in Nat
    BY <2>2, RunsCounted
  <2>. QED BY <2>1, <2>3
<1>2. Inv /\ Paid => AttemptsPaidByFailures
  <2>. SUFFICES ASSUME Inv, Paid, NEW t \in Tasks
                PROVE  task[t].attempts <= Cardinality(FailedOn(t))
    BY DEF AttemptsPaidByFailures, FailedOn
  <2>1. task[t].attempts \in Nat /\ Charge(t) \in {0, 1}
    BY DEF Inv, TypeOK, TaskRows, Charge
  <2>2. FailedOn(t) \in SUBSET Runs
    BY DEF FailedOn
  <2>3. Cardinality(FailedOn(t)) \in Nat
    BY <2>2, RunsCounted
  <2>4. task[t].attempts + Charge(t) <= Cardinality(FailedOn(t))
    BY DEF Paid
  <2>. QED BY <2>1, <2>3, <2>4
<1>. QED BY <1>1, <1>2, NextPaid, Invariance, PTL DEF Spec
=============================================================================
