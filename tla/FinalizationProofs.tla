------------------------ MODULE FinalizationProofs ------------------------
(***************************************************************************)
(* For either strategy and any number of runs, reports and faults: a done  *)
(* task is merged and stays done, rebase requests are bounded, a run that  *)
(* waits for the coordinator has its handoff ahead of the cursor, a run is *)
(* reported ended once, an active run keeps its worktree, and a pull       *)
(* request is merged on a second handoff.                                  *)
(***************************************************************************)
EXTENDS Finalization, FiniteSetTheorems, TLAPS

\* The places of the tick between reading a handoff and settling it.
Finalizing == {"finalize", "notified", "mergePr", "prMerged", "prOpened",
               "sendReview", "inReview", "markDone", "finish"}

\* Away from idle the tick has a run and, unless it is in a sweep, the event
\* next to the cursor; the finalizer always has a handoff, the cleanup of an
\* ended run never.
Position ==
    /\ coord.pc \notin {"idle", "down"} => coord.run \in Runs
    /\ coord.pc \in {"idle", "down"} => coord.seq = 0
    /\ coord.seq # 0 => /\ coord.seq = cursor + 1
                        /\ coord.seq <= Len(events)
                        /\ events[coord.seq].run = coord.run
    /\ coord.pc \in Finalizing => coord.seq # 0 /\ events[coord.seq].event \in Handoffs
    /\ coord.pc = "stopEnded" => coord.seq # 0 /\ events[coord.seq].event \notin Handoffs

Base == TypeOK /\ Position

-----------------------------------------------------------------------------
(* Types.                                                                  *)

\* A claim moved to a finalization state is a claim.
LEMMA AdvancedTyped ==
    ASSUME NEW c \in ClaimRows, NEW fin \in FinalizationStates, NEW d \in Nat
    PROVE  Advanced(c, fin, d) \in ClaimRows
<1>1. c.retries + d \in Nat
  BY DEF ClaimRows
<1> DEFINE n == c.retries + d
<1>2. Advanced(c, fin, d) = [c EXCEPT !.fin = fin, !.retries = n]
  BY DEF Advanced
<1> HIDE DEF n
<1> QED BY <1>1, <1>2 DEF ClaimRows, n

\* An ended claim is a claim.
LEMMA EndedTyped ==
    ASSUME NEW c \in ClaimRows, NEW outcome \in {"done", "failed"}
    PROVE  EndedClaim(c, outcome) \in ClaimRows
BY DEF EndedClaim, ClaimRows, FinalizationStates

\* The reducer turns claims into claims.
LEMMA ReducerTyped ==
    ASSUME NEW c \in ClaimRows, NEW e
    PROVE  reduceLifecycleEvent(e, c) \in ClaimRows
BY AdvancedTyped DEF reduceLifecycleEvent, FinalizationStates

\* setRunFinalizationState keeps the claims' type.
LEMMA SetTyped ==
    ASSUME TypeOK, NEW r, NEW fin \in FinalizationStates, NEW d \in Nat,
           setRunFinalizationState(r, fin, d)
    PROVE  claim' \in [Runs -> ClaimRows]
BY AdvancedTyped DEF TypeOK, setRunFinalizationState

\* What finishRun may do to the log: nothing, or one terminal event at its end.
LEMMA FinishTyped ==
    ASSUME TypeOK, NEW r \in Runs, NEW outcome \in {"done", "failed"},
           NEW back \in Statuses, finishRun(r, outcome, back)
    PROVE  /\ task' \in Statuses
           /\ claim' \in [Runs -> ClaimRows]
           /\ events' \in Seq(Events)
           /\ Len(events') >= Len(events)
           /\ \A s \in 1 .. Len(events) : events'[s] = events[s]
<1>1. EndedClaim(claim[r], outcome) \in ClaimRows
  BY EndedTyped DEF TypeOK
<1>2. claim' \in [Runs -> ClaimRows]
  BY <1>1 DEF TypeOK, finishRun
<1>3. task' \in Statuses
  BY DEF TypeOK, finishRun
<1>4. CASE Active(r)
  <2> DEFINE x == [event |-> IF outcome = "done" THEN "run_finished" ELSE "run_failed",
                   run |-> r, reviewed |-> asked[r]]
  <2>1. x \in Events
    BY DEF TypeOK, Events, Terminal
  <2>2. events' = Append(events, x)
    BY <1>4 DEF finishRun
  <2> HIDE DEF x
  <2> QED BY <1>2, <1>3, <2>1, <2>2 DEF TypeOK
<1>5. CASE ~Active(r)
  BY <1>2, <1>3, <1>5 DEF TypeOK, finishRun
<1> QED BY <1>4, <1>5

\* A report is appended to the log and nothing before it changes.
LEMMA AppendTyped ==
    ASSUME TypeOK, NEW r \in Runs, NEW e \in Reports, appendSequencedEvent(r, e)
    PROVE  /\ events' \in Seq(Events)
           /\ Len(events') >= Len(events)
           /\ \A s \in 1 .. Len(events) : events'[s] = events[s]
           /\ reports' \in Nat
<1> DEFINE x == [event |-> e, run |-> r, reviewed |-> asked[r]]
<1>1. x \in Events
  BY DEF TypeOK, Events
<1>2. events' = Append(events, x) /\ reports' = reports + 1
  BY DEF appendSequencedEvent
<1> HIDE DEF x
<1> QED BY <1>1, <1>2 DEF TypeOK

\* Every step keeps the types.
LEMMA TypeStep == Base /\ [Next]_vars => TypeOK'
<1> SUFFICES ASSUME TypeOK, Position, [Next]_vars PROVE TypeOK'
  BY DEF Base
<1> USE DEF TypeOK, At, Goto, Places, Awaits, store, git, bounds
<1>1. ASSUME NEW r \in Runs, Dispatch(r) PROVE TypeOK'
  <2>1. claim' \in [Runs -> ClaimRows]
    BY <1>1 DEF Dispatch, ClaimRows
  <2>2. worktree' \in [Runs -> BOOLEAN]
    BY <1>1 DEF Dispatch
  <2> QED BY <1>1, <2>1, <2>2 DEF Dispatch, Statuses
<1>2. ASSUME NEW r \in Runs, RunStart(r) PROVE TypeOK'
  BY <1>2 DEF RunStart, ClaimRows, Statuses
<1>3. ASSUME NEW r \in Runs, RunWorkComplete(r) PROVE TypeOK'
  BY <1>3, AppendTyped DEF RunWorkComplete, nextFinalizationTransition, Reports, Handoffs
<1>4. ASSUME NEW r \in Runs, RunFail(r) PROVE TypeOK'
  BY <1>4, FinishTyped DEF RunFail, FailedTaskStatuses, Statuses
<1>5. ASSUME NEW r \in Runs, RunFinish(r) PROVE TypeOK'
  BY <1>5, FinishTyped DEF RunFinish
<1>6. ASSUME NEW r \in Runs, Rebase(r) PROVE TypeOK'
  BY <1>6 DEF Rebase
<1>7. ASSUME NEW r \in Runs, WorkerDies(r) PROVE TypeOK'
  BY <1>7 DEF WorkerDies
<1>8. ASSUME NEW r \in Runs, handleFinalizationRetry(r) PROVE TypeOK'
  BY <1>8 DEF handleFinalizationRetry, Sweep
<1>9. ASSUME NEW r \in Runs, ExpireLease(r) PROVE TypeOK'
  BY <1>9 DEF ExpireLease, ClaimRows, Statuses, Sweep, FailedTaskStatuses
<1>10. ASSUME NEW r \in Runs, ProbeDead(r) PROVE TypeOK'
  BY <1>10, FinishTyped DEF ProbeDead, FailedTaskStatuses, Statuses, Sweep
<1>11. ASSUME NEW r \in Runs, ForceFail(r) PROVE TypeOK'
  BY <1>11, FinishTyped DEF ForceFail, FailedTaskStatuses, Statuses, Sweep
<1>12. ASSUME NEW r \in Runs, NEW e \in Reports, Progress(r, e)
      PROVE TypeOK'
  BY <1>12, AppendTyped DEF Progress
<1>13. CASE HandleEvent
  <2>1. events[cursor + 1] \in Events
    BY <1>13 DEF HandleEvent
  <2> DEFINE e == events[cursor + 1]
  <2>2. e.run \in Runs
    BY <2>1 DEF Events
  <2>3. claim' \in [Runs -> ClaimRows]
    BY <1>13, <2>2, ReducerTyped DEF HandleEvent
  <2> HIDE DEF e
  <2> QED BY <1>13, <2>2, <2>3 DEF HandleEvent, e
<1>14. CASE StopEnded
  BY <1>14 DEF StopEnded
<1>15. CASE Commit
  BY <1>15 DEF Commit, Position, Idle
<1>16. CASE BeginFinalize
  BY <1>16 DEF BeginFinalize
<1>17. CASE MergeBranch
  <2>1. coord.run \in Runs
    BY <1>17 DEF MergeBranch, Position
  <2>2. merged' \in SUBSET Runs /\ branch' \in [Runs -> {"current", "behind"}]
    BY <1>17, <2>1 DEF MergeBranch, Merge, Behind
  <2> QED BY <1>17, <2>2 DEF MergeBranch
<1>18. CASE NeedsRebase
  BY <1>18 DEF NeedsRebase, Fault
<1>19. CASE GitCallFails
  BY <1>19 DEF GitCallFails, Fault
<1>20. CASE MarkTaskDone
  BY <1>20 DEF MarkTaskDone, Statuses
<1>21. CASE FinishMerged
  <2>1. coord.run \in Runs
    BY <1>21 DEF FinishMerged, Position
  <2>2. finishRun(coord.run, "done", task)
    BY <1>21 DEF FinishMerged
  <2>3. /\ task' \in Statuses /\ claim' \in [Runs -> ClaimRows]
        /\ events' \in Seq(Events) /\ Len(events') >= Len(events)
    BY <2>1, <2>2, FinishTyped
  <2> QED BY <1>21, <2>3 DEF FinishMerged
<1>22. CASE StopLanded
  BY <1>22 DEF StopLanded
<1>23. CASE Block
  BY <1>23, SetTyped DEF Block, FinalizationStates
<1>24. CASE StopBlocked
  BY <1>24 DEF StopBlocked
<1>25. CASE AskRebase
  BY <1>25, SetTyped DEF AskRebase, FinalizationStates
<1>26. CASE RebaseAsked
  BY <1>26, SetTyped DEF RebaseAsked, FinalizationStates
<1>27. CASE RebaseNotDelivered
  BY <1>27 DEF RebaseNotDelivered
<1>28. CASE OpenPr
  BY <1>28 DEF OpenPr
<1>29. CASE RecordPr
  <2>1. ASSUME NEW c \in ClaimRows
        PROVE  [Advanced(c, "pr_created", 0) EXCEPT !.prSeq = coord.seq] \in ClaimRows
    <3>1. Advanced(c, "pr_created", 0) \in ClaimRows
      BY <2>1, AdvancedTyped DEF FinalizationStates
    <3> QED BY <3>1 DEF ClaimRows
  <2>2. claim' \in [Runs -> ClaimRows]
    BY <1>29, <2>1 DEF RecordPr
  <2> QED BY <1>29, <2>2 DEF RecordPr
<1>30. CASE ReviewSent
  BY <1>30 DEF ReviewSent
<1>31. CASE ReviewNotDelivered
  BY <1>31 DEF ReviewNotDelivered
<1>32. CASE RecordReview
  BY <1>32, SetTyped DEF RecordReview, FinalizationStates
<1>33. CASE MergePr
  <2>1. coord.run \in Runs
    BY <1>33 DEF MergePr, Position
  <2>2. merged' \in SUBSET Runs /\ branch' \in [Runs -> {"current", "behind"}]
    BY <1>33, <2>1 DEF MergePr, Merge, Behind
  <2> QED BY <1>33, <2>2 DEF MergePr
<1>34. CASE RecordPrMerged
  BY <1>34, SetTyped DEF RecordPrMerged, FinalizationStates
<1>35. CASE MainAdvances
  BY <1>35 DEF MainAdvances, Behind
<1>36. CASE Crash
  BY <1>36 DEF Crash, Fault, Down
<1>37. CASE Restart
  BY <1>37 DEF Restart, Idle
<1>38. CASE ResetCursor
  BY <1>38 DEF ResetCursor, Fault
<1>39. CASE UNCHANGED vars
  BY <1>39 DEF vars
<1>40. QED
  BY <1>1, <1>2, <1>3, <1>4, <1>5, <1>6, <1>7, <1>8, <1>9, <1>10, <1>11,
     <1>12, <1>13, <1>14, <1>15, <1>16, <1>17, <1>18, <1>19, <1>20, <1>21,
     <1>22, <1>23, <1>24, <1>25, <1>26, <1>27, <1>28, <1>29, <1>30, <1>31,
     <1>32, <1>33, <1>34, <1>35, <1>36, <1>37, <1>38, <1>39
  DEF Next, Worker, Handler

-----------------------------------------------------------------------------
(* Where the tick is.                                                      *)

\* Nothing in the log changes under the tick: events are only appended.
LogGrows == Len(events') >= Len(events) /\ \A s \in 1 .. Len(events) : events'[s] = events[s]

\* What a step that leaves the cursor alone must do to keep the position.
LEMMA PositionFrame ==
    ASSUME TypeOK, Position, LogGrows, UNCHANGED cursor,
           \/ UNCHANGED coord
           \/ \E pc \in Places : Goto(pc) /\ coord.pc \notin {"idle", "down"}
                                 /\ pc \notin {"idle", "down", "stopEnded"}
                                 /\ (pc \in Finalizing => coord.pc \in Finalizing)
           \/ \E pc \in Places, r \in Runs : Sweep(pc, r) /\ pc \notin Finalizing
                                             /\ pc \notin {"idle", "down", "stopEnded"}
           \/ coord' = Idle
           \/ coord' = Down
    PROVE  Position'
<1> USE DEF TypeOK, Position, LogGrows
<1>1. coord.seq # 0 => coord.seq \in 1 .. Len(events)
  OBVIOUS
<1>2. CASE UNCHANGED coord
  BY <1>1, <1>2
<1>3. ASSUME NEW pc \in Places, Goto(pc), coord.pc \notin {"idle", "down"},
             pc \notin {"idle", "down", "stopEnded"}, pc \in Finalizing => coord.pc \in Finalizing
      PROVE  Position'
  BY <1>1, <1>3 DEF Goto
<1>4. ASSUME NEW pc \in Places, NEW r \in Runs, Sweep(pc, r), pc \notin Finalizing,
             pc \notin {"idle", "down", "stopEnded"}
      PROVE  Position'
  BY <1>4 DEF Sweep
<1>5. CASE coord' = Idle \/ coord' = Down
  BY <1>5 DEF Idle, Down, Finalizing
<1> QED BY <1>2, <1>3, <1>4, <1>5

\* Every step keeps the position.
LEMMA PositionStep == Base /\ [Next]_vars => Position'
<1> SUFFICES ASSUME TypeOK, Position, [Next]_vars PROVE Position'
  BY DEF Base
<1>1. ASSUME NEW r \in Runs, Dispatch(r) PROVE Position'
  BY <1>1, PositionFrame DEF Dispatch, LogGrows, store
<1>2. ASSUME NEW r \in Runs, RunStart(r) PROVE Position'
  BY <1>2, PositionFrame DEF RunStart, LogGrows, store
<1>3. ASSUME NEW r \in Runs, RunWorkComplete(r) PROVE Position'
  <2>1. LogGrows
    BY <1>3, AppendTyped DEF RunWorkComplete, LogGrows, nextFinalizationTransition, Reports, Handoffs
  <2> QED BY <1>3, <2>1, PositionFrame DEF RunWorkComplete
<1>4. ASSUME NEW r \in Runs, RunFail(r) PROVE Position'
  <2>1. LogGrows
    BY <1>4, FinishTyped DEF RunFail, LogGrows, FailedTaskStatuses, Statuses
  <2> QED BY <1>4, <2>1, PositionFrame DEF RunFail
<1>5. ASSUME NEW r \in Runs, RunFinish(r) PROVE Position'
  <2>1. LogGrows
    BY <1>5, FinishTyped DEF RunFinish, LogGrows, TypeOK
  <2> QED BY <1>5, <2>1, PositionFrame DEF RunFinish
<1>6. ASSUME NEW r \in Runs, Rebase(r) PROVE Position'
  BY <1>6, PositionFrame DEF Rebase, LogGrows, store
<1>7. ASSUME NEW r \in Runs, WorkerDies(r) PROVE Position'
  BY <1>7, PositionFrame DEF WorkerDies, LogGrows, store
<1>8. ASSUME NEW r \in Runs, handleFinalizationRetry(r) PROVE Position'
  BY <1>8, PositionFrame DEF handleFinalizationRetry, LogGrows, store, Places, Awaits, Finalizing
<1>9. ASSUME NEW r \in Runs, ExpireLease(r) PROVE Position'
  BY <1>9, PositionFrame DEF ExpireLease, LogGrows, store, Places, Awaits, Finalizing
<1>10. ASSUME NEW r \in Runs, ProbeDead(r) PROVE Position'
  <2>1. LogGrows
    BY <1>10, FinishTyped DEF ProbeDead, LogGrows, FailedTaskStatuses, Statuses
  <2> QED BY <1>10, <2>1, PositionFrame DEF ProbeDead, Places, Awaits, Finalizing
<1>11. ASSUME NEW r \in Runs, ForceFail(r) PROVE Position'
  <2>1. LogGrows
    BY <1>11, FinishTyped DEF ForceFail, LogGrows, FailedTaskStatuses, Statuses
  <2> QED BY <1>11, <2>1, PositionFrame DEF ForceFail, Places, Awaits, Finalizing
<1>12. ASSUME NEW r \in Runs, NEW e \in Reports, Progress(r, e)
      PROVE Position'
  <2>1. LogGrows
    BY <1>12, AppendTyped DEF Progress, LogGrows
  <2> QED BY <1>12, <2>1, PositionFrame DEF Progress
<1>13. CASE HandleEvent
  <2>1. events[cursor + 1] \in Events /\ cursor + 1 \in 1 .. Len(events)
    BY <1>13 DEF HandleEvent, TypeOK
  <2>2. events[cursor + 1].run \in Runs
    BY <2>1 DEF Events
  <2> QED BY <1>13, <2>1, <2>2 DEF HandleEvent, Position, Finalizing, TypeOK, Handoffs, Terminal
<1>14. CASE StopEnded
  BY <1>14, PositionFrame DEF StopEnded, LogGrows, At, store, Places, Awaits, Finalizing
<1>15. CASE Commit
  BY <1>15 DEF Commit, At, Position, Idle, Finalizing
<1>16. CASE BeginFinalize
  BY <1>16, PositionFrame DEF BeginFinalize, LogGrows, At, store, Places, Awaits, Finalizing
<1>17. CASE MergeBranch
  BY <1>17, PositionFrame DEF MergeBranch, LogGrows, At, store, Places, Awaits, Finalizing
<1>18. CASE NeedsRebase
  BY <1>18, PositionFrame DEF NeedsRebase, LogGrows, At, store, Places, Awaits, Finalizing
<1>19. CASE GitCallFails
  BY <1>19, PositionFrame DEF GitCallFails, LogGrows, At, store, Places, Awaits, Finalizing
<1>20. CASE MarkTaskDone
  BY <1>20, PositionFrame DEF MarkTaskDone, LogGrows, At, store, Places, Awaits, Finalizing
<1>21. CASE FinishMerged
  <2>1. coord.run \in Runs /\ finishRun(coord.run, "done", task) /\ task \in Statuses
    BY <1>21 DEF FinishMerged, Position, At, TypeOK
  <2>2. LogGrows
    BY <2>1, FinishTyped DEF LogGrows
  <2> QED BY <1>21, <2>2, PositionFrame DEF FinishMerged, At, Places, Awaits, Finalizing
<1>22. CASE StopLanded
  BY <1>22, PositionFrame DEF StopLanded, LogGrows, At, store, Places, Awaits, Finalizing
<1>23. CASE Block
  BY <1>23, PositionFrame DEF Block, LogGrows, At, store, Places, Awaits, Finalizing
<1>24. CASE StopBlocked
  BY <1>24, PositionFrame DEF StopBlocked, LogGrows, At, store, Places, Awaits, Finalizing
<1>25. CASE AskRebase
  BY <1>25, PositionFrame DEF AskRebase, LogGrows, At, store, Places, Awaits, Finalizing
<1>26. CASE RebaseAsked
  BY <1>26, PositionFrame DEF RebaseAsked, LogGrows, At, store, Places, Awaits, Finalizing
<1>27. CASE RebaseNotDelivered
  BY <1>27, PositionFrame DEF RebaseNotDelivered, LogGrows, At, store, Places, Awaits, Finalizing
<1>28. CASE OpenPr
  BY <1>28, PositionFrame DEF OpenPr, LogGrows, At, store, Places, Awaits, Finalizing
<1>29. CASE RecordPr
  BY <1>29, PositionFrame DEF RecordPr, LogGrows, At, store, Places, Awaits, Finalizing
<1>30. CASE ReviewSent
  BY <1>30, PositionFrame DEF ReviewSent, LogGrows, At, store, Places, Awaits, Finalizing
<1>31. CASE ReviewNotDelivered
  BY <1>31, PositionFrame DEF ReviewNotDelivered, LogGrows, At, store, Places, Awaits, Finalizing
<1>32. CASE RecordReview
  BY <1>32, PositionFrame DEF RecordReview, LogGrows, At, store, Places, Awaits, Finalizing
<1>33. CASE MergePr
  BY <1>33, PositionFrame DEF MergePr, LogGrows, At, store, Places, Awaits, Finalizing
<1>34. CASE RecordPrMerged
  BY <1>34, PositionFrame DEF RecordPrMerged, LogGrows, At, store, Places, Awaits, Finalizing
<1>35. CASE MainAdvances
  BY <1>35, PositionFrame DEF MainAdvances, LogGrows, store
<1>36. CASE Crash
  BY <1>36, PositionFrame DEF Crash, LogGrows, store
<1>37. CASE Restart
  BY <1>37, PositionFrame DEF Restart, LogGrows, store
<1>38. CASE ResetCursor
  BY <1>38, PositionFrame DEF ResetCursor, At, Position, Finalizing, store
<1>39. CASE UNCHANGED vars
  BY <1>39 DEF vars, Position
<1>40. QED
  BY <1>1, <1>2, <1>3, <1>4, <1>5, <1>6, <1>7, <1>8, <1>9, <1>10, <1>11,
     <1>12, <1>13, <1>14, <1>15, <1>16, <1>17, <1>18, <1>19, <1>20, <1>21,
     <1>22, <1>23, <1>24, <1>25, <1>26, <1>27, <1>28, <1>29, <1>30, <1>31,
     <1>32, <1>33, <1>34, <1>35, <1>36, <1>37, <1>38, <1>39
  DEF Next, Worker, Handler

-----------------------------------------------------------------------------
(* The claims: the rebase budget.                                          *)

\* A run asked to rebase has an answer left in its budget, and a run that has
\* not started has no finalization state.
RowOK(c) ==
    /\ c.retries <= 3
    /\ c.fin = "finalize_rebase_requested" => c.retries <= 2
    /\ c.state \in {"absent", "claimed"} => c.fin = "null"

Budget ==
    /\ \A r \in Runs : RowOK(claim[r])
    /\ coord.pc \in {"askFirst", "askAgain"} => claim[coord.run].retries <= 1

\* Moving a run in progress keeps its row, if the budget covers the move.
LEMMA AdvancedRow ==
    ASSUME NEW c \in ClaimRows, NEW fin \in FinalizationStates, NEW d \in Nat, RowOK(c),
           c.state = "in_progress", c.retries + d <= 3,
           fin = "finalize_rebase_requested" => c.retries + d <= 2
    PROVE  RowOK(Advanced(c, fin, d))
<1>1. /\ Advanced(c, fin, d).retries = c.retries + d
      /\ Advanced(c, fin, d).fin = fin
      /\ Advanced(c, fin, d).state = c.state
  BY DEF Advanced, ClaimRows
<1> QED BY <1>1 DEF RowOK

\* Ending a run clears its row.
LEMMA EndedRow ==
    ASSUME NEW c \in ClaimRows, NEW outcome \in {"done", "failed"}
    PROVE  /\ RowOK(EndedClaim(c, outcome))
           /\ EndedClaim(c, outcome).retries = 0
           /\ EndedClaim(c, outcome).fin = "null"
           /\ EndedClaim(c, outcome).state = outcome
BY DEF EndedClaim, ClaimRows, RowOK

\* The reducer counts an answer only to a request.
LEMMA ReducerRow ==
    ASSUME NEW c \in ClaimRows, NEW e, RowOK(c)
    PROVE  RowOK(reduceLifecycleEvent(e, c))
<1>1. c.retries \in Nat
  BY DEF ClaimRows
<1>2. CASE e = "finalize_rebase_started" /\ c.state = "in_progress"
           /\ c.fin = "finalize_rebase_requested"
  <2>1. reduceLifecycleEvent(e, c) = Advanced(c, "finalize_rebase_in_progress", 1)
    BY <1>2 DEF reduceLifecycleEvent
  <2>2. c.retries + 1 <= 3
    BY <1>1, <1>2 DEF RowOK
  <2> QED BY <1>2, <2>1, <2>2, AdvancedRow DEF FinalizationStates
<1>3. CASE e = "work_complete" /\ c.state = "in_progress" /\ c.fin = "null"
  <2>1. reduceLifecycleEvent(e, c) = Advanced(c, "awaiting_finalize", 0)
    BY <1>3 DEF reduceLifecycleEvent
  <2>2. c.retries + 0 <= 3
    BY <1>1 DEF RowOK
  <2> QED BY <1>3, <2>1, <2>2, AdvancedRow DEF FinalizationStates
<1>4. CASE e = "ready_to_merge" /\ c.state = "in_progress"
           /\ c.fin = "finalize_rebase_in_progress"
  <2>1. reduceLifecycleEvent(e, c) = Advanced(c, "ready_to_merge", 0)
    BY <1>4 DEF reduceLifecycleEvent
  <2>2. c.retries + 0 <= 3
    BY <1>1 DEF RowOK
  <2> QED BY <1>4, <2>1, <2>2, AdvancedRow DEF FinalizationStates
<1> QED BY <1>2, <1>3, <1>4 DEF reduceLifecycleEvent

\* A state other than a new request leaves the count alone.
LEMMA SetRow ==
    ASSUME TypeOK, Budget, NEW r \in Runs, NEW fin \in FinalizationStates,
           fin # "finalize_rebase_requested", setRunFinalizationState(r, fin, 0)
    PROVE  \A q \in Runs : RowOK(claim'[q])
<1>1. claim[r] \in ClaimRows /\ claim[r].retries \in Nat
  BY DEF TypeOK, ClaimRows
<1>2. ASSUME claim[r].state = "in_progress" PROVE RowOK(Advanced(claim[r], fin, 0))
  BY <1>1, <1>2, AdvancedRow DEF Budget, RowOK
<1> QED BY <1>2 DEF setRunFinalizationState, InProgress, Budget, TypeOK

\* A request costs nothing until it is delivered and one unit then.
LEMMA RequestRow ==
    ASSUME TypeOK, Budget, NEW r \in Runs, NEW d \in {0, 1}, claim[r].retries + d <= 2,
           setRunFinalizationState(r, "finalize_rebase_requested", d)
    PROVE  \A q \in Runs : RowOK(claim'[q])
<1>1. claim[r] \in ClaimRows /\ claim[r].retries \in Nat
  BY DEF TypeOK, ClaimRows
<1>2. ASSUME claim[r].state = "in_progress"
      PROVE  RowOK(Advanced(claim[r], "finalize_rebase_requested", d))
  <2>1. claim[r].retries + d <= 3 /\ d \in Nat
    BY <1>1
  <2> QED BY <1>1, <1>2, <2>1, AdvancedRow DEF Budget, FinalizationStates
<1> QED BY <1>2 DEF setRunFinalizationState, InProgress, Budget, TypeOK

\* finishRun clears the run's row and touches no other.
LEMMA FinishRow ==
    ASSUME TypeOK, Budget, NEW r \in Runs, NEW outcome \in {"done", "failed"}, NEW back,
           finishRun(r, outcome, back)
    PROVE  \A q \in Runs : RowOK(claim'[q]) /\ claim'[q].retries <= claim[q].retries
<1>1. claim[r] \in ClaimRows /\ \A q \in Runs : claim[q].retries \in Nat
  BY DEF TypeOK, ClaimRows
<1>2. /\ RowOK(EndedClaim(claim[r], outcome))
      /\ EndedClaim(claim[r], outcome).retries <= claim[r].retries
  BY <1>1, EndedRow
<1> QED BY <1>1, <1>2 DEF finishRun, Budget, TypeOK

\* Every step keeps the budget.
LEMMA BudgetStep == Base /\ Base' /\ Budget /\ [Next]_vars => Budget'
<1> SUFFICES ASSUME TypeOK, Position, TypeOK', Budget, [Next]_vars PROVE Budget'
  BY DEF Base
<1>1. ASSUME NEW r \in Runs, Dispatch(r) PROVE Budget'
  BY <1>1 DEF Dispatch, Budget, RowOK, TypeOK, ClaimRows, At
<1>2. ASSUME NEW r \in Runs, RunStart(r) PROVE Budget'
  <2>1. \A q \in Runs : claim'[q].retries = claim[q].retries /\ claim'[q].fin = claim[q].fin
    BY <1>2 DEF RunStart, TypeOK, ClaimRows
  <2>2. \A q \in Runs : RowOK(claim'[q])
    BY <1>2, <2>1 DEF RunStart, Budget, RowOK, TypeOK, ClaimRows
  <2> QED BY <1>2, <2>1, <2>2 DEF RunStart, Budget, Position
<1>3. ASSUME NEW r \in Runs, RunWorkComplete(r) PROVE Budget'
  BY <1>3 DEF RunWorkComplete, store, Budget
<1>4. ASSUME NEW r \in Runs, RunFail(r) PROVE Budget'
  <2>1. \A q \in Runs : RowOK(claim'[q]) /\ claim'[q].retries <= claim[q].retries
    BY <1>4, FinishRow DEF RunFail
  <2>2. UNCHANGED coord
    BY <1>4 DEF RunFail
  <2>3. coord.pc \in {"askFirst", "askAgain"} => claim'[coord.run].retries <= 1
    <3>1. ASSUME coord.pc \in {"askFirst", "askAgain"} PROVE claim'[coord.run].retries <= 1
      <4>1. coord.run \in Runs
        BY <3>1 DEF Position
      <4>2. claim[coord.run].retries \in Nat /\ claim'[coord.run].retries \in Nat
        BY <4>1 DEF TypeOK, ClaimRows
      <4> QED BY <2>1, <3>1, <4>1, <4>2 DEF Budget
    <3> QED BY <3>1
  <2> QED BY <2>1, <2>2, <2>3 DEF Budget
<1>5. ASSUME NEW r \in Runs, RunFinish(r) PROVE Budget'
  <2>1. \A q \in Runs : RowOK(claim'[q]) /\ claim'[q].retries <= claim[q].retries
    BY <1>5, FinishRow DEF RunFinish
  <2>2. UNCHANGED coord
    BY <1>5 DEF RunFinish
  <2>3. coord.pc \in {"askFirst", "askAgain"} => claim'[coord.run].retries <= 1
    <3>1. ASSUME coord.pc \in {"askFirst", "askAgain"} PROVE claim'[coord.run].retries <= 1
      <4>1. coord.run \in Runs
        BY <3>1 DEF Position
      <4>2. claim[coord.run].retries \in Nat /\ claim'[coord.run].retries \in Nat
        BY <4>1 DEF TypeOK, ClaimRows
      <4> QED BY <2>1, <3>1, <4>1, <4>2 DEF Budget
    <3> QED BY <3>1
  <2> QED BY <2>1, <2>2, <2>3 DEF Budget
<1>6. ASSUME NEW r \in Runs, Rebase(r) PROVE Budget'
  BY <1>6 DEF Rebase, store, Budget
<1>7. ASSUME NEW r \in Runs, WorkerDies(r) PROVE Budget'
  BY <1>7 DEF WorkerDies, store, Budget
<1>8. ASSUME NEW r \in Runs, handleFinalizationRetry(r) PROVE Budget'
  BY <1>8 DEF handleFinalizationRetry, store, Budget, Sweep
<1>9. ASSUME NEW r \in Runs, ExpireLease(r) PROVE Budget'
  <2>1. \A q \in Runs : claim'[q].retries = claim[q].retries /\ claim'[q].fin = claim[q].fin
    BY <1>9 DEF ExpireLease, TypeOK, ClaimRows
  <2>2. \A q \in Runs : RowOK(claim'[q])
    BY <1>9, <2>1 DEF ExpireLease, Budget, RowOK, TypeOK, ClaimRows
  <2> QED BY <1>9, <2>2 DEF ExpireLease, Budget, Sweep
<1>10. ASSUME NEW r \in Runs, ProbeDead(r) PROVE Budget'
  BY <1>10, FinishRow DEF ProbeDead, Sweep, Budget
<1>11. ASSUME NEW r \in Runs, ForceFail(r) PROVE Budget'
  BY <1>11, FinishRow DEF ForceFail, Sweep, Budget
<1>12. ASSUME NEW r \in Runs, NEW e \in Reports, Progress(r, e)
      PROVE Budget'
  BY <1>12 DEF Progress, store, Budget
<1>13. CASE HandleEvent
  <2>1. \A q \in Runs : RowOK(claim'[q])
    BY <1>13, ReducerRow DEF HandleEvent, Budget, TypeOK
  <2> QED BY <1>13, <2>1 DEF HandleEvent, Budget
<1>14. CASE StopEnded
  BY <1>14 DEF StopEnded, store, Budget, Goto, TypeOK
<1>15. CASE Commit
  BY <1>15 DEF Commit, store, Budget, Idle, Down
<1>16. CASE BeginFinalize
  BY <1>16 DEF BeginFinalize, store, Budget, Goto, TypeOK
<1>17. CASE MergeBranch
  BY <1>17 DEF MergeBranch, store, Budget, Goto, TypeOK
<1>18. CASE NeedsRebase
  BY <1>18 DEF NeedsRebase, store, Budget, Goto, TypeOK
<1>19. CASE GitCallFails
  BY <1>19 DEF GitCallFails, store, Budget, Goto, TypeOK
<1>20. CASE MarkTaskDone
  BY <1>20 DEF MarkTaskDone, Budget, Goto, TypeOK
<1>21. CASE FinishMerged
  <2>1. coord.run \in Runs /\ finishRun(coord.run, "done", task)
    BY <1>21 DEF FinishMerged, Position, At
  <2> QED BY <1>21, <2>1, FinishRow DEF FinishMerged, Goto, Budget, TypeOK
<1>22. CASE StopLanded
  BY <1>22 DEF StopLanded, store, Budget, Goto, TypeOK
<1>23. CASE Block
  <2>1. coord.run \in Runs /\ setRunFinalizationState(coord.run, "blocked_finalize", 0)
    BY <1>23 DEF Block, Position, At
  <2>2. \A q \in Runs : RowOK(claim'[q])
    BY <2>1, SetRow DEF FinalizationStates
  <2> QED BY <1>23, <2>2 DEF Block, Goto, Budget, TypeOK
<1>24. CASE StopBlocked
  BY <1>24 DEF StopBlocked, store, Budget, Goto, TypeOK
<1>25. CASE AskRebase
  <2>1. coord.run \in Runs /\ claim[coord.run].retries \in Nat
    BY <1>25 DEF AskRebase, Position, At, TypeOK, ClaimRows
  <2>2. CASE claim[coord.run].retries >= 2 /\ UNCHANGED claim /\ Goto("block")
    BY <2>2 DEF Goto, Budget, TypeOK
  <2>3. CASE /\ claim[coord.run].retries < 2
             /\ setRunFinalizationState(coord.run, "finalize_rebase_requested", 0)
             /\ UNCHANGED events
    <3>1. \A q \in Runs : RowOK(claim'[q])
      BY <2>1, <2>3, RequestRow
    <3>2. Advanced(claim[coord.run], "finalize_rebase_requested", 0).retries <= 1
      BY <2>1, <2>3 DEF Advanced, TypeOK, ClaimRows
    <3>3. claim'[coord.run].retries <= 1
      BY <2>1, <2>3, <3>2 DEF setRunFinalizationState, TypeOK
    <3>4. coord'.run = coord.run
      BY <1>25 DEF AskRebase, Goto, TypeOK
    <3> QED BY <3>1, <3>3, <3>4 DEF Budget
  <2> QED BY <1>25, <2>2, <2>3 DEF AskRebase
<1>26. CASE RebaseAsked
  <2>1. coord.run \in Runs /\ claim[coord.run].retries \in Nat
    BY <1>26 DEF RebaseAsked, Position, TypeOK, ClaimRows
  <2>2. claim[coord.run].retries + 1 <= 2
    BY <1>26, <2>1 DEF RebaseAsked, Budget
  <2>3. \A q \in Runs : RowOK(claim'[q])
    BY <1>26, <2>1, <2>2, RequestRow DEF RebaseAsked
  <2> QED BY <1>26, <2>3 DEF RebaseAsked, Goto, Budget, TypeOK
<1>27. CASE RebaseNotDelivered
  BY <1>27 DEF RebaseNotDelivered, store, Budget, Goto, TypeOK
<1>28. CASE OpenPr
  BY <1>28 DEF OpenPr, store, Budget, Goto, TypeOK
<1>29. CASE RecordPr
  <2> DEFINE n(c) == [Advanced(c, "pr_created", 0) EXCEPT !.prSeq = coord.seq]
  <2>1. ASSUME NEW c \in ClaimRows, RowOK(c), c.state = "in_progress"
        PROVE  RowOK(n(c))
    <3>1. c.retries \in Nat
      BY DEF ClaimRows
    <3>2. RowOK(Advanced(c, "pr_created", 0))
      BY <2>1, <3>1, AdvancedRow DEF FinalizationStates, RowOK
    <3>3. Advanced(c, "pr_created", 0) \in ClaimRows
      BY AdvancedTyped DEF FinalizationStates
    <3> QED BY <3>2, <3>3 DEF RowOK, ClaimRows
  <2>2. \A q \in Runs : RowOK(claim'[q])
    BY <1>29, <2>1 DEF RecordPr, InProgress, Budget, TypeOK
  <2> QED BY <1>29, <2>2 DEF RecordPr, Goto, Budget, TypeOK
<1>30. CASE ReviewSent
  BY <1>30 DEF ReviewSent, store, Budget, Goto, TypeOK
<1>31. CASE ReviewNotDelivered
  BY <1>31 DEF ReviewNotDelivered, store, Budget, Goto, TypeOK
<1>32. CASE RecordReview
  <2>1. coord.run \in Runs /\ setRunFinalizationState(coord.run, "pr_review_in_progress", 0)
    BY <1>32 DEF RecordReview, Position, At
  <2>2. \A q \in Runs : RowOK(claim'[q])
    BY <2>1, SetRow DEF FinalizationStates
  <2> QED BY <1>32, <2>2 DEF RecordReview, Goto, Budget, TypeOK
<1>33. CASE MergePr
  BY <1>33 DEF MergePr, store, Budget, Goto, TypeOK
<1>34. CASE RecordPrMerged
  <2>1. coord.run \in Runs /\ setRunFinalizationState(coord.run, "pr_merged", 0)
    BY <1>34 DEF RecordPrMerged, Position, At
  <2>2. \A q \in Runs : RowOK(claim'[q])
    BY <2>1, SetRow DEF FinalizationStates
  <2> QED BY <1>34, <2>2 DEF RecordPrMerged, Goto, Budget, TypeOK
<1>35. CASE MainAdvances
  BY <1>35 DEF MainAdvances, store, Budget
<1>36. CASE Crash
  BY <1>36 DEF Crash, store, Budget, Idle, Down
<1>37. CASE Restart
  BY <1>37 DEF Restart, store, Budget, Idle, Down
<1>38. CASE ResetCursor
  BY <1>38 DEF ResetCursor, store, Budget
<1>39. CASE UNCHANGED vars
  BY <1>39 DEF vars, Budget
<1>40. QED
  BY <1>1, <1>2, <1>3, <1>4, <1>5, <1>6, <1>7, <1>8, <1>9, <1>10, <1>11,
     <1>12, <1>13, <1>14, <1>15, <1>16, <1>17, <1>18, <1>19, <1>20, <1>21,
     <1>22, <1>23, <1>24, <1>25, <1>26, <1>27, <1>28, <1>29, <1>30, <1>31,
     <1>32, <1>33, <1>34, <1>35, <1>36, <1>37, <1>38, <1>39
  DEF Next, Worker, Handler

-----------------------------------------------------------------------------
(* A waiting run has its handoff ahead of the cursor.                      *)

Owned(c) == c.state = "in_progress" /\ c.fin \in EventOwned
Pending(r) == \E s \in cursor + 1 .. Len(events) :
                  events[s].run = r /\ events[s].event \in Handoffs

\* Once the handoff of a run is on its way to being acknowledged, the run no
\* longer waits for it.
Acknowledging == {"stopBlocked", "stopLanded", "askFirst", "askAgain", "commit"}
Settled ==
    coord.pc \in Acknowledging /\ coord.seq # 0 /\ events[coord.seq].event \in Handoffs =>
        ~Owned(claim[coord.run])

Waiting == (\A r \in Runs : Owned(claim[r]) => Pending(r)) /\ Settled

NoNewWait == \A r \in Runs : Owned(claim'[r]) => Owned(claim[r])

\* A step that makes no run wait and does not move the cursor forward.
LEMMA WaitFrame ==
    ASSUME TypeOK, TypeOK', Waiting, NoNewWait, LogGrows, cursor' \in 0 .. cursor
    PROVE  \A r \in Runs : Owned(claim'[r]) => Pending(r)'
<1> SUFFICES ASSUME NEW r \in Runs, Owned(claim'[r]) PROVE Pending(r)'
  OBVIOUS
<1>1. Pending(r)
  BY DEF NoNewWait, Waiting
<1>2. PICK s \in cursor + 1 .. Len(events) : events[s].run = r /\ events[s].event \in Handoffs
  BY <1>1 DEF Pending
<1>3. s \in cursor' + 1 .. Len(events') /\ s \in 1 .. Len(events)
  <2>1. events \in Seq(Events) /\ events' \in Seq(Events) /\ cursor \in 0 .. Len(events)
    BY DEF TypeOK
  <2>2. Len(events') >= Len(events)
    BY DEF LogGrows
  <2>3. Len(events) \in Nat /\ Len(events') \in Nat
    BY <2>1
  <2>4. ASSUME NEW c \in Nat, NEW d \in 0 .. c, NEW n \in Nat, NEW m \in Nat, m >= n,
               NEW i \in c + 1 .. n
        PROVE  i \in d + 1 .. m /\ i \in 1 .. n
    BY <2>4
  <2>5. cursor \in Nat
    BY <2>1, <2>3
  <2> QED BY <2>2, <2>3, <2>4, <2>5
<1>4. events'[s] = events[s]
  BY <1>3 DEF LogGrows
<1> QED BY <1>2, <1>3, <1>4 DEF Pending

\* A step that leaves the tick where it is, and makes no run wait.
LEMMA SettledFrame ==
    ASSUME TypeOK, Position, Waiting, NoNewWait, LogGrows, UNCHANGED coord
    PROVE  Settled'
<1> SUFFICES ASSUME coord.pc \in Acknowledging, coord.seq # 0,
                    events'[coord.seq].event \in Handoffs
             PROVE  ~Owned(claim'[coord.run])
  BY DEF Settled
<1>1. coord.run \in Runs /\ coord.seq \in 1 .. Len(events)
  BY DEF Position, TypeOK, Acknowledging
<1>2. events'[coord.seq] = events[coord.seq]
  BY <1>1 DEF LogGrows
<1> QED BY <1>1, <1>2 DEF Waiting, Settled, NoNewWait

\* finishRun ends the wait of its run.
LEMMA FinishWait ==
    ASSUME TypeOK, NEW r \in Runs, NEW outcome \in {"done", "failed"}, NEW back,
           finishRun(r, outcome, back)
    PROVE  NoNewWait /\ ~Owned(claim'[r])
<1>1. claim[r] \in ClaimRows
  BY DEF TypeOK
<1>2. EndedClaim(claim[r], outcome).state = outcome
  BY <1>1, EndedRow
<1> QED BY <1>2 DEF finishRun, NoNewWait, Owned, Active, Live, TypeOK

\* A state nothing but an event leaves is never set by this one.
LEMMA SetWait ==
    ASSUME TypeOK, NEW r \in Runs, NEW fin \in FinalizationStates, NEW d \in Nat,
           fin \notin EventOwned, setRunFinalizationState(r, fin, d)
    PROVE  NoNewWait /\ ~Owned(claim'[r])
<1>1. Advanced(claim[r], fin, d).fin = fin
  BY DEF Advanced, TypeOK, ClaimRows
<1> QED BY <1>1 DEF setRunFinalizationState, InProgress, NoNewWait, Owned, TypeOK

\* The finalizer may make the run of its own handoff wait.
LEMMA HandoffWait ==
    ASSUME TypeOK, Position, Waiting, coord.pc \in Finalizing, UNCHANGED <<events, cursor>>,
           \A q \in Runs \ {coord.run} : claim'[q] = claim[q]
    PROVE  \A r \in Runs : Owned(claim'[r]) => Pending(r)'
<1>1. /\ coord.seq \in cursor + 1 .. Len(events)
      /\ events[coord.seq].run = coord.run
      /\ events[coord.seq].event \in Handoffs
  BY DEF Position, TypeOK, Finalizing
<1> QED BY <1>1 DEF Pending, Waiting

\* Every step keeps the waiting runs' handoffs.
LEMMA WaitingStep == Base /\ Base' /\ Budget /\ Waiting /\ [Next]_vars => Waiting'
<1> SUFFICES ASSUME TypeOK, TypeOK', Position, Budget, Waiting, [Next]_vars PROVE Waiting'
  BY DEF Base
<1>1. ASSUME NEW r \in Runs, Dispatch(r) PROVE Waiting'
  <2>1. NoNewWait
    BY <1>1 DEF Dispatch, NoNewWait, Owned, TypeOK, ClaimRows
  <2>2. LogGrows
    BY <1>1 DEF Dispatch, LogGrows, store
  <2>3. UNCHANGED <<coord, cursor>> /\ cursor' \in 0 .. cursor
    BY <1>1 DEF Dispatch, TypeOK
  <2> QED BY <2>1, <2>2, <2>3, WaitFrame, SettledFrame DEF Waiting
<1>2. ASSUME NEW r \in Runs, RunStart(r) PROVE Waiting'
  <2>1. NoNewWait
    BY <1>2 DEF RunStart, NoNewWait, Owned, EventOwned, Budget, RowOK, TypeOK, ClaimRows
  <2>2. LogGrows
    BY <1>2 DEF RunStart, LogGrows, store
  <2>3. UNCHANGED <<coord, cursor>> /\ cursor' \in 0 .. cursor
    BY <1>2 DEF RunStart, TypeOK
  <2> QED BY <2>1, <2>2, <2>3, WaitFrame, SettledFrame DEF Waiting
<1>3. ASSUME NEW r \in Runs, RunWorkComplete(r) PROVE Waiting'
  <2>1. NoNewWait
    BY <1>3 DEF RunWorkComplete, NoNewWait, store
  <2>2. LogGrows
    BY <1>3, AppendTyped DEF RunWorkComplete, LogGrows, nextFinalizationTransition,
                              Reports, Handoffs
  <2>3. UNCHANGED <<coord, cursor>> /\ cursor' \in 0 .. cursor
    BY <1>3 DEF RunWorkComplete, TypeOK
  <2> QED BY <2>1, <2>2, <2>3, WaitFrame, SettledFrame DEF Waiting
<1>4. ASSUME NEW r \in Runs, RunFail(r) PROVE Waiting'
  <2>1. NoNewWait
    BY <1>4, FinishWait DEF RunFail
  <2>2. LogGrows
    BY <1>4, FinishTyped DEF RunFail, LogGrows, FailedTaskStatuses, Statuses
  <2>3. UNCHANGED <<coord, cursor>> /\ cursor' \in 0 .. cursor
    BY <1>4 DEF RunFail, TypeOK
  <2> QED BY <2>1, <2>2, <2>3, WaitFrame, SettledFrame DEF Waiting
<1>5. ASSUME NEW r \in Runs, RunFinish(r) PROVE Waiting'
  <2>1. NoNewWait
    BY <1>5, FinishWait DEF RunFinish
  <2>2. LogGrows
    BY <1>5, FinishTyped DEF RunFinish, LogGrows, TypeOK
  <2>3. UNCHANGED <<coord, cursor>> /\ cursor' \in 0 .. cursor
    BY <1>5 DEF RunFinish, TypeOK
  <2> QED BY <2>1, <2>2, <2>3, WaitFrame, SettledFrame DEF Waiting
<1>6. ASSUME NEW r \in Runs, Rebase(r) PROVE Waiting'
  <2>1. NoNewWait
    BY <1>6 DEF Rebase, NoNewWait, store
  <2>2. LogGrows
    BY <1>6 DEF Rebase, LogGrows, store
  <2>3. UNCHANGED <<coord, cursor>> /\ cursor' \in 0 .. cursor
    BY <1>6 DEF Rebase, TypeOK
  <2> QED BY <2>1, <2>2, <2>3, WaitFrame, SettledFrame DEF Waiting
<1>7. ASSUME NEW r \in Runs, WorkerDies(r) PROVE Waiting'
  <2>1. NoNewWait
    BY <1>7 DEF WorkerDies, NoNewWait, store
  <2>2. LogGrows
    BY <1>7 DEF WorkerDies, LogGrows, store
  <2>3. UNCHANGED <<coord, cursor>> /\ cursor' \in 0 .. cursor
    BY <1>7 DEF WorkerDies, TypeOK
  <2> QED BY <2>1, <2>2, <2>3, WaitFrame, SettledFrame DEF Waiting
<1>8. ASSUME NEW r \in Runs, handleFinalizationRetry(r) PROVE Waiting'
  <2>1. NoNewWait
    BY <1>8 DEF handleFinalizationRetry, NoNewWait, store
  <2>2. LogGrows
    BY <1>8 DEF handleFinalizationRetry, LogGrows, store
  <2>3. cursor' \in 0 .. cursor /\ Settled'
    BY <1>8 DEF handleFinalizationRetry, Sweep, Settled, TypeOK
  <2> QED BY <2>1, <2>2, <2>3, WaitFrame DEF Waiting
<1>9. ASSUME NEW r \in Runs, ExpireLease(r) PROVE Waiting'
  <2>1. NoNewWait
    BY <1>9 DEF ExpireLease, NoNewWait, Owned, TypeOK, ClaimRows
  <2>2. LogGrows
    BY <1>9 DEF ExpireLease, LogGrows, store
  <2>3. cursor' \in 0 .. cursor /\ Settled'
    BY <1>9 DEF ExpireLease, Sweep, Settled, TypeOK
  <2> QED BY <2>1, <2>2, <2>3, WaitFrame DEF Waiting
<1>10. ASSUME NEW r \in Runs, ProbeDead(r) PROVE Waiting'
  <2>1. NoNewWait
    BY <1>10, FinishWait DEF ProbeDead
  <2>2. LogGrows
    BY <1>10, FinishTyped DEF ProbeDead, LogGrows, FailedTaskStatuses, Statuses
  <2>3. cursor' \in 0 .. cursor /\ Settled'
    BY <1>10 DEF ProbeDead, Sweep, Settled, TypeOK
  <2> QED BY <2>1, <2>2, <2>3, WaitFrame DEF Waiting
<1>11. ASSUME NEW r \in Runs, ForceFail(r) PROVE Waiting'
  <2>1. NoNewWait
    BY <1>11, FinishWait DEF ForceFail
  <2>2. LogGrows
    BY <1>11, FinishTyped DEF ForceFail, LogGrows, FailedTaskStatuses, Statuses
  <2>3. cursor' \in 0 .. cursor /\ Settled'
    BY <1>11 DEF ForceFail, Sweep, Settled, TypeOK
  <2> QED BY <2>1, <2>2, <2>3, WaitFrame DEF Waiting
<1>12. ASSUME NEW r \in Runs, NEW e \in Reports, Progress(r, e)
      PROVE Waiting'
  <2>1. NoNewWait
    BY <1>12 DEF Progress, NoNewWait, store
  <2>2. LogGrows
    BY <1>12, AppendTyped DEF Progress, LogGrows
  <2>3. UNCHANGED <<coord, cursor>> /\ cursor' \in 0 .. cursor
    BY <1>12 DEF Progress, TypeOK
  <2> QED BY <2>1, <2>2, <2>3, WaitFrame, SettledFrame DEF Waiting
<1>13. CASE HandleEvent
  <2> DEFINE e == events[cursor + 1]
  <2>1. cursor + 1 \in cursor + 1 .. Len(events) /\ e \in Events
    BY <1>13 DEF HandleEvent, TypeOK
  <2>2. e.run \in Runs
    BY <2>1 DEF Events
  <2>3. UNCHANGED <<events, cursor>>
    BY <1>13 DEF HandleEvent
  <2>4. \A q \in Runs \ {e.run} : claim'[q] = claim[q]
    BY <1>13 DEF HandleEvent, TypeOK
  <2>5. claim'[e.run] = reduceLifecycleEvent(e.event, claim[e.run])
    BY <1>13, <2>2 DEF HandleEvent, TypeOK
  <2>6. CASE e.event \in Handoffs
    <3>1. Pending(e.run)
      BY <2>1, <2>6 DEF Pending
    <3>2. \A r \in Runs : Owned(claim'[r]) => Pending(r)
      BY <2>4, <3>1 DEF Waiting
    <3>3. Settled'
      BY <1>13, <2>6 DEF HandleEvent, Settled, Acknowledging
    <3> QED BY <2>3, <3>2, <3>3 DEF Waiting, Pending
  <2>7. CASE e.event \notin Handoffs
    <3>1. ~Owned(Advanced(claim[e.run], "finalize_rebase_in_progress", 1))
      BY <2>2 DEF Owned, EventOwned, Advanced, TypeOK, ClaimRows
    <3>2. Owned(claim'[e.run]) => Owned(claim[e.run])
      BY <2>5, <2>7, <3>1 DEF reduceLifecycleEvent, Handoffs
    <3>3. NoNewWait /\ LogGrows /\ cursor' \in 0 .. cursor
      BY <2>3, <2>4, <3>2 DEF NoNewWait, LogGrows, TypeOK
    <3>4. Settled'
      BY <1>13, <2>3, <2>7 DEF HandleEvent, Settled
    <3> QED BY <3>3, <3>4, WaitFrame DEF Waiting
  <2> QED BY <2>6, <2>7
<1>14. CASE StopEnded
  <2>1. NoNewWait /\ LogGrows
    BY <1>14 DEF StopEnded, NoNewWait, LogGrows, store
  <2>2. cursor' \in 0 .. cursor /\ Settled'
    BY <1>14 DEF StopEnded, Goto, At, Settled, Acknowledging, Position, TypeOK, store
  <2> QED BY <2>1, <2>2, WaitFrame DEF Waiting
<1>15. CASE Commit
  <2>1. Settled'
    BY <1>15 DEF Commit, Settled, Idle, Acknowledging
  <2>2. CASE coord.seq = 0
    <3>1. NoNewWait /\ LogGrows /\ cursor' \in 0 .. cursor
      BY <1>15, <2>2 DEF Commit, NoNewWait, LogGrows, store, TypeOK
    <3> QED BY <2>1, <3>1, WaitFrame DEF Waiting
  <2>3. CASE coord.seq # 0
    <3>1. coord.seq = cursor + 1 /\ events[cursor + 1].run = coord.run /\ cursor' = cursor + 1
      BY <1>15, <2>3 DEF Commit, Position, TypeOK
    <3>2. UNCHANGED <<claim, events>>
      BY <1>15 DEF Commit, store
    <3>3. ASSUME NEW r \in Runs, Owned(claim[r]) PROVE Pending(r)'
      <4>1. PICK s \in cursor + 1 .. Len(events) : events[s].run = r /\ events[s].event \in Handoffs
        BY <3>3 DEF Waiting, Pending
      <4>2. s # cursor + 1
        BY <1>15, <2>3, <3>1, <3>3, <4>1 DEF Commit, At, Waiting, Settled, Acknowledging
      <4>3. s \in cursor' + 1 .. Len(events')
        BY <3>1, <3>2, <4>2 DEF TypeOK
      <4> QED BY <3>2, <4>1, <4>3 DEF Pending
    <3> QED BY <2>1, <3>2, <3>3 DEF Waiting
  <2> QED BY <2>2, <2>3
<1>16. CASE BeginFinalize
  <2>1. NoNewWait /\ LogGrows
    BY <1>16 DEF BeginFinalize, NoNewWait, LogGrows, store
  <2>2. cursor' \in 0 .. cursor /\ Settled'
    BY <1>16 DEF BeginFinalize, Goto, At, Settled, Acknowledging, Waiting, TypeOK, store, stalePrHandoff, Owned, EventOwned
  <2> QED BY <2>1, <2>2, WaitFrame DEF Waiting
<1>17. CASE MergeBranch
  <2>1. NoNewWait /\ LogGrows
    BY <1>17 DEF MergeBranch, NoNewWait, LogGrows, store
  <2>2. cursor' \in 0 .. cursor /\ Settled'
    BY <1>17 DEF MergeBranch, Goto, At, Settled, Acknowledging, Waiting, TypeOK, store
  <2> QED BY <2>1, <2>2, WaitFrame DEF Waiting
<1>18. CASE NeedsRebase
  <2>1. NoNewWait /\ LogGrows
    BY <1>18 DEF NeedsRebase, NoNewWait, LogGrows, store
  <2>2. cursor' \in 0 .. cursor /\ Settled'
    BY <1>18 DEF NeedsRebase, Goto, At, Settled, Acknowledging, Waiting, TypeOK, store
  <2> QED BY <2>1, <2>2, WaitFrame DEF Waiting
<1>19. CASE GitCallFails
  <2>1. NoNewWait /\ LogGrows
    BY <1>19 DEF GitCallFails, NoNewWait, LogGrows, store
  <2>2. cursor' \in 0 .. cursor /\ Settled'
    BY <1>19 DEF GitCallFails, Goto, At, Settled, Acknowledging, Waiting, TypeOK, store
  <2> QED BY <2>1, <2>2, WaitFrame DEF Waiting
<1>20. CASE MarkTaskDone
  <2>1. NoNewWait /\ LogGrows
    BY <1>20 DEF MarkTaskDone, NoNewWait, LogGrows, store
  <2>2. cursor' \in 0 .. cursor /\ Settled'
    BY <1>20 DEF MarkTaskDone, Goto, At, Settled, Acknowledging, Waiting, TypeOK, store
  <2> QED BY <2>1, <2>2, WaitFrame DEF Waiting
<1>21. CASE FinishMerged
  <2>1. coord.run \in Runs /\ finishRun(coord.run, "done", task) /\ task \in Statuses
    BY <1>21 DEF FinishMerged, Position, At, TypeOK
  <2>2. NoNewWait /\ ~Owned(claim'[coord.run])
    BY <2>1, FinishWait
  <2>3. LogGrows
    BY <2>1, FinishTyped DEF LogGrows
  <2>4. cursor' \in 0 .. cursor /\ Settled'
    BY <1>21, <2>2 DEF FinishMerged, Goto, Settled, TypeOK
  <2> QED BY <2>2, <2>3, <2>4, WaitFrame DEF Waiting
<1>22. CASE StopLanded
  <2>1. NoNewWait /\ LogGrows
    BY <1>22 DEF StopLanded, NoNewWait, LogGrows, store
  <2>2. cursor' \in 0 .. cursor /\ Settled'
    BY <1>22 DEF StopLanded, Goto, At, Settled, Acknowledging, Waiting, TypeOK, store
  <2> QED BY <2>1, <2>2, WaitFrame DEF Waiting
<1>23. CASE Block
  <2>1. coord.run \in Runs /\ setRunFinalizationState(coord.run, "blocked_finalize", 0)
    BY <1>23 DEF Block, Position, At
  <2>2. NoNewWait /\ ~Owned(claim'[coord.run])
    BY <2>1, SetWait DEF FinalizationStates, EventOwned
  <2>3. LogGrows /\ cursor' \in 0 .. cursor /\ Settled'
    BY <1>23, <2>2 DEF Block, Goto, Settled, LogGrows, TypeOK
  <2> QED BY <2>2, <2>3, WaitFrame DEF Waiting
<1>24. CASE StopBlocked
  <2>1. NoNewWait /\ LogGrows
    BY <1>24 DEF StopBlocked, NoNewWait, LogGrows, store
  <2>2. cursor' \in 0 .. cursor /\ Settled'
    BY <1>24 DEF StopBlocked, Goto, At, Settled, Acknowledging, Waiting, TypeOK, store
  <2> QED BY <2>1, <2>2, WaitFrame DEF Waiting
<1>25. CASE AskRebase
  <2>1. coord.run \in Runs /\ LogGrows /\ cursor' \in 0 .. cursor
    BY <1>25 DEF AskRebase, Position, At, LogGrows, TypeOK
  <2>2. CASE Goto("block") /\ UNCHANGED claim
    <3>1. NoNewWait /\ Settled'
      BY <2>2 DEF NoNewWait, Goto, Settled, Acknowledging, TypeOK
    <3> QED BY <2>1, <3>1, WaitFrame DEF Waiting
  <2>3. CASE setRunFinalizationState(coord.run, "finalize_rebase_requested", 0)
    <3>1. NoNewWait /\ ~Owned(claim'[coord.run])
      BY <2>1, <2>3, SetWait DEF FinalizationStates, EventOwned
    <3>2. Settled'
      BY <1>25, <3>1 DEF AskRebase, Goto, Settled, TypeOK
    <3> QED BY <2>1, <3>1, <3>2, WaitFrame DEF Waiting
  <2> QED BY <1>25, <2>2, <2>3 DEF AskRebase
<1>26. CASE RebaseAsked
  <2>1. coord.run \in Runs /\ setRunFinalizationState(coord.run, "finalize_rebase_requested", 1)
    BY <1>26 DEF RebaseAsked, Position, At
  <2>2. NoNewWait /\ ~Owned(claim'[coord.run])
    BY <2>1, SetWait DEF FinalizationStates, EventOwned
  <2>3. LogGrows /\ cursor' \in 0 .. cursor /\ Settled'
    BY <1>26, <2>2 DEF RebaseAsked, Goto, Settled, LogGrows, TypeOK
  <2> QED BY <2>2, <2>3, WaitFrame DEF Waiting
<1>27. CASE RebaseNotDelivered
  <2>1. NoNewWait /\ LogGrows
    BY <1>27 DEF RebaseNotDelivered, NoNewWait, LogGrows, store
  <2>2. cursor' \in 0 .. cursor /\ Settled'
    BY <1>27 DEF RebaseNotDelivered, Goto, At, Settled, Acknowledging, Waiting, TypeOK, store
  <2> QED BY <2>1, <2>2, WaitFrame DEF Waiting
<1>28. CASE OpenPr
  <2>1. NoNewWait /\ LogGrows
    BY <1>28 DEF OpenPr, NoNewWait, LogGrows, store
  <2>2. cursor' \in 0 .. cursor /\ Settled'
    BY <1>28 DEF OpenPr, Goto, At, Settled, Acknowledging, Waiting, TypeOK, store
  <2> QED BY <2>1, <2>2, WaitFrame DEF Waiting
<1>29. CASE RecordPr
  <2>1. coord.pc \in Finalizing /\ UNCHANGED <<events, cursor>>
    BY <1>29 DEF RecordPr, At, Finalizing
  <2>2. \A q \in Runs \ {coord.run} : claim'[q] = claim[q]
    BY <1>29 DEF RecordPr, setRunFinalizationState, TypeOK
  <2>3. Settled'
    BY <1>29 DEF RecordPr, Goto, Settled, Acknowledging, TypeOK
  <2> QED BY <2>1, <2>2, <2>3, HandoffWait DEF Waiting
<1>30. CASE ReviewSent
  <2>1. NoNewWait /\ LogGrows
    BY <1>30 DEF ReviewSent, NoNewWait, LogGrows, store
  <2>2. cursor' \in 0 .. cursor /\ Settled'
    BY <1>30 DEF ReviewSent, Goto, At, Settled, Acknowledging, Waiting, TypeOK, store
  <2> QED BY <2>1, <2>2, WaitFrame DEF Waiting
<1>31. CASE ReviewNotDelivered
  <2>1. NoNewWait /\ LogGrows
    BY <1>31 DEF ReviewNotDelivered, NoNewWait, LogGrows, store
  <2>2. cursor' \in 0 .. cursor /\ Settled'
    BY <1>31 DEF ReviewNotDelivered, Goto, At, Settled, Acknowledging, Waiting, TypeOK, store
  <2> QED BY <2>1, <2>2, WaitFrame DEF Waiting
<1>32. CASE RecordReview
  <2>1. coord.run \in Runs /\ setRunFinalizationState(coord.run, "pr_review_in_progress", 0)
    BY <1>32 DEF RecordReview, Position, At
  <2>2. NoNewWait /\ ~Owned(claim'[coord.run])
    BY <2>1, SetWait DEF FinalizationStates, EventOwned
  <2>3. LogGrows /\ cursor' \in 0 .. cursor /\ Settled'
    BY <1>32, <2>2 DEF RecordReview, Goto, Settled, LogGrows, TypeOK
  <2> QED BY <2>2, <2>3, WaitFrame DEF Waiting
<1>33. CASE MergePr
  <2>1. NoNewWait /\ LogGrows
    BY <1>33 DEF MergePr, NoNewWait, LogGrows, store
  <2>2. cursor' \in 0 .. cursor /\ Settled'
    BY <1>33 DEF MergePr, Goto, At, Settled, Acknowledging, Waiting, TypeOK, store
  <2> QED BY <2>1, <2>2, WaitFrame DEF Waiting
<1>34. CASE RecordPrMerged
  <2>1. coord.pc \in Finalizing /\ UNCHANGED <<events, cursor>>
    BY <1>34 DEF RecordPrMerged, At, Finalizing
  <2>2. \A q \in Runs \ {coord.run} : claim'[q] = claim[q]
    BY <1>34 DEF RecordPrMerged, setRunFinalizationState, TypeOK
  <2>3. Settled'
    BY <1>34 DEF RecordPrMerged, Goto, Settled, Acknowledging, TypeOK
  <2> QED BY <2>1, <2>2, <2>3, HandoffWait DEF Waiting
<1>35. CASE MainAdvances
  <2>1. NoNewWait
    BY <1>35 DEF MainAdvances, NoNewWait, store
  <2>2. LogGrows
    BY <1>35 DEF MainAdvances, LogGrows, store
  <2>3. UNCHANGED <<coord, cursor>> /\ cursor' \in 0 .. cursor
    BY <1>35 DEF MainAdvances, TypeOK
  <2> QED BY <2>1, <2>2, <2>3, WaitFrame, SettledFrame DEF Waiting
<1>36. CASE Crash
  <2>1. NoNewWait /\ LogGrows
    BY <1>36 DEF Crash, NoNewWait, LogGrows, store
  <2>2. cursor' \in 0 .. cursor /\ Settled'
    BY <1>36 DEF Crash, Idle, Down, At, Settled, Acknowledging, TypeOK
  <2> QED BY <2>1, <2>2, WaitFrame DEF Waiting
<1>37. CASE Restart
  <2>1. NoNewWait /\ LogGrows
    BY <1>37 DEF Restart, NoNewWait, LogGrows, store
  <2>2. cursor' \in 0 .. cursor /\ Settled'
    BY <1>37 DEF Restart, Idle, Down, At, Settled, Acknowledging, TypeOK
  <2> QED BY <2>1, <2>2, WaitFrame DEF Waiting
<1>38. CASE ResetCursor
  <2>1. NoNewWait /\ LogGrows
    BY <1>38 DEF ResetCursor, NoNewWait, LogGrows, store
  <2>2. cursor' \in 0 .. cursor /\ Settled'
    BY <1>38 DEF ResetCursor, Idle, Down, At, Settled, Acknowledging, TypeOK
  <2> QED BY <2>1, <2>2, WaitFrame DEF Waiting
<1>39. CASE UNCHANGED vars
  BY <1>39 DEF vars, Waiting, Pending, Settled
<1>40. QED
  BY <1>1, <1>2, <1>3, <1>4, <1>5, <1>6, <1>7, <1>8, <1>9, <1>10, <1>11,
     <1>12, <1>13, <1>14, <1>15, <1>16, <1>17, <1>18, <1>19, <1>20, <1>21,
     <1>22, <1>23, <1>24, <1>25, <1>26, <1>27, <1>28, <1>29, <1>30, <1>31,
     <1>32, <1>33, <1>34, <1>35, <1>36, <1>37, <1>38, <1>39
  DEF Next, Worker, Handler

-----------------------------------------------------------------------------
(* The merge and its record.                                               *)

\* Past the merge something is in main, recorded or not.
Landed ==
    /\ task = "done" => merged # {}
    /\ coord.pc \in {"prMerged", "markDone", "finish"} => merged # {}

\* finishRun neither makes a task done nor takes a done task back.
LEMMA FinishKeepsDone ==
    ASSUME NEW r, NEW outcome, NEW back, finishRun(r, outcome, back),
           back \in FailedTaskStatuses \/ back = task
    PROVE  task' = "done" <=> task = "done"
BY DEF finishRun, FailedTaskStatuses, Live

\* Every step keeps what landed.
LEMMA LandedStep == Base /\ Landed /\ [Next]_vars => Landed'
<1> SUFFICES ASSUME TypeOK, Position, Landed, [Next]_vars PROVE Landed'
  BY DEF Base
<1>1. ASSUME NEW r \in Runs, Dispatch(r) PROVE Landed'
  BY <1>1 DEF Dispatch, Landed, git, store
<1>2. ASSUME NEW r \in Runs, RunStart(r) PROVE Landed'
  BY <1>2 DEF RunStart, Landed, git, store
<1>3. ASSUME NEW r \in Runs, RunWorkComplete(r) PROVE Landed'
  BY <1>3 DEF RunWorkComplete, Landed, git, store
<1>4. ASSUME NEW r \in Runs, RunFail(r) PROVE Landed'
  BY <1>4, FinishKeepsDone DEF RunFail, Landed, git
<1>5. ASSUME NEW r \in Runs, RunFinish(r) PROVE Landed'
  BY <1>5, FinishKeepsDone DEF RunFinish, Landed, git
<1>6. ASSUME NEW r \in Runs, Rebase(r) PROVE Landed'
  BY <1>6 DEF Rebase, Landed, git, store
<1>7. ASSUME NEW r \in Runs, WorkerDies(r) PROVE Landed'
  BY <1>7 DEF WorkerDies, Landed, git, store
<1>8. ASSUME NEW r \in Runs, handleFinalizationRetry(r) PROVE Landed'
  BY <1>8 DEF handleFinalizationRetry, Landed, git, store, Sweep, FailedTaskStatuses
<1>9. ASSUME NEW r \in Runs, ExpireLease(r) PROVE Landed'
  BY <1>9 DEF ExpireLease, Landed, git, store, Sweep, FailedTaskStatuses
<1>10. ASSUME NEW r \in Runs, ProbeDead(r) PROVE Landed'
  BY <1>10, FinishKeepsDone DEF ProbeDead, Landed, git, Sweep
<1>11. ASSUME NEW r \in Runs, ForceFail(r) PROVE Landed'
  BY <1>11, FinishKeepsDone DEF ForceFail, Landed, git, Sweep
<1>12. ASSUME NEW r \in Runs, NEW e \in Reports, Progress(r, e)
      PROVE Landed'
  BY <1>12 DEF Progress, Landed, git, store
<1>13. CASE HandleEvent
  BY <1>13 DEF HandleEvent, Landed, git, store
<1>14. CASE StopEnded
  BY <1>14 DEF StopEnded, Landed, git, store, Goto, TypeOK
<1>15. CASE Commit
  BY <1>15 DEF Commit, Landed, git, store, Idle, Down
<1>16. CASE BeginFinalize
  BY <1>16 DEF BeginFinalize, Landed, git, store, Goto, TypeOK
<1>17. CASE MergeBranch
  BY <1>17 DEF MergeBranch, Merge, Landed, store
<1>18. CASE NeedsRebase
  BY <1>18 DEF NeedsRebase, Landed, git, store, Goto, TypeOK
<1>19. CASE GitCallFails
  BY <1>19 DEF GitCallFails, Landed, git, store, Goto, TypeOK
<1>20. CASE MarkTaskDone
  BY <1>20 DEF MarkTaskDone, Landed, git, At, Goto, TypeOK
<1>21. CASE FinishMerged
  BY <1>21, FinishKeepsDone DEF FinishMerged, Landed, git, Goto, TypeOK
<1>22. CASE StopLanded
  BY <1>22 DEF StopLanded, Landed, git, store, Goto, TypeOK
<1>23. CASE Block
  BY <1>23 DEF Block, Landed, git, store, Goto, TypeOK
<1>24. CASE StopBlocked
  BY <1>24 DEF StopBlocked, Landed, git, store, Goto, TypeOK
<1>25. CASE AskRebase
  BY <1>25 DEF AskRebase, Landed, git, store, Goto, TypeOK
<1>26. CASE RebaseAsked
  BY <1>26 DEF RebaseAsked, Landed, git, store, Goto, TypeOK
<1>27. CASE RebaseNotDelivered
  BY <1>27 DEF RebaseNotDelivered, Landed, git, store, Goto, TypeOK
<1>28. CASE OpenPr
  BY <1>28 DEF OpenPr, Landed, git, store, Goto, TypeOK
<1>29. CASE RecordPr
  BY <1>29 DEF RecordPr, Landed, git, store, Goto, TypeOK
<1>30. CASE ReviewSent
  BY <1>30 DEF ReviewSent, Landed, git, store, Goto, TypeOK
<1>31. CASE ReviewNotDelivered
  BY <1>31 DEF ReviewNotDelivered, Landed, git, store, Goto, TypeOK
<1>32. CASE RecordReview
  BY <1>32 DEF RecordReview, Landed, git, store, Goto, TypeOK
<1>33. CASE MergePr
  BY <1>33 DEF MergePr, Merge, Landed, store
<1>34. CASE RecordPrMerged
  BY <1>34 DEF RecordPrMerged, Landed, git, At, Goto, TypeOK
<1>35. CASE MainAdvances
  BY <1>35 DEF MainAdvances, Landed, git, store
<1>36. CASE Crash
  BY <1>36 DEF Crash, Landed, git, store, Idle, Down
<1>37. CASE Restart
  BY <1>37 DEF Restart, Landed, git, store, Idle, Down
<1>38. CASE ResetCursor
  BY <1>38 DEF ResetCursor, Landed, git, store
<1>39. CASE UNCHANGED vars
  BY <1>39 DEF vars, Landed
<1>40. QED
  BY <1>1, <1>2, <1>3, <1>4, <1>5, <1>6, <1>7, <1>8, <1>9, <1>10, <1>11,
     <1>12, <1>13, <1>14, <1>15, <1>16, <1>17, <1>18, <1>19, <1>20, <1>21,
     <1>22, <1>23, <1>24, <1>25, <1>26, <1>27, <1>28, <1>29, <1>30, <1>31,
     <1>32, <1>33, <1>34, <1>35, <1>36, <1>37, <1>38, <1>39
  DEF Next, Worker, Handler

\* No step takes a done task back.
LEMMA DoneStep == [Next]_vars => (task = "done" => task' = "done")
<1> SUFFICES ASSUME [Next]_vars, task = "done" PROVE task' = "done"
  OBVIOUS
<1>1. ASSUME NEW r \in Runs, Dispatch(r) PROVE task' = "done"
  BY <1>1 DEF Dispatch
<1>2. ASSUME NEW r \in Runs, RunStart(r) PROVE task' = "done"
  BY <1>2 DEF RunStart
<1>3. ASSUME NEW r \in Runs, RunWorkComplete(r) PROVE task' = "done"
  BY <1>3 DEF RunWorkComplete, store
<1>4. ASSUME NEW r \in Runs, RunFail(r) PROVE task' = "done"
  BY <1>4, FinishKeepsDone DEF RunFail
<1>5. ASSUME NEW r \in Runs, RunFinish(r) PROVE task' = "done"
  BY <1>5, FinishKeepsDone DEF RunFinish
<1>6. ASSUME NEW r \in Runs, Rebase(r) PROVE task' = "done"
  BY <1>6 DEF Rebase, store
<1>7. ASSUME NEW r \in Runs, WorkerDies(r) PROVE task' = "done"
  BY <1>7 DEF WorkerDies, store
<1>8. ASSUME NEW r \in Runs, handleFinalizationRetry(r) PROVE task' = "done"
  BY <1>8 DEF handleFinalizationRetry, store
<1>9. ASSUME NEW r \in Runs, ExpireLease(r) PROVE task' = "done"
  BY <1>9 DEF ExpireLease, Completed
<1>10. ASSUME NEW r \in Runs, ProbeDead(r) PROVE task' = "done"
  BY <1>10, FinishKeepsDone DEF ProbeDead
<1>11. ASSUME NEW r \in Runs, ForceFail(r) PROVE task' = "done"
  BY <1>11, FinishKeepsDone DEF ForceFail
<1>12. ASSUME NEW r \in Runs, NEW e \in Reports, Progress(r, e)
      PROVE task' = "done"
  BY <1>12 DEF Progress, store
<1>13. CASE HandleEvent
  BY <1>13 DEF HandleEvent
<1>14. CASE StopEnded
  BY <1>14 DEF StopEnded, store
<1>15. CASE Commit
  BY <1>15 DEF Commit, store
<1>16. CASE BeginFinalize
  BY <1>16 DEF BeginFinalize, store
<1>17. CASE MergeBranch
  BY <1>17 DEF MergeBranch, store
<1>18. CASE NeedsRebase
  BY <1>18 DEF NeedsRebase, store
<1>19. CASE GitCallFails
  BY <1>19 DEF GitCallFails, store
<1>20. CASE MarkTaskDone
  BY <1>20 DEF MarkTaskDone
<1>21. CASE FinishMerged
  BY <1>21, FinishKeepsDone DEF FinishMerged
<1>22. CASE StopLanded
  BY <1>22 DEF StopLanded, store
<1>23. CASE Block
  BY <1>23 DEF Block, store
<1>24. CASE StopBlocked
  BY <1>24 DEF StopBlocked, store
<1>25. CASE AskRebase
  BY <1>25 DEF AskRebase, store
<1>26. CASE RebaseAsked
  BY <1>26 DEF RebaseAsked, store
<1>27. CASE RebaseNotDelivered
  BY <1>27 DEF RebaseNotDelivered, store
<1>28. CASE OpenPr
  BY <1>28 DEF OpenPr, store
<1>29. CASE RecordPr
  BY <1>29 DEF RecordPr, store
<1>30. CASE ReviewSent
  BY <1>30 DEF ReviewSent, store
<1>31. CASE ReviewNotDelivered
  BY <1>31 DEF ReviewNotDelivered, store
<1>32. CASE RecordReview
  BY <1>32 DEF RecordReview, store
<1>33. CASE MergePr
  BY <1>33 DEF MergePr, store
<1>34. CASE RecordPrMerged
  BY <1>34 DEF RecordPrMerged, store
<1>35. CASE MainAdvances
  BY <1>35 DEF MainAdvances, store
<1>36. CASE Crash
  BY <1>36 DEF Crash, store
<1>37. CASE Restart
  BY <1>37 DEF Restart, store
<1>38. CASE ResetCursor
  BY <1>38 DEF ResetCursor, store
<1>39. CASE UNCHANGED vars
  BY <1>39 DEF vars
<1>40. QED
  BY <1>1, <1>2, <1>3, <1>4, <1>5, <1>6, <1>7, <1>8, <1>9, <1>10, <1>11,
     <1>12, <1>13, <1>14, <1>15, <1>16, <1>17, <1>18, <1>19, <1>20, <1>21,
     <1>22, <1>23, <1>24, <1>25, <1>26, <1>27, <1>28, <1>29, <1>30, <1>31,
     <1>32, <1>33, <1>34, <1>35, <1>36, <1>37, <1>38, <1>39
  DEF Next, Worker, Handler

-----------------------------------------------------------------------------
(* A run ends once.                                                        *)

Ended(r) == claim[r].state \in {"done", "failed"}
Begun(r) == claim[r].state \in {"in_progress", "done", "failed"}

\* A run is claimed with a worktree, its claim never disappears, an ended run
\* stays ended and a started one started.
StatesAdvance ==
    \A r \in Runs : /\ claim[r].state = "absent" /\ claim'[r].state # "absent" => worktree'[r]
                    /\ claim[r].state # "absent" => claim'[r].state # "absent"
                    /\ Ended(r) => Ended(r)'
                    /\ Begun(r) => Begun(r)'

\* At most one event is appended, of a run that has a claim; a terminal event
\* is of a run that was active and ends with it.
LogAdvance ==
    \/ UNCHANGED events
    \/ \E x \in Events : /\ events' = Append(events, x)
                         /\ claim[x.run].state # "absent"
                         /\ x.event \in Terminal => Active(x.run) /\ Ended(x.run)'

StoreMoves == StatesAdvance /\ LogAdvance

\* A step that touches neither claims nor log.
LEMMA StoreKept == UNCHANGED <<claim, events>> => StoreMoves
BY DEF StoreMoves, StatesAdvance, LogAdvance, Ended, Begun

\* A step that touches no claim's state and not the log.
LEMMA SameStates ==
    ASSUME UNCHANGED events, \A q \in Runs : claim'[q].state = claim[q].state
    PROVE  StoreMoves
BY DEF StoreMoves, StatesAdvance, LogAdvance, Ended, Begun

\* What Advanced leaves alone.
LEMMA AdvancedState ==
    ASSUME NEW c \in ClaimRows, NEW fin, NEW d
    PROVE  /\ Advanced(c, fin, d).state = c.state
           /\ Advanced(c, fin, d).prSeq = c.prSeq
           /\ Advanced(c, fin, d).fin = fin
BY DEF Advanced, ClaimRows

\* The reducer changes neither the state nor the PR's handoff, and starts no
\* review.
LEMMA ReducerState ==
    ASSUME NEW c \in ClaimRows, NEW e
    PROVE  /\ reduceLifecycleEvent(e, c).state = c.state
           /\ reduceLifecycleEvent(e, c).prSeq = c.prSeq
           /\ reduceLifecycleEvent(e, c).fin = "pr_review_in_progress" => c.fin = "pr_review_in_progress"
<1>1. \/ \E fin \in FinalizationStates \ {"pr_review_in_progress"}, d \in Nat :
            reduceLifecycleEvent(e, c) = Advanced(c, fin, d)
      \/ reduceLifecycleEvent(e, c) = c
  BY DEF reduceLifecycleEvent, FinalizationStates
<1> QED BY <1>1, AdvancedState

\* setRunFinalizationState changes no claim's state.
LEMMA SetMoves ==
    ASSUME TypeOK, NEW r, NEW fin, NEW d, UNCHANGED events,
           setRunFinalizationState(r, fin, d)
    PROVE  StoreMoves
<1>1. \A q \in Runs : claim'[q].state = claim[q].state
  BY AdvancedState DEF TypeOK, setRunFinalizationState
<1> QED BY <1>1, SameStates

\* An ended claim keeps the handoff of its PR.
LEMMA EndedState ==
    ASSUME NEW c \in ClaimRows, NEW outcome
    PROVE  /\ EndedClaim(c, outcome).state = outcome
           /\ EndedClaim(c, outcome).prSeq = c.prSeq
           /\ EndedClaim(c, outcome).fin = "null"
BY DEF EndedClaim, ClaimRows

\* finishRun ends an active run and reports it, or does neither.
LEMMA FinishMoves ==
    ASSUME TypeOK, NEW r \in Runs, NEW outcome \in {"done", "failed"}, NEW back,
           finishRun(r, outcome, back)
    PROVE  StoreMoves
<1>1. CASE Active(r)
  <2> DEFINE x == [event |-> IF outcome = "done" THEN "run_finished" ELSE "run_failed",
                   run |-> r, reviewed |-> asked[r]]
  <2>1. x \in Events /\ x.run = r
    BY DEF TypeOK, Events, Terminal
  <2>2. events' = Append(events, x)
    BY <1>1 DEF finishRun
  <2>3. claim'[r].state = outcome
    BY <1>1, EndedState DEF finishRun, TypeOK
  <2>4. \A q \in Runs \ {r} : claim'[q] = claim[q]
    BY <1>1 DEF finishRun, TypeOK
  <2> HIDE DEF x
  <2>5. StatesAdvance
    BY <1>1, <2>3, <2>4 DEF StatesAdvance, Ended, Begun, Active, Live
  <2>6. LogAdvance
    BY <1>1, <2>1, <2>2, <2>3 DEF LogAdvance, Active, Live, Ended
  <2> QED BY <2>5, <2>6 DEF StoreMoves
<1>2. CASE ~Active(r)
  <2>1. UNCHANGED events
    BY <1>2 DEF finishRun
  <2>2. \A q \in Runs : claim'[q].state = claim[q].state
    BY <1>2, EndedState DEF finishRun, TypeOK
  <2> QED BY <2>1, <2>2, SameStates
<1> QED BY <1>1, <1>2

\* A worker's report is never a terminal event.
LEMMA ReportMoves ==
    ASSUME TypeOK, NEW r \in Runs, NEW e \in Reports, appendSequencedEvent(r, e),
           claim[r].state # "absent", UNCHANGED claim
    PROVE  StoreMoves
<1> DEFINE x == [event |-> e, run |-> r, reviewed |-> asked[r]]
<1>1. x \in Events /\ x.run = r /\ x.event \notin Terminal
  BY DEF TypeOK, Events, Reports, Handoffs, Terminal
<1>2. events' = Append(events, x)
  BY DEF appendSequencedEvent
<1> HIDE DEF x
<1>3. LogAdvance
  BY <1>1, <1>2 DEF LogAdvance
<1>4. StatesAdvance
  BY DEF StatesAdvance, Ended, Begun
<1> QED BY <1>3, <1>4 DEF StoreMoves

\* Every step moves claims and log that way.
LEMMA StoreStep == Base /\ [Next]_vars => StoreMoves
<1> SUFFICES ASSUME TypeOK, Position, [Next]_vars PROVE StoreMoves
  BY DEF Base
<1>1. ASSUME NEW r \in Runs, Dispatch(r) PROVE StoreMoves
  BY <1>1 DEF Dispatch, StoreMoves, StatesAdvance, LogAdvance, Ended, Begun, Active, Live, TypeOK, ClaimRows
<1>2. ASSUME NEW r \in Runs, RunStart(r) PROVE StoreMoves
  BY <1>2 DEF RunStart, StoreMoves, StatesAdvance, LogAdvance, Ended, Begun, Active, Live, TypeOK, ClaimRows
<1>3. ASSUME NEW r \in Runs, RunWorkComplete(r) PROVE StoreMoves
  BY <1>3, ReportMoves DEF RunWorkComplete, nextFinalizationTransition, Reports, Handoffs
<1>4. ASSUME NEW r \in Runs, RunFail(r) PROVE StoreMoves
  BY <1>4, FinishMoves DEF RunFail
<1>5. ASSUME NEW r \in Runs, RunFinish(r) PROVE StoreMoves
  BY <1>5, FinishMoves DEF RunFinish
<1>6. ASSUME NEW r \in Runs, Rebase(r) PROVE StoreMoves
  BY <1>6, StoreKept DEF Rebase, store
<1>7. ASSUME NEW r \in Runs, WorkerDies(r) PROVE StoreMoves
  BY <1>7, StoreKept DEF WorkerDies, store
<1>8. ASSUME NEW r \in Runs, handleFinalizationRetry(r) PROVE StoreMoves
  BY <1>8, StoreKept DEF handleFinalizationRetry, store
<1>9. ASSUME NEW r \in Runs, ExpireLease(r) PROVE StoreMoves
  BY <1>9 DEF ExpireLease, StoreMoves, StatesAdvance, LogAdvance, Ended, Begun, Active, Live, TypeOK, ClaimRows
<1>10. ASSUME NEW r \in Runs, ProbeDead(r) PROVE StoreMoves
  BY <1>10, FinishMoves DEF ProbeDead
<1>11. ASSUME NEW r \in Runs, ForceFail(r) PROVE StoreMoves
  BY <1>11, FinishMoves DEF ForceFail
<1>12. ASSUME NEW r \in Runs, NEW e \in Reports, Progress(r, e) PROVE StoreMoves
  BY <1>12, ReportMoves DEF Progress
<1>13. CASE HandleEvent
  <2>1. UNCHANGED events
    BY <1>13 DEF HandleEvent
  <2>2. \A q \in Runs : claim'[q].state = claim[q].state
    BY <1>13, ReducerState DEF HandleEvent, TypeOK
  <2> QED BY <2>1, <2>2, SameStates
<1>14. CASE StopEnded
  BY <1>14, StoreKept DEF StopEnded, store
<1>15. CASE Commit
  BY <1>15, StoreKept DEF Commit, store
<1>16. CASE BeginFinalize
  BY <1>16, StoreKept DEF BeginFinalize, store
<1>17. CASE MergeBranch
  BY <1>17, StoreKept DEF MergeBranch, store
<1>18. CASE NeedsRebase
  BY <1>18, StoreKept DEF NeedsRebase, store
<1>19. CASE GitCallFails
  BY <1>19, StoreKept DEF GitCallFails, store
<1>20. CASE MarkTaskDone
  BY <1>20, StoreKept DEF MarkTaskDone
<1>21. CASE FinishMerged
  <2>1. coord.run \in Runs /\ finishRun(coord.run, "done", task)
    BY <1>21 DEF FinishMerged, Position, At
  <2> QED BY <2>1, FinishMoves
<1>22. CASE StopLanded
  BY <1>22, StoreKept DEF StopLanded, store
<1>23. CASE Block
  BY <1>23, SetMoves, StoreKept DEF Block
<1>24. CASE StopBlocked
  BY <1>24, StoreKept DEF StopBlocked, store
<1>25. CASE AskRebase
  BY <1>25, SetMoves, StoreKept DEF AskRebase
<1>26. CASE RebaseAsked
  BY <1>26, SetMoves, StoreKept DEF RebaseAsked
<1>27. CASE RebaseNotDelivered
  BY <1>27, StoreKept DEF RebaseNotDelivered, store
<1>28. CASE OpenPr
  BY <1>28, StoreKept DEF OpenPr, store
<1>29. CASE RecordPr
  <2>1. UNCHANGED events
    BY <1>29 DEF RecordPr
  <2>2. \A c \in ClaimRows : [Advanced(c, "pr_created", 0) EXCEPT !.prSeq = coord.seq].state = c.state
    BY AdvancedTyped, AdvancedState DEF ClaimRows, FinalizationStates
  <2>3. \A q \in Runs : claim'[q].state = claim[q].state
    BY <1>29, <2>2 DEF RecordPr, TypeOK
  <2> QED BY <2>1, <2>3, SameStates
<1>30. CASE ReviewSent
  BY <1>30, StoreKept DEF ReviewSent, store
<1>31. CASE ReviewNotDelivered
  BY <1>31, StoreKept DEF ReviewNotDelivered, store
<1>32. CASE RecordReview
  BY <1>32, SetMoves, StoreKept DEF RecordReview
<1>33. CASE MergePr
  BY <1>33, StoreKept DEF MergePr, store
<1>34. CASE RecordPrMerged
  BY <1>34, SetMoves, StoreKept DEF RecordPrMerged
<1>35. CASE MainAdvances
  BY <1>35, StoreKept DEF MainAdvances, store
<1>36. CASE Crash
  BY <1>36, StoreKept DEF Crash, store
<1>37. CASE Restart
  BY <1>37, StoreKept DEF Restart, store
<1>38. CASE ResetCursor
  BY <1>38, StoreKept DEF ResetCursor, store
<1>39. CASE UNCHANGED vars
  BY <1>39, StoreKept DEF vars
<1>40. QED
  BY <1>1, <1>2, <1>3, <1>4, <1>5, <1>6, <1>7, <1>8, <1>9, <1>10, <1>11,
     <1>12, <1>13, <1>14, <1>15, <1>16, <1>17, <1>18, <1>19, <1>20, <1>21,
     <1>22, <1>23, <1>24, <1>25, <1>26, <1>27, <1>28, <1>29, <1>30, <1>31,
     <1>32, <1>33, <1>34, <1>35, <1>36, <1>37, <1>38, <1>39
  DEF Next, Worker, Handler

IsEnd(s) == events[s].event \in Terminal

\* Every event is of a claimed run, a terminal one of an ended run, and no run
\* has two terminal events.
Reported ==
    /\ \A s \in 1 .. Len(events) : claim[events[s].run].state # "absent"
    /\ \A s \in 1 .. Len(events) : IsEnd(s) => Ended(events[s].run)
    /\ \A s, t \in 1 .. Len(events) :
          IsEnd(s) /\ IsEnd(t) /\ events[s].run = events[t].run => s = t

\* A run that has ended is not active.
LEMMA EndedNotActive == ASSUME NEW r, Ended(r) PROVE ~Active(r)
BY DEF Ended, Active, Live

\* Every step keeps the reports in order.
LEMMA ReportedStep == Base /\ Reported /\ [Next]_vars => Reported'
<1> SUFFICES ASSUME Base, Reported, [Next]_vars PROVE Reported'
  OBVIOUS
<1>1. StatesAdvance /\ LogAdvance
  BY StoreStep DEF StoreMoves
<1>2. \A s \in 1 .. Len(events) : events[s].run \in Runs
  <2>1. \A s \in 1 .. Len(events) : events[s] \in Events
    BY DEF Base, TypeOK
  <2> QED BY <2>1 DEF Events
<1>3. CASE UNCHANGED events
  BY <1>1, <1>2, <1>3 DEF Reported, StatesAdvance, IsEnd
<1>4. ASSUME NEW x \in Events, events' = Append(events, x), claim[x.run].state # "absent",
             x.event \in Terminal => Active(x.run) /\ Ended(x.run)'
      PROVE  Reported'
  <2>1. events \in Seq(Events) /\ x.run \in Runs
    BY DEF Base, TypeOK, Events
  <2> DEFINE n == Len(events) + 1
  <2>2. /\ Len(events') = n /\ events'[n] = x /\ n \in Nat
        /\ \A s \in 1 .. Len(events) : events'[s] = events[s]
        /\ \A s \in 1 .. n : s \in 1 .. Len(events) \/ s = n
    BY <1>4, <2>1
  <2> HIDE DEF n
  <2>3. ASSUME NEW s \in 1 .. n PROVE claim'[events'[s].run].state # "absent"
    <3>1. CASE s = n
      BY <1>1, <1>4, <2>1, <2>2, <3>1 DEF StatesAdvance
    <3>2. CASE s \in 1 .. Len(events)
      BY <1>1, <1>2, <2>2, <3>2 DEF Reported, StatesAdvance
    <3> QED BY <2>2, <3>1, <3>2
  <2>4. ASSUME NEW s \in 1 .. n, events'[s].event \in Terminal
        PROVE  claim'[events'[s].run].state \in {"done", "failed"}
    <3>1. CASE s = n
      BY <1>4, <2>2, <2>4, <3>1 DEF Ended
    <3>2. CASE s \in 1 .. Len(events)
      BY <1>1, <1>2, <2>2, <2>4, <3>2 DEF Reported, StatesAdvance, IsEnd, Ended
    <3> QED BY <2>2, <3>1, <3>2
  <2>5. \A s \in 1 .. Len(events) :
            events[s].event \in Terminal /\ x.event \in Terminal => events[s].run # x.run
    BY <1>4, EndedNotActive DEF Reported, IsEnd
  <2>6. ASSUME NEW s \in 1 .. n, NEW t \in 1 .. n,
               events'[s].event \in Terminal, events'[t].event \in Terminal,
               events'[s].run = events'[t].run
        PROVE  s = t
    <3>1. CASE s \in 1 .. Len(events) /\ t \in 1 .. Len(events)
      BY <2>2, <2>6, <3>1 DEF Reported, IsEnd
    <3>2. CASE s = n \/ t = n
      BY <2>2, <2>5, <2>6, <3>2
    <3> QED BY <2>2, <3>1, <3>2
  <2> QED BY <2>2, <2>3, <2>4, <2>6 DEF Reported, IsEnd, Ended
<1> QED BY <1>1, <1>3, <1>4 DEF LogAdvance

\* The log is only appended to.
LEMMA LogAdvanceGrows == ASSUME TypeOK, LogAdvance PROVE LogGrows
<1>1. events \in Seq(Events)
  BY DEF TypeOK
<1>2. ASSUME NEW x \in Events, events' = Append(events, x) PROVE LogGrows
  BY <1>1, <1>2 DEF LogGrows
<1>3. CASE UNCHANGED events
  BY <1>1, <1>3 DEF LogGrows
<1> QED BY <1>2, <1>3 DEF LogAdvance

-----------------------------------------------------------------------------
(* A run that may still work keeps its worktree.                           *)

\* The worktree of an active run is there, and the tick that is about to stop
\* a run and drop its worktree has an ended run in hand.
Kept ==
    /\ \A r \in Runs : Active(r) => worktree[r]
    /\ At("stopEnded") => events[coord.seq].event \in Terminal
    /\ At("stopLanded") => Ended(coord.run)

\* A run active after the step was active before it or was just claimed.
LEMMA ActiveHasWorktree ==
    ASSUME TypeOK, Kept, StatesAdvance, \A r \in Runs : worktree[r] => worktree'[r],
           NEW q \in Runs, Active(q)'
    PROVE  worktree'[q]
<1>1. claim'[q].state \in Live
  BY DEF Active
<1>2. CASE claim[q].state = "absent"
  BY <1>1, <1>2 DEF StatesAdvance, Live
<1>3. CASE claim[q].state # "absent"
  <2>1. claim[q].state \in Live
    BY <1>1, <1>3 DEF StatesAdvance, Ended, Live, TypeOK, ClaimRows
  <2> QED BY <2>1 DEF Kept, Active
<1> QED BY <1>2, <1>3

\* What a step must leave alone to keep the worktrees.
LEMMA KeptFrame ==
    ASSUME TypeOK, Position, Kept, StatesAdvance, LogGrows,
           \A r \in Runs : worktree[r] => worktree'[r],
           UNCHANGED coord \/ coord'.pc \notin {"stopEnded", "stopLanded"}
    PROVE  Kept'
<1>1. \A q \in Runs : Active(q)' => worktree'[q]
  BY ActiveHasWorktree
<1>2. CASE coord'.pc \notin {"stopEnded", "stopLanded"}
  BY <1>1, <1>2 DEF Kept, At
<1>3. CASE UNCHANGED coord
  <2>1. At("stopEnded") => coord.seq \in 1 .. Len(events)
    BY DEF Position, At, TypeOK
  <2>2. At("stopEnded") => events'[coord.seq].event \in Terminal
    BY <2>1 DEF Kept, LogGrows
  <2>3. At("stopLanded") => coord.run \in Runs /\ Ended(coord.run)'
    BY <1>3 DEF Position, Kept, At, StatesAdvance, Ended
  <2> QED BY <1>1, <1>3, <2>2, <2>3 DEF Kept, At, Ended
<1> QED BY <1>2, <1>3

\* Every step keeps the worktrees of active runs.
LEMMA KeptStep == Base /\ Reported /\ Kept /\ [Next]_vars => Kept'
<1> SUFFICES ASSUME TypeOK, Position, Reported, Kept, [Next]_vars PROVE Kept'
  BY DEF Base
<1>0. StatesAdvance /\ LogGrows
  BY StoreStep, LogAdvanceGrows DEF Base, StoreMoves
<1>1. ASSUME NEW r \in Runs, Dispatch(r) PROVE Kept'
  BY <1>0, <1>1, KeptFrame DEF Dispatch, TypeOK
<1>2. ASSUME NEW r \in Runs, RunStart(r) PROVE Kept'
  BY <1>0, <1>2, KeptFrame DEF RunStart, TypeOK
<1>3. ASSUME NEW r \in Runs, RunWorkComplete(r) PROVE Kept'
  BY <1>0, <1>3, KeptFrame DEF RunWorkComplete, TypeOK
<1>4. ASSUME NEW r \in Runs, RunFail(r) PROVE Kept'
  BY <1>0, <1>4, KeptFrame DEF RunFail, TypeOK
<1>5. ASSUME NEW r \in Runs, RunFinish(r) PROVE Kept'
  BY <1>0, <1>5, KeptFrame DEF RunFinish, TypeOK
<1>6. ASSUME NEW r \in Runs, Rebase(r) PROVE Kept'
  BY <1>0, <1>6, KeptFrame DEF Rebase, TypeOK
<1>7. ASSUME NEW r \in Runs, WorkerDies(r) PROVE Kept'
  BY <1>0, <1>7, KeptFrame DEF WorkerDies, TypeOK
<1>8. ASSUME NEW r \in Runs, handleFinalizationRetry(r) PROVE Kept'
  BY <1>0, <1>8, KeptFrame DEF handleFinalizationRetry, Sweep
<1>9. ASSUME NEW r \in Runs, ExpireLease(r) PROVE Kept'
  BY <1>0, <1>9, KeptFrame DEF ExpireLease, Sweep
<1>10. ASSUME NEW r \in Runs, ProbeDead(r) PROVE Kept'
  BY <1>0, <1>10, KeptFrame DEF ProbeDead, Sweep
<1>11. ASSUME NEW r \in Runs, ForceFail(r) PROVE Kept'
  BY <1>0, <1>11, KeptFrame DEF ForceFail, Sweep
<1>12. ASSUME NEW r \in Runs, NEW e \in Reports, Progress(r, e) PROVE Kept'
  BY <1>0, <1>12, KeptFrame DEF Progress, TypeOK
<1>13. CASE HandleEvent
  <2>1. worktree' = worktree /\ coord'.pc # "stopLanded"
    BY <1>13 DEF HandleEvent
  <2>2. coord'.pc = "stopEnded" => events'[coord'.seq].event \in Terminal
    BY <1>13 DEF HandleEvent
  <2>3. \A q \in Runs : Active(q)' => worktree'[q]
    BY <1>0, <2>1, ActiveHasWorktree
  <2> QED BY <2>1, <2>2, <2>3 DEF Kept, At
<1>14. CASE StopEnded
  <2>1. coord.run \in Runs /\ coord.seq \in 1 .. Len(events) /\ events[coord.seq].run = coord.run
    BY <1>14 DEF StopEnded, Position, At, TypeOK
  <2>2. Ended(coord.run) /\ UNCHANGED claim
    BY <1>14, <2>1 DEF StopEnded, Kept, Reported, IsEnd, At, store
  <2>3. \A q \in Runs : Active(q)' => q # coord.run /\ worktree'[q]
    BY <1>14, <2>2, EndedNotActive DEF StopEnded, Kept, Active, TypeOK
  <2>4. coord'.pc = "commit"
    BY <1>14 DEF StopEnded, Goto, TypeOK
  <2> QED BY <2>3, <2>4 DEF Kept, At
<1>15. CASE Commit
  BY <1>0, <1>15, KeptFrame DEF Commit, Idle, Down
<1>16. CASE BeginFinalize
  BY <1>0, <1>16, KeptFrame DEF BeginFinalize, Goto, TypeOK
<1>17. CASE MergeBranch
  BY <1>0, <1>17, KeptFrame DEF MergeBranch, Goto, TypeOK
<1>18. CASE NeedsRebase
  BY <1>0, <1>18, KeptFrame DEF NeedsRebase, Goto, TypeOK
<1>19. CASE GitCallFails
  BY <1>0, <1>19, KeptFrame DEF GitCallFails, Goto, TypeOK
<1>20. CASE MarkTaskDone
  BY <1>0, <1>20, KeptFrame DEF MarkTaskDone, Goto, TypeOK
<1>21. CASE FinishMerged
  <2>1. coord.run \in Runs /\ At("finish") /\ worktree' = worktree
        /\ finishRun(coord.run, "done", task) /\ coord' = [coord EXCEPT !.pc = "stopLanded"]
    BY <1>21 DEF FinishMerged, Position, At, Goto
  <2>2. coord.seq \in 1 .. Len(events) /\ events[coord.seq].run = coord.run
    BY <2>1 DEF Position, At, Finalizing, TypeOK
  <2>3. claim[coord.run].state # "absent"
    BY <2>2 DEF Reported
  <2>4. claim'[coord.run].state \in {"done", "failed"}
    BY <2>1, <2>3, EndedState DEF finishRun, Active, Live, TypeOK, ClaimRows
  <2>5. \A q \in Runs : Active(q)' => worktree'[q]
    BY <1>0, <2>1, ActiveHasWorktree
  <2>6. coord'.run = coord.run /\ coord'.pc = "stopLanded"
    BY <2>1 DEF TypeOK
  <2> QED BY <2>4, <2>5, <2>6 DEF Kept, At, Ended
<1>22. CASE StopLanded
  <2>1. coord.run \in Runs
    BY <1>22 DEF StopLanded, Position, At
  <2>2. Ended(coord.run) /\ UNCHANGED claim
    BY <1>22 DEF StopLanded, Kept, At, store
  <2>3. \A q \in Runs : Active(q)' => q # coord.run /\ worktree'[q]
    BY <1>22, <2>2, EndedNotActive DEF StopLanded, Kept, Active, TypeOK
  <2>4. coord'.pc = "commit"
    BY <1>22 DEF StopLanded, Goto, TypeOK
  <2> QED BY <2>3, <2>4 DEF Kept, At
<1>23. CASE Block
  BY <1>0, <1>23, KeptFrame DEF Block, Goto, TypeOK
<1>24. CASE StopBlocked
  BY <1>0, <1>24, KeptFrame DEF StopBlocked, Goto, TypeOK
<1>25. CASE AskRebase
  BY <1>0, <1>25, KeptFrame DEF AskRebase, Goto, TypeOK
<1>26. CASE RebaseAsked
  BY <1>0, <1>26, KeptFrame DEF RebaseAsked, Goto, TypeOK
<1>27. CASE RebaseNotDelivered
  BY <1>0, <1>27, KeptFrame DEF RebaseNotDelivered, Goto, TypeOK
<1>28. CASE OpenPr
  BY <1>0, <1>28, KeptFrame DEF OpenPr, Goto, TypeOK
<1>29. CASE RecordPr
  BY <1>0, <1>29, KeptFrame DEF RecordPr, Goto, TypeOK
<1>30. CASE ReviewSent
  BY <1>0, <1>30, KeptFrame DEF ReviewSent, Goto, TypeOK
<1>31. CASE ReviewNotDelivered
  BY <1>0, <1>31, KeptFrame DEF ReviewNotDelivered, Goto, TypeOK
<1>32. CASE RecordReview
  BY <1>0, <1>32, KeptFrame DEF RecordReview, Goto, TypeOK
<1>33. CASE MergePr
  BY <1>0, <1>33, KeptFrame DEF MergePr, Goto, TypeOK
<1>34. CASE RecordPrMerged
  BY <1>0, <1>34, KeptFrame DEF RecordPrMerged, Goto, TypeOK
<1>35. CASE MainAdvances
  BY <1>0, <1>35, KeptFrame DEF MainAdvances, TypeOK
<1>36. CASE Crash
  BY <1>0, <1>36, KeptFrame DEF Crash, Idle, Down
<1>37. CASE Restart
  BY <1>0, <1>37, KeptFrame DEF Restart, Idle, Down
<1>38. CASE ResetCursor
  BY <1>0, <1>38, KeptFrame DEF ResetCursor
<1>39. CASE UNCHANGED vars
  BY <1>0, <1>39, KeptFrame DEF vars
<1>40. QED
  BY <1>1, <1>2, <1>3, <1>4, <1>5, <1>6, <1>7, <1>8, <1>9, <1>10, <1>11,
     <1>12, <1>13, <1>14, <1>15, <1>16, <1>17, <1>18, <1>19, <1>20, <1>21,
     <1>22, <1>23, <1>24, <1>25, <1>26, <1>27, <1>28, <1>29, <1>30, <1>31,
     <1>32, <1>33, <1>34, <1>35, <1>36, <1>37, <1>38, <1>39
  DEF Next, Worker, Handler

-----------------------------------------------------------------------------
(* The pull request is merged on a second handoff.                         *)

HandoffOf(s, r) == s \in 1 .. Len(events) /\ events[s].run = r /\ events[s].event \in Handoffs

\* Two handoffs of the run, or one that says the branch is ready.
HandedOffTwice(r) ==
    \E s, t \in 1 .. Len(events) :
        /\ HandoffOf(s, r) /\ HandoffOf(t, r)
        /\ s # t \/ events[s].event = "ready_to_merge"

\* The places of the tick past the check that the claim is in progress, on the
\* way to the review.
PastBegin == {"notified", "prOpened", "sendReview", "inReview"}

\* The handoff recorded with the PR is one of the run's; a run in review has
\* one, and a run about to be put in review too; what is being merged, or was,
\* has had another.
Reviewed ==
    /\ \A r \in Runs : claim[r].prSeq # 0 => HandoffOf(claim[r].prSeq, r)
    /\ \A r \in Runs : claim[r].fin = "pr_review_in_progress" => claim[r].prSeq # 0
    /\ coord.pc \in PastBegin => Begun(coord.run)
    /\ coord.pc \in {"sendReview", "inReview"} /\ InProgress(coord.run) =>
          claim[coord.run].prSeq # 0
    /\ At("mergePr") => HandedOffTwice(coord.run)
    /\ \A r \in Runs : pr[r] = "merged" => HandedOffTwice(r)

\* Handoffs stay in the log.
LEMMA HandoffsStay ==
    ASSUME TypeOK, LogGrows, NEW r
    PROVE  /\ \A s : HandoffOf(s, r) => HandoffOf(s, r)'
           /\ HandedOffTwice(r) => HandedOffTwice(r)'
<1>1. 1 .. Len(events) \subseteq 1 .. Len(events')
  BY DEF TypeOK, LogGrows
<1>2. \A s : HandoffOf(s, r) => HandoffOf(s, r)'
  BY <1>1 DEF HandoffOf, LogGrows
<1>3. ASSUME HandedOffTwice(r) PROVE HandedOffTwice(r)'
  <2>1. PICK s \in 1 .. Len(events), t \in 1 .. Len(events) :
          HandoffOf(s, r) /\ HandoffOf(t, r) /\ (s # t \/ events[s].event = "ready_to_merge")
    BY <1>3 DEF HandedOffTwice
  <2>2. events'[s] = events[s] /\ s \in 1 .. Len(events') /\ t \in 1 .. Len(events')
    BY <1>1 DEF LogGrows
  <2> QED BY <1>2, <2>1, <2>2 DEF HandedOffTwice
<1> QED BY <1>2, <1>3

\* A run that has begun and is in progress after the step was in progress.
LEMMA StaysInProgress ==
    ASSUME StatesAdvance, NEW r \in Runs, Begun(r), InProgress(r)'
    PROVE  InProgress(r)
BY DEF StatesAdvance, Begun, InProgress, Ended

\* No handoff is recorded for a PR and no review is started.
PrKept ==
    \A r \in Runs : /\ claim'[r].prSeq = claim[r].prSeq
                    /\ claim'[r].fin = "pr_review_in_progress" => claim[r].fin = "pr_review_in_progress"

\* finishRun records no handoff and starts no review.
LEMMA FinishPr ==
    ASSUME TypeOK, NEW r \in Runs, NEW outcome, NEW back, finishRun(r, outcome, back)
    PROVE  PrKept
<1>1. CASE claim' = [claim EXCEPT ![r] = EndedClaim(@, outcome)]
  <2>1. EndedClaim(claim[r], outcome).prSeq = claim[r].prSeq /\ EndedClaim(claim[r], outcome).fin = "null"
    BY EndedState DEF TypeOK
  <2>2. ASSUME NEW q \in Runs PROVE claim'[q] = IF q = r THEN EndedClaim(claim[r], outcome) ELSE claim[q]
    BY <1>1 DEF TypeOK
  <2> QED BY <2>1, <2>2 DEF PrKept
<1>2. CASE UNCHANGED claim
  BY <1>2 DEF PrKept
<1> QED BY <1>1, <1>2 DEF finishRun

\* Nor does setRunFinalizationState, to any state but the review's.
LEMMA SetPr ==
    ASSUME TypeOK, NEW r, NEW fin, NEW d, setRunFinalizationState(r, fin, d),
           fin # "pr_review_in_progress"
    PROVE  PrKept
BY AdvancedState DEF setRunFinalizationState, PrKept, TypeOK

\* What a step must leave alone to keep the review in order.
LEMMA ReviewedFrame ==
    ASSUME TypeOK, Position, Reviewed, StatesAdvance, LogGrows, PrKept,
           \A r \in Runs : pr'[r] = "merged" => pr[r] = "merged",
           \/ UNCHANGED coord
           \/ /\ coord'.pc # "mergePr"
              /\ coord'.pc \in PastBegin => coord.pc \in PastBegin /\ coord'.run = coord.run
              /\ coord'.pc \in {"sendReview", "inReview"} => coord.pc \in {"sendReview", "inReview"}
    PROVE  Reviewed'
<1>1. ASSUME NEW r \in Runs, claim'[r].prSeq # 0 PROVE HandoffOf(claim[r].prSeq, r)'
  <2>1. PICK s : s = claim[r].prSeq /\ s = claim'[r].prSeq /\ HandoffOf(s, r)
    BY <1>1 DEF Reviewed, PrKept
  <2>2. HandoffOf(s, r)'
    BY <2>1, HandoffsStay
  <2> QED BY <2>1, <2>2 DEF HandoffOf
<1>2. \A r \in Runs : claim'[r].fin = "pr_review_in_progress" => claim'[r].prSeq # 0
  BY DEF Reviewed, PrKept
<1>3. \A r \in Runs : pr'[r] = "merged" => HandedOffTwice(r)'
  BY HandoffsStay DEF Reviewed
<1>4. ASSUME coord'.pc \in PastBegin
      PROVE  coord'.run \in Runs /\ coord'.run = coord.run /\ coord.pc \in PastBegin
  BY <1>4 DEF Position, PastBegin
<1>5. coord'.pc \in PastBegin => claim'[coord'.run].state \in {"in_progress", "done", "failed"}
  BY <1>4 DEF Reviewed, StatesAdvance, Begun
<1>6. ASSUME coord'.pc \in {"sendReview", "inReview"}, claim'[coord'.run].state = "in_progress"
      PROVE  claim'[coord'.run].prSeq # 0
  <2>1. coord'.pc \in PastBegin /\ coord.pc \in {"sendReview", "inReview"}
    BY <1>6 DEF PastBegin
  <2>2. InProgress(coord.run)
    BY <1>4, <1>6, <2>1, StaysInProgress DEF Reviewed, InProgress
  <2> QED BY <1>4, <2>1, <2>2 DEF Reviewed, PrKept
<1>7. coord'.pc = "mergePr" => UNCHANGED coord /\ HandedOffTwice(coord.run)'
  <2>1. ASSUME coord'.pc = "mergePr" PROVE UNCHANGED coord /\ HandedOffTwice(coord.run)
    BY <2>1 DEF Reviewed, At
  <2>2. ASSUME UNCHANGED coord, HandedOffTwice(coord.run) PROVE HandedOffTwice(coord.run)'
    <3>1. PICK r : r = coord.run
      OBVIOUS
    <3>2. HandedOffTwice(r)'
      BY <2>2, <3>1, HandoffsStay
    <3> QED BY <2>2, <3>1, <3>2 DEF HandedOffTwice, HandoffOf
  <2> QED BY <2>1, <2>2
<1> QED BY <1>1, <1>2, <1>3, <1>5, <1>6, <1>7 DEF Reviewed, Begun, InProgress, At

\* Every step keeps the review in order.
LEMMA ReviewedStep == Base /\ Reviewed /\ [Next]_vars => Reviewed'
<1> SUFFICES ASSUME TypeOK, Position, Reviewed, [Next]_vars PROVE Reviewed'
  BY DEF Base
<1>0. StatesAdvance /\ LogGrows
  BY StoreStep, LogAdvanceGrows DEF Base, StoreMoves
<1>1. ASSUME NEW r \in Runs, Dispatch(r) PROVE Reviewed'
  <2>1. PrKept
    BY <1>1 DEF Dispatch, PrKept, TypeOK, ClaimRows
  <2> QED BY <1>0, <1>1, <2>1, ReviewedFrame DEF Dispatch, git
<1>2. ASSUME NEW r \in Runs, RunStart(r) PROVE Reviewed'
  <2>1. PrKept
    BY <1>2 DEF RunStart, PrKept, TypeOK, ClaimRows
  <2> QED BY <1>0, <1>2, <2>1, ReviewedFrame DEF RunStart, git
<1>3. ASSUME NEW r \in Runs, RunWorkComplete(r) PROVE Reviewed'
  BY <1>0, <1>3, ReviewedFrame DEF RunWorkComplete, git, PrKept
<1>4. ASSUME NEW r \in Runs, RunFail(r) PROVE Reviewed'
  <2>1. PrKept
    BY <1>4, FinishPr DEF RunFail
  <2> QED BY <1>0, <1>4, <2>1, ReviewedFrame DEF RunFail, git
<1>5. ASSUME NEW r \in Runs, RunFinish(r) PROVE Reviewed'
  <2>1. PrKept
    BY <1>5, FinishPr DEF RunFinish
  <2> QED BY <1>0, <1>5, <2>1, ReviewedFrame DEF RunFinish, git
<1>6. ASSUME NEW r \in Runs, Rebase(r) PROVE Reviewed'
  BY <1>0, <1>6, ReviewedFrame DEF Rebase, store, git, PrKept, TypeOK
<1>7. ASSUME NEW r \in Runs, WorkerDies(r) PROVE Reviewed'
  BY <1>0, <1>7, ReviewedFrame DEF WorkerDies, store, git, PrKept, TypeOK
<1>8. ASSUME NEW r \in Runs, handleFinalizationRetry(r) PROVE Reviewed'
  BY <1>0, <1>8, ReviewedFrame DEF handleFinalizationRetry, store, git, PrKept, Sweep, PastBegin
<1>9. ASSUME NEW r \in Runs, ExpireLease(r) PROVE Reviewed'
  <2>1. PrKept
    BY <1>9 DEF ExpireLease, PrKept, TypeOK, ClaimRows
  <2> QED BY <1>0, <1>9, <2>1, ReviewedFrame DEF ExpireLease, git, Sweep, PastBegin
<1>10. ASSUME NEW r \in Runs, ProbeDead(r) PROVE Reviewed'
  <2>1. PrKept
    BY <1>10, FinishPr DEF ProbeDead
  <2> QED BY <1>0, <1>10, <2>1, ReviewedFrame DEF ProbeDead, git, Sweep, PastBegin
<1>11. ASSUME NEW r \in Runs, ForceFail(r) PROVE Reviewed'
  <2>1. PrKept
    BY <1>11, FinishPr DEF ForceFail
  <2> QED BY <1>0, <1>11, <2>1, ReviewedFrame DEF ForceFail, git, Sweep, PastBegin
<1>12. ASSUME NEW r \in Runs, NEW e \in Reports, Progress(r, e) PROVE Reviewed'
  BY <1>0, <1>12, ReviewedFrame DEF Progress, git, PrKept
<1>13. CASE HandleEvent
  <2>1. PrKept
    BY <1>13, ReducerState DEF HandleEvent, PrKept, TypeOK
  <2> QED BY <1>0, <1>13, <2>1, ReviewedFrame DEF HandleEvent, git, PastBegin
<1>14. CASE StopEnded
  BY <1>0, <1>14, ReviewedFrame DEF StopEnded, store, git, PrKept, Goto, TypeOK, PastBegin, At
<1>15. CASE Commit
  BY <1>0, <1>15, ReviewedFrame DEF Commit, store, git, PrKept, Idle, PastBegin
<1>16. CASE BeginFinalize
  <2> DEFINE r == coord.run
             c == claim[r]
             seq == coord.seq
  <2>1. r \in Runs /\ HandoffOf(seq, r)
    BY <1>16 DEF BeginFinalize, Position, At, HandoffOf, Finalizing, TypeOK
  <2>2. UNCHANGED <<claim, events, pr>> /\ coord'.run = r
    BY <1>16 DEF BeginFinalize, Goto, TypeOK, store, git
  <2>3. coord'.pc \in {"commit", "block", "mergePr", "notified"}
    BY <1>16 DEF BeginFinalize, Goto, TypeOK
  <2>4. coord'.pc = "notified" => Begun(r)
    BY <1>16 DEF BeginFinalize, Goto, TypeOK, Begun
  <2>5. ASSUME coord'.pc = "mergePr" PROVE HandedOffTwice(r)
    <3>1. c.fin = "pr_review_in_progress" /\ ~stalePrHandoff(events[seq].event, seq, c)
      BY <1>16, <2>5 DEF BeginFinalize, Goto, TypeOK
    <3>2. HandoffOf(c.prSeq, r)
      BY <2>1, <3>1 DEF Reviewed
    <3>3. events[seq].event = "ready_to_merge" \/ c.prSeq # seq
      BY <2>1, <3>1 DEF stalePrHandoff, HandoffOf, Handoffs
    <3> QED BY <2>1, <3>2, <3>3 DEF HandedOffTwice, HandoffOf
  <2> HIDE DEF r, c, seq
  <2> QED BY <2>2, <2>3, <2>4, <2>5 DEF Reviewed, PastBegin, At, HandedOffTwice, HandoffOf, Begun
<1>17. CASE MergeBranch
  BY <1>0, <1>17, ReviewedFrame DEF MergeBranch, store, git, PrKept, Goto, TypeOK, PastBegin, At
<1>18. CASE NeedsRebase
  BY <1>0, <1>18, ReviewedFrame DEF NeedsRebase, store, git, PrKept, Goto, TypeOK, PastBegin, At
<1>19. CASE GitCallFails
  BY <1>0, <1>19, ReviewedFrame DEF GitCallFails, store, git, PrKept, Goto, TypeOK, PastBegin, At
<1>20. CASE MarkTaskDone
  BY <1>0, <1>20, ReviewedFrame DEF MarkTaskDone, store, git, PrKept, Goto, TypeOK, PastBegin, At
<1>21. CASE FinishMerged
  <2>1. PrKept
    BY <1>21, FinishPr DEF FinishMerged, Position, At
  <2> QED BY <1>0, <1>21, <2>1, ReviewedFrame DEF FinishMerged, git, Goto, TypeOK, PastBegin, At
<1>22. CASE StopLanded
  BY <1>0, <1>22, ReviewedFrame DEF StopLanded, store, git, PrKept, Goto, TypeOK, PastBegin, At
<1>23. CASE Block
  <2>1. PrKept
    BY <1>23, SetPr DEF Block, PrKept
  <2> QED BY <1>0, <1>23, <2>1, ReviewedFrame DEF Block, git, Goto, TypeOK, PastBegin, At
<1>24. CASE StopBlocked
  BY <1>0, <1>24, ReviewedFrame DEF StopBlocked, store, git, PrKept, Goto, TypeOK, PastBegin, At
<1>25. CASE AskRebase
  <2>1. PrKept
    BY <1>25, SetPr DEF AskRebase, PrKept
  <2> QED BY <1>0, <1>25, <2>1, ReviewedFrame DEF AskRebase, git, Goto, TypeOK, PastBegin, At
<1>26. CASE RebaseAsked
  <2>1. PrKept
    BY <1>26, SetPr DEF RebaseAsked, PrKept
  <2> QED BY <1>0, <1>26, <2>1, ReviewedFrame DEF RebaseAsked, git, Goto, TypeOK, PastBegin, At
<1>27. CASE RebaseNotDelivered
  BY <1>0, <1>27, ReviewedFrame DEF RebaseNotDelivered, store, git, PrKept, Goto, TypeOK, PastBegin, At
<1>28. CASE OpenPr
  BY <1>0, <1>28, ReviewedFrame DEF OpenPr, store, git, PrKept, Goto, TypeOK, PastBegin, At
<1>29. CASE RecordPr
  <2>0. PICK r \in Runs : r = coord.run
    BY <1>29 DEF RecordPr, Position, At
  <2>1. coord.seq # 0 /\ HandoffOf(coord.seq, r) /\ Begun(r)
    BY <1>29, <2>0 DEF RecordPr, Position, At, HandoffOf, Finalizing, TypeOK, Reviewed, PastBegin
  <2>2. UNCHANGED <<events, pr>> /\ coord'.run = r /\ coord'.pc \in {"block", "sendReview"}
    BY <1>29, <2>0 DEF RecordPr, Goto, TypeOK, git
  <2>3. ASSUME NEW c \in ClaimRows
        PROVE  /\ [Advanced(c, "pr_created", 0) EXCEPT !.prSeq = coord.seq].prSeq = coord.seq
               /\ [Advanced(c, "pr_created", 0) EXCEPT !.prSeq = coord.seq].fin = "pr_created"
    <3>1. Advanced(c, "pr_created", 0) \in ClaimRows /\ Advanced(c, "pr_created", 0).fin = "pr_created"
      BY AdvancedTyped, AdvancedState DEF FinalizationStates
    <3> QED BY <3>1 DEF ClaimRows
  <2>4. \A q \in Runs : \/ claim'[q].prSeq = claim[q].prSeq /\ claim'[q].fin = claim[q].fin
                        \/ q = r /\ claim'[q].prSeq = coord.seq /\ claim'[q].fin = "pr_created"
    BY <1>29, <2>0, <2>3 DEF RecordPr, TypeOK
  <2>5. InProgress(r) => claim'[r].prSeq = coord.seq
    BY <1>29, <2>0, <2>3 DEF RecordPr, TypeOK
  <2>6. ASSUME InProgress(r)' PROVE InProgress(r)
    BY <1>0, <2>1, <2>6, StaysInProgress
  <2>7. \A q \in Runs : claim'[q].prSeq # 0 => HandoffOf(claim'[q].prSeq, q)
    BY <2>1, <2>4 DEF Reviewed
  <2>8. \A q \in Runs : claim'[q].fin = "pr_review_in_progress" => claim'[q].prSeq # 0
    BY <2>1, <2>4 DEF Reviewed
  <2>9. Begun(r)' /\ (InProgress(r)' => claim'[r].prSeq # 0)
    BY <1>0, <2>1, <2>5, <2>6 DEF StatesAdvance
  <2> QED BY <2>2, <2>7, <2>8, <2>9 DEF Reviewed, HandedOffTwice, HandoffOf, At, Begun, InProgress
<1>30. CASE ReviewSent
  BY <1>0, <1>30, ReviewedFrame DEF ReviewSent, store, git, PrKept, Goto, TypeOK, PastBegin, At
<1>31. CASE ReviewNotDelivered
  BY <1>0, <1>31, ReviewedFrame DEF ReviewNotDelivered, store, git, PrKept, Goto, TypeOK, PastBegin, At
<1>32. CASE RecordReview
  <2> DEFINE r == coord.run
  <2>1. r \in Runs /\ (InProgress(r) => claim[r].prSeq # 0)
    BY <1>32 DEF RecordReview, Position, At, Reviewed
  <2>2. UNCHANGED <<events, pr>> /\ coord'.pc = "commit"
    BY <1>32 DEF RecordReview, Goto, TypeOK, git
  <2>3. ASSUME NEW q \in Runs
        PROVE  /\ claim'[q].prSeq = claim[q].prSeq
               /\ claim'[q].fin = claim[q].fin \/ (q = r /\ InProgress(r))
    <3>1. Advanced(claim[r], "pr_review_in_progress", 0).prSeq = claim[r].prSeq
      BY <2>1, AdvancedState DEF TypeOK
    <3>2. claim'[q] = IF q = r /\ InProgress(r) THEN Advanced(claim[r], "pr_review_in_progress", 0)
                      ELSE claim[q]
      BY <1>32 DEF RecordReview, setRunFinalizationState, TypeOK
    <3>3. CASE q = r /\ InProgress(r)
      BY <3>1, <3>2, <3>3
    <3>4. CASE ~(q = r /\ InProgress(r))
      BY <3>2, <3>4
    <3> QED BY <3>3, <3>4
  <2>4. \A q \in Runs : claim'[q].fin = "pr_review_in_progress" => claim'[q].prSeq # 0
    BY <2>1, <2>3 DEF Reviewed
  <2> HIDE DEF r
  <2> QED BY <2>2, <2>3, <2>4 DEF Reviewed, HandedOffTwice, HandoffOf, At, PastBegin
<1>33. CASE MergePr
  <2>1. coord.run \in Runs /\ HandedOffTwice(coord.run) /\ claim' = claim
    BY <1>33 DEF MergePr, Position, At, Reviewed, store
  <2>2. \A q \in Runs : pr'[q] = "merged" => q = coord.run \/ pr[q] = "merged"
    BY <1>33 DEF MergePr, TypeOK
  <2>3. \A q \in Runs : pr'[q] = "merged" => HandedOffTwice(q)'
    BY <1>0, <2>1, <2>2, HandoffsStay DEF Reviewed
  <2>4. coord'.pc = "prMerged"
    BY <1>33 DEF MergePr, Goto, TypeOK
  <2> QED BY <1>0, <2>1, <2>3, <2>4, HandoffsStay DEF Reviewed, PastBegin, At
<1>34. CASE RecordPrMerged
  <2>1. PrKept
    BY <1>34, SetPr DEF RecordPrMerged, PrKept
  <2> QED BY <1>0, <1>34, <2>1, ReviewedFrame DEF RecordPrMerged, git, Goto, TypeOK, PastBegin, At
<1>35. CASE MainAdvances
  BY <1>0, <1>35, ReviewedFrame DEF MainAdvances, store, git, PrKept, TypeOK
<1>36. CASE Crash
  BY <1>0, <1>36, ReviewedFrame DEF Crash, store, git, PrKept, Down, PastBegin
<1>37. CASE Restart
  BY <1>0, <1>37, ReviewedFrame DEF Restart, store, git, PrKept, Idle, PastBegin
<1>38. CASE ResetCursor
  BY <1>0, <1>38, ReviewedFrame DEF ResetCursor, store, git, PrKept, TypeOK
<1>39. CASE UNCHANGED vars
  BY <1>0, <1>39, ReviewedFrame DEF vars, store, git, PrKept, TypeOK
<1>40. QED
  BY <1>1, <1>2, <1>3, <1>4, <1>5, <1>6, <1>7, <1>8, <1>9, <1>10, <1>11,
     <1>12, <1>13, <1>14, <1>15, <1>16, <1>17, <1>18, <1>19, <1>20, <1>21,
     <1>22, <1>23, <1>24, <1>25, <1>26, <1>27, <1>28, <1>29, <1>30, <1>31,
     <1>32, <1>33, <1>34, <1>35, <1>36, <1>37, <1>38, <1>39
  DEF Next, Worker, Handler

-----------------------------------------------------------------------------
FinalizationInv ==
    Base /\ Budget /\ Waiting /\ Landed /\ Reported /\ Kept /\ Reviewed

\* The invariant holds at the start: nothing is claimed, nothing is done.
LEMMA InvInit == Init => FinalizationInv
<1> SUFFICES ASSUME Init PROVE FinalizationInv
  OBVIOUS
<1>1. NoClaim \in ClaimRows
  BY DEF NoClaim, ClaimRows, FinalizationStates
<1>2. events \in Seq(Events) /\ Len(events) = 0
  BY DEF Init
<1>3. TypeOK
  BY <1>1, <1>2 DEF Init, TypeOK, Statuses, Idle, Places, Awaits
<1>4. Position
  BY DEF Init, Idle, Position, Finalizing
<1>5. Budget
  BY DEF Init, Idle, Budget, RowOK, NoClaim
<1>6. Waiting
  BY DEF Init, Idle, Waiting, Settled, Owned, NoClaim, Acknowledging
<1>7. Landed
  BY DEF Init, Idle, Landed
<1>8. Reported
  BY <1>2 DEF Reported
<1>9. Kept
  BY DEF Init, Idle, Kept, Active, Live, NoClaim, At
<1>10. Reviewed
  BY DEF Init, Idle, Reviewed, NoClaim, At, PastBegin
<1> QED BY <1>3, <1>4, <1>5, <1>6, <1>7, <1>8, <1>9, <1>10 DEF FinalizationInv, Base

\* Every step keeps the invariant.
LEMMA InvStep == FinalizationInv /\ [Next]_vars => FinalizationInv'
BY TypeStep, PositionStep, BudgetStep, WaitingStep, LandedStep, ReportedStep, KeptStep,
   ReviewedStep DEF FinalizationInv, Base

\* In every behaviour the invariant holds.
THEOREM InvHolds == Spec => []FinalizationInv
BY InvInit, InvStep, PTL DEF Spec

\* The types hold; in particular the cursor never passes the end of the log.
THEOREM FinalizationTyped == Spec => []TypeOK
<1>1. FinalizationInv => TypeOK
  BY DEF FinalizationInv, Base
<1> QED BY <1>1, InvHolds, PTL

\* A run that waits for the coordinator has its handoff ahead of the cursor,
\* however often the coordinator dies or its cursor is reset.
THEOREM HandoffsAreKept == Spec => []AwaitingHasEvent
<1>1. FinalizationInv => AwaitingHasEvent
  BY DEF FinalizationInv, Waiting, Owned, Pending, AwaitingHasEvent, InProgress
<1> QED BY <1>1, InvHolds, PTL

\* However many reports, requests and retries there are, the count a rebase is
\* refused by stays within three.
THEOREM RebasesAreBounded == Spec => []RebaseBounded
<1>1. FinalizationInv => RebaseBounded
  BY DEF FinalizationInv, Budget, RowOK, RebaseBounded
<1> QED BY <1>1, InvHolds, PTL

\* A task is done only when work of one of its runs is in main.
THEOREM DoneIsMerged == Spec => []DoneMeansMerged
<1>1. FinalizationInv => DoneMeansMerged
  BY DEF FinalizationInv, Landed, DoneMeansMerged
<1> QED BY <1>1, InvHolds, PTL

\* A run is reported ended at most once, whoever ends it and however often the
\* coordinator replays its events.
THEOREM EndIsReportedOnce == Spec => []OneTerminalEvent
<1>1. FinalizationInv => OneTerminalEvent
  <2> SUFFICES ASSUME FinalizationInv, NEW r \in Runs
               PROVE  Cardinality({s \in 1 .. Len(events) :
                                      events[s].run = r /\ events[s].event \in Terminal}) <= 1
    BY DEF OneTerminalEvent
  <2> DEFINE E == {s \in 1 .. Len(events) : events[s].run = r /\ events[s].event \in Terminal}
  <2>1. \A s, t \in E : s = t
    BY DEF FinalizationInv, Reported, IsEnd
  <2> HIDE DEF E
  <2>2. CASE E = {}
    BY <2>2, FS_EmptySet DEF E
  <2>3. CASE E # {}
    <3>1. PICK s : E = {s}
      BY <2>1, <2>3
    <3>2. Cardinality(E) = 1
      BY <3>1, FS_Singleton
    <3> QED BY <3>2 DEF E
  <2> QED BY <2>2, <2>3
<1> QED BY <1>1, InvHolds, PTL

\* The worktree of a run that may still be worked on is never dropped, neither
\* by a late cleanup nor by the replay of an ended run's event.
THEOREM WorkIsKept == Spec => []WorkIsPreserved
<1>1. FinalizationInv => WorkIsPreserved
  BY DEF FinalizationInv, Kept, WorkIsPreserved
<1> QED BY <1>1, InvHolds, PTL

\* A pull request is merged on a handoff other than the one that opened it,
\* however often that one is delivered again.
THEOREM PrMergedOnSecondHandoff == Spec => []PrMergeNeedsSecondHandoff
<1>1. FinalizationInv => PrMergeNeedsSecondHandoff
  <2> SUFFICES ASSUME FinalizationInv, NEW r \in Runs, pr[r] = "merged"
               PROVE  LET handoffs == {s \in 1 .. Len(events) :
                                          events[s].run = r /\ events[s].event \in Handoffs}
                      IN  \/ Cardinality(handoffs) >= 2
                          \/ \E s \in handoffs : events[s].event = "ready_to_merge"
    BY DEF PrMergeNeedsSecondHandoff
  <2> DEFINE H == {s \in 1 .. Len(events) : events[s].run = r /\ events[s].event \in Handoffs}
  <2>1. PICK s \in 1 .. Len(events), t \in 1 .. Len(events) :
          HandoffOf(s, r) /\ HandoffOf(t, r) /\ (s # t \/ events[s].event = "ready_to_merge")
    BY DEF FinalizationInv, Reviewed, HandedOffTwice
  <2>2. s \in H /\ t \in H
    BY <2>1 DEF HandoffOf
  <2>3. CASE s # t
    <3>1. Len(events) \in Int
      <4>1. events \in Seq(Events)
        BY DEF FinalizationInv, Base, TypeOK
      <4> QED BY <4>1
    <3>2. IsFiniteSet(H)
      <4>1. IsFiniteSet(1 .. Len(events))
        BY <3>1, FS_Interval
      <4>2. H \in SUBSET (1 .. Len(events))
        OBVIOUS
      <4> HIDE DEF H
      <4> QED BY <4>1, <4>2, FS_Subset
    <3> HIDE DEF H
    <3>3. {s} \cup {t} \in SUBSET H /\ t \notin {s}
      BY <2>2, <2>3
    <3>4. IsFiniteSet({s}) /\ Cardinality({s}) = 1
      BY FS_Singleton
    <3>5. Cardinality({s} \cup {t}) = 1 + 1
      BY <3>3, <3>4, FS_AddElement
    <3>6. Cardinality({s} \cup {t}) <= Cardinality(H)
      BY <3>2, <3>3, FS_Subset
    <3>7. Cardinality(H) \in Nat
      BY <3>2, FS_CardinalityType
    <3>8. 1 + 1 <= Cardinality(H)
      BY <3>5, <3>6, Zenon
    <3>9. Cardinality(H) >= 2
      BY <3>7, <3>8
    <3> QED BY <3>9 DEF H
  <2>4. CASE events[s].event = "ready_to_merge"
    BY <2>2, <2>4
  <2> QED BY <2>1, <2>3, <2>4
<1> QED BY <1>1, InvHolds, PTL

\* A done task stays done through late failures and replays.
THEOREM DoneIsFinal == Spec => MergeIsFinal
<1>1. [Next]_vars => [task = "done" => task' = "done"]_vars
  BY DoneStep
<1> QED BY <1>1, PTL DEF Spec, MergeIsFinal
=============================================================================
