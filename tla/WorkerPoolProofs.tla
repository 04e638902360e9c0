--------------------------- MODULE WorkerPoolProofs ---------------------------
(***************************************************************************)
(* Proofs about the coordinator's tick.  Every step but a claim moves      *)
(* claims, workers and events in a few ways only (Kept); what it does to   *)
(* the tick's own control has a handful of shapes (Stepped).  PoolInv is   *)
(* proved over the shapes, and with it the bound on workers and on typed   *)
(* envelopes.  That no run under way is killed needs one invariant more    *)
(* (Held) and that no two runs under way share a worker's name, which the  *)
(* code leaves to chance (DistinctNames).                                  *)
(***************************************************************************)
EXTENDS WorkerPool, FiniteSetTheorems, TLAPS

-----------------------------------------------------------------------------
(* What a step may do to claims, workers and events.                       *)

\* A claim keeps its worker, is never claimed anew, and once ended stays so.
MovedRow(c, d) ==
    /\ d \in ClaimRows /\ d.name = c.name
    /\ Active(d) => Active(c)
    /\ d.state = "none" <=> c.state = "none"
    /\ d.state = "claimed" => c.state = "claimed"
    /\ c.sent => d.sent

ClaimsMove == claim' \in [Runs -> ClaimRows] /\ \A r \in Runs : MovedRow(claim[r], claim'[r])

\* A worker keeps its session, loses it, or gets the one of a run of its name.
WorkersMove ==
    /\ worker' \in [Names -> WorkerRows]
    /\ \A n \in Names :
          worker'[n].session \in {0, worker[n].session}
              \/ (worker'[n].session \in Runs /\ claim[worker'[n].session].name = n)

\* A run has a terminal event once it was in progress.
EventsMove == events' \subseteq Runs /\ \A r \in events' : r \in events \/ claim'[r].state \notin {"none", "claimed"}

Moves == ClaimsMove /\ WorkersMove /\ EventsMove

\* Claims that are not there name no worker, the others do.
Named ==
    \A r \in Runs :
        /\ claim[r].state = "none" => claim[r].name = NoName
        /\ claim[r].state # "none" => claim[r].name \in Names

-----------------------------------------------------------------------------
(* Rows.                                                                   *)

\* An agent that is not registered has no session.
LEMMA NoWorkerRow == NoWorker \in WorkerRows /\ NoWorker.session = 0 /\ NoWorker.status = "none"
<1>1. 0 \in 0 .. MaxRuns
  BY BoundsAssumption
<1> QED BY <1>1 DEF NoWorker, WorkerRows

\* A run that was not claimed has no claim, and no envelope was sent for it.
LEMMA NoClaimRow == NoClaim \in ClaimRows /\ NoClaim.state = "none" /\ ~NoClaim.sent
BY DEF NoClaim, ClaimRows

\* A worker's row keeps its type when one of its fields is set.
LEMMA WorkerFields ==
    ASSUME NEW w \in WorkerRows
    PROVE  /\ \A s \in {"none", "idle", "running", "offline", "dead"} :
                 [w EXCEPT !.status = s] \in WorkerRows /\ [w EXCEPT !.status = s].session = w.session
           /\ [w EXCEPT !.session = 0] \in WorkerRows /\ [w EXCEPT !.session = 0].session = 0
           /\ [w EXCEPT !.ready = TRUE] \in WorkerRows /\ [w EXCEPT !.ready = TRUE].session = w.session
<1>1. 0 \in 0 .. MaxRuns
  BY BoundsAssumption
<1> QED BY <1>1 DEF WorkerRows

\* So does a claim's.
LEMMA ClaimFields ==
    ASSUME NEW c \in ClaimRows
    PROVE  /\ \A s \in {"in_progress"} \cup Ended :
                 LET d == [c EXCEPT !.state = s]
                 IN  d \in ClaimRows /\ d.state = s /\ d.name = c.name /\ d.sent = c.sent
           /\ \A a \in {"fresh", "late", "lapsed"} :
                 LET d == [c EXCEPT !.age = a]
                 IN  d \in ClaimRows /\ d.state = c.state /\ d.name = c.name /\ d.sent = c.sent
           /\ LET d == [c EXCEPT !.sent = TRUE]
              IN  d \in ClaimRows /\ d.state = c.state /\ d.name = c.name /\ d.sent
BY DEF ClaimRows, Ended, ActiveStates

\* The end of a claim, and its start.
LEMMA EndRow ==
    ASSUME NEW c \in ClaimRows, c.state # "none", NEW s \in Ended
    PROVE  MovedRow(c, [c EXCEPT !.state = s, !.age = "fresh"]) /\ ~Active([c EXCEPT !.state = s, !.age = "fresh"])
           /\ [c EXCEPT !.state = s, !.age = "fresh"].state = s
<1> DEFINE d == [c EXCEPT !.state = s]
           e == [d EXCEPT !.age = "fresh"]
<1>1. d \in ClaimRows /\ d.state = s /\ d.name = c.name /\ d.sent = c.sent
  BY ClaimFields
<1>2. e = [c EXCEPT !.state = s, !.age = "fresh"]
  OBVIOUS
<1> HIDE DEF d
<1>3. e \in ClaimRows /\ e.state = s /\ e.name = c.name /\ e.sent = c.sent
  BY <1>1, ClaimFields
<1> HIDE DEF e
<1>4. MovedRow(c, e) /\ ~Active(e)
  BY <1>3 DEF MovedRow, Active, ActiveStates, Ended
<1> QED BY <1>2, <1>3, <1>4

\* run_started moves a claimed row to in_progress.
LEMMA StartRow ==
    ASSUME NEW c \in ClaimRows, c.state = "claimed"
    PROVE  MovedRow(c, [c EXCEPT !.state = "in_progress", !.age = "fresh"])
<1> DEFINE d == [c EXCEPT !.state = "in_progress"]
           e == [d EXCEPT !.age = "fresh"]
<1>1. d \in ClaimRows /\ d.state = "in_progress" /\ d.name = c.name /\ d.sent = c.sent
  BY ClaimFields
<1>2. e = [c EXCEPT !.state = "in_progress", !.age = "fresh"]
  OBVIOUS
<1> HIDE DEF d
<1>3. e \in ClaimRows /\ e.state = "in_progress" /\ e.name = c.name /\ e.sent = c.sent
  BY <1>1, ClaimFields
<1> HIDE DEF e
<1>4. MovedRow(c, e)
  BY <1>3 DEF MovedRow, Active, ActiveStates
<1> QED BY <1>2, <1>4

\* A claim that gets another age has not moved.
LEMMA AgeRow ==
    ASSUME NEW c \in ClaimRows, NEW a \in {"fresh", "late", "lapsed"}
    PROVE  MovedRow(c, [c EXCEPT !.age = a])
<1> DEFINE d == [c EXCEPT !.age = a]
<1>1. d \in ClaimRows /\ d.state = c.state /\ d.name = c.name /\ d.sent = c.sent
  BY ClaimFields
<1> HIDE DEF d
<1>2. MovedRow(c, d)
  BY <1>1 DEF MovedRow, Active
<1> QED BY <1>2 DEF d

\* A step that moves one claim.
LEMMA OneMoves ==
    ASSUME claim \in [Runs -> ClaimRows], NEW r \in Runs, NEW d, MovedRow(claim[r], d),
           claim' = [claim EXCEPT ![r] = d]
    PROVE  ClaimsMove /\ claim'[r] = d
<1>1. d \in ClaimRows
  BY DEF MovedRow
<1>2. /\ claim' \in [Runs -> ClaimRows] /\ claim'[r] = d
      /\ \A q \in Runs : q # r => claim'[q] = claim[q]
  BY <1>1
<1>3. \A q \in Runs : MovedRow(claim[q], claim[q])
  BY DEF MovedRow
<1> QED BY <1>2, <1>3 DEF ClaimsMove

\* Claims that are left alone have moved as they may.
LEMMA NoneMove ==
    ASSUME claim \in [Runs -> ClaimRows], UNCHANGED claim
    PROVE  ClaimsMove
BY DEF ClaimsMove, MovedRow

\* A step that changes one worker's row.
LEMMA OneWorker ==
    ASSUME worker \in [Names -> WorkerRows], NEW n, NEW w \in WorkerRows,
           n \in Names => w.session \in {0, worker[n].session}
                          \/ (w.session \in Runs /\ claim[w.session].name = n),
           worker' = [worker EXCEPT ![n] = w]
    PROVE  WorkersMove
<1>1. worker' \in [Names -> WorkerRows] /\ \A m \in Names : worker'[m] = IF m = n THEN w ELSE worker[m]
  OBVIOUS
<1> QED BY <1>1 DEF WorkersMove

\* Agents that are left alone have moved as they may.
LEMMA NoWorkerMoves ==
    ASSUME worker \in [Names -> WorkerRows], UNCHANGED worker
    PROVE  WorkersMove
BY DEF WorkersMove

\* removeAgent blanks a row.
LEMMA RemovedMoves ==
    ASSUME worker \in [Names -> WorkerRows], NEW n, removeAgent(n)
    PROVE  WorkersMove
BY OneWorker, NoWorkerRow DEF removeAgent

\* finishRun ends an active run and leaves any other alone.
LEMMA FinishMoves ==
    ASSUME TypeOK, NEW r \in Runs, claim[r].state # "none", finishRun(r)
    PROVE  /\ ClaimsMove /\ task' \in [Tasks -> {"todo", "busy", "blocked", "done"}]
           /\ ~Active(claim'[r]) /\ claim'[r].state # "none"
           /\ events' \subseteq events \cup {r} /\ (events' # events => claim'[r].state = "failed")
<1>1. CASE Active(claim[r])
  <2> DEFINE d == [claim[r] EXCEPT !.state = "failed", !.age = "fresh"]
  <2>1. claim[r] \in ClaimRows /\ "failed" \in Ended
    BY DEF TypeOK, Ended
  <2>2. MovedRow(claim[r], d) /\ ~Active(d) /\ d.state = "failed"
    BY <2>1, EndRow
  <2>3. claim' = [claim EXCEPT ![r] = d] /\ Requeue(claim[r].task) /\ events' = events \cup {r}
    BY <1>1 DEF finishRun, End
  <2> HIDE DEF d
  <2>4. ClaimsMove /\ claim'[r] = d
    BY <2>2, <2>3, OneMoves DEF TypeOK
  <2>5. task' \in [Tasks -> {"todo", "busy", "blocked", "done"}]
    BY <2>3 DEF Requeue, TypeOK
  <2> QED BY <2>2, <2>3, <2>4, <2>5
<1>2. CASE ~Active(claim[r])
  <2>1. UNCHANGED <<claim, task, events>>
    BY <1>2 DEF finishRun
  <2>2. ClaimsMove
    BY <2>1, NoneMove DEF TypeOK
  <2> QED BY <1>2, <2>1, <2>2 DEF TypeOK
<1> QED BY <1>1, <1>2

-----------------------------------------------------------------------------
(* Every step but a claim moves claims, workers and events as they may.    *)

\* What the coordinator has to do, or awaits, is for a claim.
Assigned == \A r \in Runs : plan[r] # "none" \/ op[r] # "none" => claim[r].state # "none"

Base == TypeOK /\ Named /\ Assigned

Kept == TypeOK' /\ Moves

\* Workers and the clock.
LEMMA WorkerSteps ==
    ASSUME Base, NEW r \in Runs,
           \/ reportForDuty(r) \/ startRun(r) \/ heartbeat(r) \/ workComplete(r)
           \/ ProcessExits(r) \/ TimesOut(r) \/ LeaseLapses(r)
    PROVE  Kept
<1> USE DEF Base
<1>0. claim[r] \in ClaimRows
  BY DEF TypeOK
<1>1. CASE reportForDuty(r)
  <2>1. /\ worker' = [worker EXCEPT ![claim[r].name].ready = TRUE] /\ AgentOf(r).session = r
        /\ UNCHANGED <<task, claim, proc, own, events, removals, typed, transport, at, plan, todo, op, crashes>>
    BY <1>1 DEF reportForDuty, coordinator
  <2>2. claim[r].name \in Names
    BY <2>1, NoWorkerRow, BoundsAssumption DEF AgentOf, Named, Runs, NoClaim
  <2> DEFINE w == [worker[claim[r].name] EXCEPT !.ready = TRUE]
  <2>3. w \in WorkerRows /\ w.session = worker[claim[r].name].session
    BY <2>2, WorkerFields DEF TypeOK
  <2>4. worker' = [worker EXCEPT ![claim[r].name] = w]
    BY <2>1
  <2> HIDE DEF w
  <2>5. WorkersMove
    BY <2>3, <2>4, OneWorker DEF TypeOK
  <2> QED BY <2>1, <2>5, NoneMove DEF Kept, Moves, EventsMove, WorkersMove, TypeOK
<1>2. CASE startRun(r)
  <2> DEFINE d == [claim[r] EXCEPT !.state = "in_progress", !.age = "fresh"]
  <2>1. /\ claim' = [claim EXCEPT ![r] = d] /\ claim[r].state = "claimed"
        /\ UNCHANGED <<task, worker, proc, own, events, removals, typed, transport, at, plan, todo, op, crashes>>
    BY <1>2 DEF startRun, coordinator, validateProgressInput
  <2>2. MovedRow(claim[r], d)
    BY <1>0, <2>1, StartRow
  <2> HIDE DEF d
  <2>3. ClaimsMove
    BY <2>1, <2>2, OneMoves DEF TypeOK
  <2> QED BY <2>1, <2>3, NoWorkerMoves DEF Kept, Moves, EventsMove, ClaimsMove, TypeOK
<1>3. CASE heartbeat(r) \/ TimesOut(r) \/ LeaseLapses(r)
  <2>1. PICK a \in {"fresh", "late", "lapsed"} : claim' = [claim EXCEPT ![r].age = a]
    BY <1>3 DEF heartbeat, TimesOut, LeaseLapses
  <2>2. UNCHANGED <<task, worker, proc, own, events, removals, typed, transport, at, plan, todo, op, crashes>>
    BY <1>3 DEF heartbeat, TimesOut, LeaseLapses, coordinator
  <2> DEFINE d == [claim[r] EXCEPT !.age = a]
  <2>3. MovedRow(claim[r], d) /\ claim' = [claim EXCEPT ![r] = d]
    BY <1>0, <2>1, AgeRow
  <2> HIDE DEF d
  <2>4. ClaimsMove
    BY <2>3, OneMoves DEF TypeOK
  <2> QED BY <2>2, <2>4, NoWorkerMoves DEF Kept, Moves, EventsMove, ClaimsMove, TypeOK
<1>4. CASE workComplete(r)
  <2>1. /\ events' = events \cup {r} /\ claim[r].state = "in_progress"
        /\ UNCHANGED <<task, claim, worker, proc, own, removals, typed, transport, at, plan, todo, op, crashes>>
    BY <1>4 DEF workComplete, coordinator, validateProgressInput
  <2>2. EventsMove
    BY <2>1 DEF EventsMove, TypeOK
  <2> QED BY <2>1, <2>2, NoneMove, NoWorkerMoves DEF Kept, Moves, TypeOK
<1>5. CASE ProcessExits(r)
  <2>1. /\ proc' = [proc EXCEPT ![r] = "dead"]
        /\ UNCHANGED <<task, claim, worker, own, events, removals, typed, transport, at, plan, todo, op, crashes>>
    BY <1>5 DEF ProcessExits, coordinator
  <2> QED BY <2>1, NoneMove, NoWorkerMoves DEF Kept, Moves, EventsMove, TypeOK
<1> QED BY <1>1, <1>2, <1>3, <1>4, <1>5

\* run-fail, and an operator who cancels or resets a task.
LEMMA EndSteps ==
    ASSUME Base, NEW r \in Runs, runFail(r) \/ RemovesRun(r)
    PROVE  Kept
<1> USE DEF Base
<1>0. claim[r] \in ClaimRows
  BY DEF TypeOK
<1>1. CASE runFail(r)
  <2>1. /\ finishRun(r) /\ claim[r].state # "none"
        /\ UNCHANGED <<worker, proc, own, removals, typed, transport, at, plan, todo, op, crashes>>
    BY <1>1 DEF runFail, coordinator, validateProgressInput
  <2>2. /\ ClaimsMove /\ task' \in [Tasks -> {"todo", "busy", "blocked", "done"}]
        /\ events' \subseteq events \cup {r} /\ (events' # events => claim'[r].state = "failed")
    BY <2>1, FinishMoves
  <2>3. EventsMove
    BY <2>2 DEF EventsMove, TypeOK
  <2> QED BY <2>1, <2>2, <2>3, NoWorkerMoves DEF Kept, Moves, ClaimsMove, EventsMove, TypeOK
<1>2. CASE RemovesRun(r)
  <2>1. /\ Active(claim[r]) /\ removals < MaxRemovals /\ removals' = removals + 1
        /\ UNCHANGED <<worker, proc, own, events, typed, transport, at, plan, todo, op, crashes>>
    BY <1>2 DEF RemovesRun, coordinator
  <2>2. PICK s \in Ended : End(r, s)
    BY <1>2 DEF RemovesRun, Ended
  <2>3. task' \in [Tasks -> {"todo", "busy", "blocked", "done"}]
    BY <1>2 DEF RemovesRun, TypeOK
  <2> DEFINE d == [claim[r] EXCEPT !.state = s, !.age = "fresh"]
  <2>4. MovedRow(claim[r], d) /\ claim' = [claim EXCEPT ![r] = d]
    BY <1>0, <2>1, <2>2, EndRow DEF End, Active, ActiveStates
  <2> HIDE DEF d
  <2>5. ClaimsMove
    BY <2>4, OneMoves DEF TypeOK
  <2>6. removals' \in 0 .. MaxRemovals
    BY <2>1, BoundsAssumption DEF TypeOK
  <2> QED BY <2>1, <2>3, <2>5, <2>6, NoWorkerMoves DEF Kept, Moves, ClaimsMove, EventsMove, TypeOK
<1> QED BY <1>1, <1>2

\* Sessions stop.
LEMMA StopTyped ==
    ASSUME TypeOK, NEW w, stop(w)
    PROVE  proc' \in [Runs -> {"none", "live", "dead"}] /\ own' \subseteq Runs
BY DEF stop, TypeOK

\* Operators and the sweep of stale agents.
LEMMA RegistrySteps ==
    ASSUME Base, NEW n \in Names, markStaleAgentsDead(n) \/ removeWorker(n) \/ gcWorkers(n)
    PROVE  Kept
<1> USE DEF Base
<1>1. CASE markStaleAgentsDead(n)
  <2> DEFINE v == [worker[n] EXCEPT !.status = "dead"]
             w == [v EXCEPT !.session = 0]
  <2>1. /\ worker' = [worker EXCEPT ![n] = w]
        /\ UNCHANGED <<task, claim, proc, own, events, typed, transport, at, plan, todo, op, crashes, removals>>
    BY <1>1 DEF markStaleAgentsDead
  <2>2. v \in WorkerRows
    BY WorkerFields DEF TypeOK
  <2> HIDE DEF v
  <2>3. w \in WorkerRows /\ w.session = 0
    BY <2>2, WorkerFields
  <2> HIDE DEF w
  <2>4. WorkersMove
    BY <2>1, <2>3, OneWorker DEF TypeOK
  <2> QED BY <2>1, <2>4, NoneMove DEF Kept, Moves, WorkersMove, EventsMove, TypeOK
<1>2. CASE removeWorker(n)
  <2>1. /\ stop(worker[n]) /\ removeAgent(n)
        /\ UNCHANGED <<task, claim, events, removals, typed, transport, at, plan, todo, op, crashes>>
    BY <1>2 DEF removeWorker, coordinator
  <2>2. WorkersMove /\ proc' \in [Runs -> {"none", "live", "dead"}] /\ own' \subseteq Runs
    BY <2>1, RemovedMoves, StopTyped DEF TypeOK
  <2> QED BY <2>1, <2>2, NoneMove DEF Kept, Moves, WorkersMove, EventsMove, TypeOK
<1>3. CASE gcWorkers(n)
  <2>1. /\ removeAgent(n)
        /\ UNCHANGED <<task, claim, proc, own, events, removals, typed, transport, at, plan, todo, op, crashes>>
    BY <1>3 DEF gcWorkers, coordinator
  <2>2. WorkersMove
    BY <2>1, RemovedMoves DEF TypeOK
  <2> QED BY <2>1, <2>2, NoneMove DEF Kept, Moves, WorkersMove, EventsMove, TypeOK
<1> QED BY <1>1, <1>2, <1>3

\* The coordinator goes down.
LEMMA Nothings == Nothing \in [Runs -> Steps] /\ Nothing \in [Runs -> {"none", "launch", "started", "send", "sent", "clean"}]
                  /\ \A r \in Runs : Nothing[r] = "none"
BY DEF Nothing, Steps

WentDown ==
    /\ at' = "down" /\ op' = Nothing /\ plan' = Nothing /\ todo' = {}
    /\ crashes \in 0 .. crashes' /\ UNCHANGED <<claim, typed>>

\* The coordinator is shut down, ended or dies: the tick is over.
LEMMA DownSteps ==
    ASSUME Base, (doShutdown /\ UNCHANGED crashes) \/ Terminated \/ Crash
    PROVE  Kept /\ WentDown
<1> USE DEF Base
<1>1. /\ at' = "down" /\ plan' = Nothing /\ todo' = {} /\ op' = Nothing /\ own' = {}
      /\ UNCHANGED <<task, claim, worker, events, typed, transport, removals>>
  BY DEF doShutdown, Terminated, Crash, Dies
<1>2. crashes' \in 0 .. MaxCrashes /\ crashes \in 0 .. crashes'
  BY BoundsAssumption DEF doShutdown, Terminated, Crash, Dies, TypeOK
<1>3. proc' \in [Runs -> {"none", "live", "dead"}]
  <2>1. CASE doShutdown
    BY <2>1 DEF doShutdown, TypeOK
  <2>2. CASE Crash
    <3>1. PICK gone : proc' = [r \in Runs |-> IF r \in gone THEN "dead" ELSE proc[r]]
      BY <2>2 DEF Crash, Dies
    <3> QED BY <3>1 DEF TypeOK
  <2> QED BY <2>1, <2>2 DEF Terminated
<1> QED BY <1>1, <1>2, <1>3, Nothings, NoneMove, NoWorkerMoves DEF Kept, Moves, EventsMove, TypeOK, WentDown

\* A pass has been at run r, and gave it up or began what it awaits.
VisitedRun(r) ==
    /\ plan' = [plan EXCEPT ![r] = "none"]
    /\ UNCHANGED <<at, todo, typed, crashes, proc>>
    /\ \/ UNCHANGED op
       \/ op' = [op EXCEPT ![r] = "clean"] /\ ~Active(claim'[r])
       \/ /\ at = "ready" /\ plan[r] \in {"launch", "send"} /\ op' = [op EXCEPT ![r] = plan[r]]
          /\ UNCHANGED claim

\* The operation of one run is set.
LEMMA OpTyped ==
    ASSUME TypeOK, NEW r \in Runs, NEW x \in {"none", "launch", "started", "send", "sent", "clean"},
           op' = [op EXCEPT ![r] = x]
    PROVE  op' \in [Runs -> {"none", "launch", "started", "send", "sent", "clean"}]
BY DEF TypeOK

\* One run is taken off the pass.
LEMMA PlanTyped ==
    ASSUME TypeOK, NEW r \in Runs, plan' = [plan EXCEPT ![r] = "none"]
    PROVE  plan' \in [Runs -> Steps]
BY DEF TypeOK, Steps

\* GiveUp ends a run and begins to take its worker away.
LEMMA GiveUpMoves ==
    ASSUME TypeOK, NEW r \in Runs, claim[r].state # "none", GiveUp(r)
    PROVE  /\ Moves /\ task' \in [Tasks -> {"todo", "busy", "blocked", "done"}]
           /\ op' = [op EXCEPT ![r] = "clean"] /\ ~Active(claim'[r])
           /\ op' \in [Runs -> {"none", "launch", "started", "send", "sent", "clean"}]
           /\ UNCHANGED <<worker, proc, own, typed>>
<1>1. finishRun(r) /\ op' = [op EXCEPT ![r] = "clean"] /\ UNCHANGED <<worker, proc, own, typed>>
  BY DEF GiveUp
<1>2. /\ ClaimsMove /\ task' \in [Tasks -> {"todo", "busy", "blocked", "done"}]
      /\ ~Active(claim'[r])
      /\ events' \subseteq events \cup {r} /\ (events' # events => claim'[r].state = "failed")
  BY <1>1, FinishMoves
<1>3. EventsMove
  BY <1>2 DEF EventsMove, TypeOK
<1>4. WorkersMove
  BY <1>1, NoWorkerMoves DEF TypeOK
<1>5. op' \in [Runs -> {"none", "launch", "started", "send", "sent", "clean"}]
  BY <1>1, OpTyped
<1> QED BY <1>1, <1>2, <1>3, <1>4, <1>5 DEF Moves

\* A pass decides about a run.
LEMMA DecideSteps ==
    ASSUME Base, NEW r \in Runs, plan[r] # "none", NEW givesUp \in BOOLEAN, Decide(r, givesUp)
    PROVE  Kept /\ (WentDown \/ VisitedRun(r))
<1> USE DEF Base
<1>0. claim[r].state # "none"
  BY DEF Assigned
<1>1. CASE GiveUp(r) /\ Visited(r)
  <2>1. /\ Moves /\ task' \in [Tasks -> {"todo", "busy", "blocked", "done"}]
        /\ op' = [op EXCEPT ![r] = "clean"] /\ ~Active(claim'[r])
        /\ op' \in [Runs -> {"none", "launch", "started", "send", "sent", "clean"}]
        /\ UNCHANGED <<worker, proc, own, typed>>
    BY <1>0, <1>1, GiveUpMoves
  <2>2. plan' = [plan EXCEPT ![r] = "none"] /\ UNCHANGED <<transport, at, todo, crashes, removals>>
    BY <1>1 DEF Visited
  <2>3. plan' \in [Runs -> Steps]
    BY <2>2, PlanTyped
  <2>4. Kept
    BY <2>1, <2>2, <2>3 DEF Kept, Moves, ClaimsMove, EventsMove, TypeOK
  <2> QED BY <2>1, <2>2, <2>4 DEF VisitedRun
<1>2. CASE doShutdown /\ UNCHANGED crashes
  BY <1>2, DownSteps
<1>3. CASE Visited(r) /\ UNCHANGED <<task, claim, events, op, worker, proc, own, typed>>
  <2>1. plan' = [plan EXCEPT ![r] = "none"] /\ UNCHANGED <<transport, at, todo, crashes, removals>>
    BY <1>3 DEF Visited
  <2>2. plan' \in [Runs -> Steps]
    BY <2>1, PlanTyped
  <2>3. Kept
    BY <1>3, <2>1, <2>2, NoneMove, NoWorkerMoves DEF Kept, Moves, EventsMove, TypeOK
  <2> QED BY <1>3, <2>1, <2>3 DEF VisitedRun
<1> QED BY <1>1, <1>2, <1>3 DEF Decide

\* A pass of the tick visits one of its runs, or the coordinator goes down.
LEMMA PassSteps ==
    ASSUME Base, NEW r \in Runs,
           \/ probeActiveWorkerSessions(r) \/ enforceInProgressLifecycle(r) \/ processClaimedSessionReadiness(r)
    PROVE  Kept /\ (WentDown \/ VisitedRun(r)) /\ at \in {"probe", "supervise", "ready"} /\ op = Nothing
           /\ plan[r] # "none"
<1> USE DEF Base
<1>0. at \in {"probe", "supervise", "ready"} /\ op = Nothing /\ plan[r] # "none"
  BY DEF probeActiveWorkerSessions, enforceInProgressLifecycle, processClaimedSessionReadiness, InPass
<1>1. CASE \E g \in BOOLEAN : Decide(r, g)
  BY <1>0, <1>1, DecideSteps
<1>2. CASE /\ at = "ready" /\ plan[r] \in {"launch", "send"} /\ op' = [op EXCEPT ![r] = plan[r]]
           /\ UNCHANGED <<task, claim, events, worker, proc, own, typed>> /\ Visited(r)
  <2>1. plan' = [plan EXCEPT ![r] = "none"] /\ UNCHANGED <<transport, at, todo, crashes, removals>>
    BY <1>2 DEF Visited
  <2>2. plan' \in [Runs -> Steps] /\ op' \in [Runs -> {"none", "launch", "started", "send", "sent", "clean"}]
    BY <1>2, <2>1, PlanTyped, OpTyped
  <2>3. Kept
    BY <1>2, <2>1, <2>2, NoneMove, NoWorkerMoves DEF Kept, Moves, EventsMove, TypeOK
  <2> QED BY <1>0, <1>2, <2>1, <2>3 DEF VisitedRun
<1>3. CASE probeActiveWorkerSessions(r)
  BY <1>1, <1>3 DEF probeActiveWorkerSessions
<1>4. CASE enforceInProgressLifecycle(r)
  BY <1>1, <1>4 DEF enforceInProgressLifecycle
<1>5. CASE processClaimedSessionReadiness(r)
  BY <1>1, <1>2, <1>5 DEF processClaimedSessionReadiness, InPass
<1> QED BY <1>0, <1>3, <1>4, <1>5

\* The pass over terminal events ends a run that was in progress.
LEMMA EventSteps ==
    ASSUME Base, NEW r \in Runs, processTerminalRunEvents(r)
    PROVE  /\ Kept /\ UNCHANGED <<at, todo, typed, crashes, proc>> /\ at = "events" /\ op = Nothing
           /\ plan' = [plan EXCEPT ![r] = "none"] /\ plan[r] = "event"
           /\ \/ UNCHANGED op
              \/ op' = [op EXCEPT ![r] = "clean"] /\ ~hasOtherActiveClaim(claim[r].name, r)
           /\ claim[r].state = "in_progress" => ~Active(claim'[r])
           /\ claim[r].state # "in_progress" => UNCHANGED claim
<1> USE DEF Base
<1>0. /\ at = "events" /\ op = Nothing /\ plan[r] = "event" /\ plan' = [plan EXCEPT ![r] = "none"]
      /\ UNCHANGED <<worker, proc, own, typed, transport, at, todo, crashes, removals>>
  BY DEF processTerminalRunEvents, InPass
<1>1. /\ ClaimsMove /\ task' \in [Tasks -> {"todo", "busy", "blocked", "done"}]
      /\ claim[r].state = "in_progress" => ~Active(claim'[r])
      /\ claim[r].state # "in_progress" => UNCHANGED claim
  <2>1. CASE claim[r].state = "in_progress"
    <3>1. PICK s \in Ended : End(r, s)
      BY <2>1 DEF processTerminalRunEvents, Ended
    <3>2. task' \in [Tasks -> {"todo", "busy", "blocked", "done"}]
      BY <2>1 DEF processTerminalRunEvents, Requeue, TypeOK
    <3> DEFINE d == [claim[r] EXCEPT !.state = s, !.age = "fresh"]
    <3>3. MovedRow(claim[r], d) /\ ~Active(d) /\ claim' = [claim EXCEPT ![r] = d]
      BY <2>1, <3>1, EndRow DEF End, TypeOK
    <3> HIDE DEF d
    <3>4. ClaimsMove /\ claim'[r] = d
      BY <3>3, OneMoves DEF TypeOK
    <3> QED BY <2>1, <3>2, <3>3, <3>4
  <2>2. CASE claim[r].state # "in_progress"
    <3>1. UNCHANGED <<claim, task>>
      BY <2>2 DEF processTerminalRunEvents
    <3> QED BY <2>2, <3>1, NoneMove DEF TypeOK
  <2> QED BY <2>1, <2>2
<1>2. /\ events' \subseteq events
      /\ \/ UNCHANGED op
         \/ op' = [op EXCEPT ![r] = "clean"] /\ ~hasOtherActiveClaim(claim[r].name, r)
  <2>1. CASE hasOtherActiveClaim(claim[r].name, r)
    BY <2>1 DEF processTerminalRunEvents
  <2>2. CASE ~hasOtherActiveClaim(claim[r].name, r)
    BY <2>2 DEF processTerminalRunEvents
  <2> QED BY <2>1, <2>2
<1>3. plan' \in [Runs -> Steps] /\ op' \in [Runs -> {"none", "launch", "started", "send", "sent", "clean"}]
  <2>1. plan' \in [Runs -> Steps]
    BY <1>0, PlanTyped
  <2>2. CASE UNCHANGED op
    BY <2>1, <2>2 DEF TypeOK
  <2>3. CASE op' = [op EXCEPT ![r] = "clean"]
    BY <2>1, <2>3, OpTyped
  <2> QED BY <1>2, <2>2, <2>3
<1>4. Kept
  BY <1>0, <1>1, <1>2, <1>3, NoWorkerMoves DEF Kept, Moves, ClaimsMove, EventsMove, TypeOK
<1> QED BY <1>0, <1>1, <1>2, <1>4

\* The leases that have lapsed end their claims.
LEMMA ExpireSteps ==
    ASSUME Base, expireAndCleanupStaleLeases
    PROVE  /\ Kept /\ at = "events" /\ at' = "expire" /\ plan = Nothing /\ op = Nothing
           /\ UNCHANGED <<plan, todo, typed, crashes, proc>>
           /\ \A r \in Runs : Lapsed(claim[r]) => op'[r] = "clean" /\ ~Active(claim'[r])
           /\ \A r \in Runs : ~Lapsed(claim[r]) => op'[r] = "none" /\ claim'[r] = claim[r]
<1> USE DEF Base
<1> DEFINE expired == {r \in Runs : Lapsed(claim[r])}
<1>1. /\ claim' = [r \in Runs |-> IF r \in expired
                     THEN [claim[r] EXCEPT !.state = "expired", !.age = "fresh"] ELSE claim[r]]
      /\ task' = [t \in Tasks |-> IF t \in {claim[r].task : r \in expired} THEN "todo" ELSE task[t]]
      /\ op' = [r \in Runs |-> IF r \in expired THEN "clean" ELSE "none"]
      /\ at = "events" /\ at' = "expire" /\ plan = Nothing /\ op = Nothing
      /\ UNCHANGED <<worker, proc, own, events, typed, transport, plan, todo, crashes, removals>>
  BY DEF expireAndCleanupStaleLeases, PassDone
<1>2. ASSUME NEW r \in Runs, Lapsed(claim[r])
      PROVE  MovedRow(claim[r], claim'[r]) /\ ~Active(claim'[r])
  <2> DEFINE d == [claim[r] EXCEPT !.state = "expired", !.age = "fresh"]
  <2>1. MovedRow(claim[r], d) /\ ~Active(d)
    BY <1>2, EndRow DEF Lapsed, Active, ActiveStates, Ended, TypeOK
  <2>2. claim'[r] = d
    BY <1>1, <1>2
  <2> HIDE DEF d
  <2> QED BY <2>1, <2>2
<1>3. \A r \in Runs : ~Lapsed(claim[r]) => claim'[r] = claim[r] /\ op'[r] = "none"
  BY <1>1
<1>4. \A r \in Runs : MovedRow(claim[r], claim[r])
  BY DEF MovedRow, TypeOK
<1>5. \A r \in Runs : MovedRow(claim[r], claim'[r])
  BY <1>2, <1>3, <1>4
<1>6. ClaimsMove
  <2>1. \A r \in Runs : claim'[r] \in ClaimRows
    BY <1>5 DEF MovedRow
  <2>2. claim' = [r \in Runs |-> claim'[r]]
    BY <1>1
  <2>3. claim' \in [Runs -> ClaimRows]
    BY <2>1, <2>2
  <2> QED BY <1>5, <2>3 DEF ClaimsMove
<1>7. task' \in [Tasks -> {"todo", "busy", "blocked", "done"}]
  BY <1>1 DEF TypeOK
<1>8. op' \in [Runs -> {"none", "launch", "started", "send", "sent", "clean"}]
  BY <1>1
<1>9. Kept
  BY <1>1, <1>6, <1>7, <1>8, NoWorkerMoves DEF Kept, Moves, ClaimsMove, EventsMove, TypeOK, Passes
<1> QED BY <1>1, <1>2, <1>3, <1>9

\* What Step says of a run.
LEMMA StepFacts ==
    ASSUME NEW p \in {"probe", "supervise", "ready"}, NEW r \in Runs
    PROVE  /\ Step(p, r) \in Steps \ {"event"}
           /\ Step(p, r) # "none" => Active(claim[r])
           /\ Step(p, r) = "send" => AwaitsEnvelope(claim[r])
<1> DEFINE c == claim[r]
           w == AgentOf(r)
           reachable == w.session # 0 /\ w.status # "offline"
<1>1. CASE p = "probe"
  BY <1>1 DEF Step, Steps
<1>2. CASE p = "supervise"
  <2>1. CASE c.state = "claimed" /\ c.sent /\ c.age # "fresh"
    BY <1>2, <2>1 DEF Step, Steps, Active, ActiveStates
  <2>2. CASE c.state = "in_progress"
    <3>1. Step(p, r) \in {"probe", "give_up", "none"}
      BY <1>2, <2>2 DEF Step
    <3> QED BY <2>2, <3>1 DEF Steps, Active, ActiveStates
  <2>3. CASE ~(c.state = "claimed" /\ c.sent /\ c.age # "fresh") /\ c.state # "in_progress"
    BY <1>2, <2>3 DEF Step, Steps
  <2> QED BY <2>1, <2>2, <2>3
<1>3. CASE p = "ready"
  <2>1. CASE AwaitsEnvelope(c) /\ w.status \notin {"none", "offline"}
    <3>1. Step(p, r) \in {"launch", "send", "give_up", "none"}
      BY <1>3, <2>1 DEF Step
    <3> QED BY <2>1, <3>1 DEF Steps, AwaitsEnvelope, Active, ActiveStates
  <2>2. CASE ~(AwaitsEnvelope(c) /\ w.status \notin {"none", "offline"})
    BY <1>3, <2>2 DEF Step, Steps
  <2> QED BY <2>1, <2>2
<1> QED BY <1>1, <1>2, <1>3

\* A tick begins and ends, and a coordinator starts again.
LEMMA EdgeSteps ==
    ASSUME Base, BeginTick \/ EndTick \/ Restart
    PROVE  /\ Kept /\ UNCHANGED <<op, typed, crashes, claim, proc>> /\ at' \in {"idle", "events"}
           /\ \A r \in Runs : plan'[r] # "none" => (plan'[r] = "event" /\ r \in events /\ at' = "events")
                                                   \/ plan'[r] = plan[r]
           /\ at = "idle" \/ at = "dispatch" \/ at = "down"
           /\ at' = "events" => \A r \in Runs : plan'[r] \in {"none", "event"}
           /\ at' = "idle" => plan' = plan
<1> USE DEF Base
<1>1. CASE BeginTick
  <2>1. /\ at = "idle" /\ at' = "events" /\ todo' \subseteq Tasks
        /\ plan' = [r \in Runs |-> IF r \in events THEN "event" ELSE "none"]
        /\ UNCHANGED <<task, claim, worker, proc, own, events, typed, transport, op, crashes, removals>>
    BY <1>1 DEF BeginTick
  <2>2. plan' \in [Runs -> Steps]
    BY <2>1 DEF Steps
  <2>3. Kept
    BY <2>1, <2>2, NoneMove, NoWorkerMoves DEF Kept, Moves, EventsMove, TypeOK, Passes
  <2> QED BY <2>1, <2>3
<1>2. CASE EndTick \/ Restart
  <2>1. /\ at \in {"dispatch", "down"} /\ at' = "idle"
        /\ UNCHANGED <<task, claim, worker, proc, own, events, typed, transport, plan, todo, op, crashes, removals>>
    BY <1>2 DEF EndTick, Restart, InPass
  <2>2. Kept
    BY <2>1, NoneMove, NoWorkerMoves DEF Kept, Moves, EventsMove, TypeOK
  <2> QED BY <2>1, <2>2
<1> QED BY <1>1, <1>2

\* The passes that may come next.
LEMMA After ==
    ASSUME at \in DOMAIN PassesAfter, NEW i \in DOMAIN PassesAfter[at]
    PROVE  PassesAfter[at][i] \in {"probe", "supervise", "ready"}
<1>1. at \in {"expire", "probe", "supervise", "ready"}
  BY DEF PassesAfter
<1>2. CASE at = "expire"
  <2>1. PassesAfter[at] = <<"probe", "supervise", "ready">>
    BY <1>2 DEF PassesAfter
  <2> QED BY <2>1
<1>3. CASE at = "probe"
  <2>1. PassesAfter[at] = <<"supervise", "ready">>
    BY <1>3 DEF PassesAfter
  <2> QED BY <2>1
<1>4. CASE at = "supervise"
  <2>1. PassesAfter[at] = <<"ready">>
    BY <1>4 DEF PassesAfter
  <2> QED BY <2>1
<1>5. CASE at = "ready"
  <2>1. PassesAfter[at] = <<>>
    BY <1>5 DEF PassesAfter
  <2> QED BY <2>1
<1> QED BY <1>1, <1>2, <1>3, <1>4, <1>5

\* A pass begins with what Step says of every run.
LEMMA NextPassSteps ==
    ASSUME Base, NextPass
    PROVE  /\ Kept /\ UNCHANGED <<op, typed, crashes, claim, proc, todo>> /\ op = Nothing
           /\ at' \in {"probe", "supervise", "ready"} /\ at # "dispatch"
           /\ \A r \in Runs :
                 /\ plan'[r] # "event" /\ (plan'[r] # "none" => Active(claim[r]))
                 /\ plan'[r] = "send" => AwaitsEnvelope(claim[r])
<1> USE DEF Base
<1>1. /\ at \in DOMAIN PassesAfter /\ op = Nothing
      /\ UNCHANGED <<task, claim, worker, proc, own, events, typed, transport, todo, op, crashes, removals>>
  BY DEF NextPass, PassDone
<1>2. PICK i \in DOMAIN PassesAfter[at] :
         at' = PassesAfter[at][i] /\ plan' = [r \in Runs |-> Step(PassesAfter[at][i], r)]
  BY DEF NextPass
<1>3. at' \in {"probe", "supervise", "ready"} /\ plan' = [r \in Runs |-> Step(at', r)]
  BY <1>1, <1>2, After
<1>4. PICK p \in {"probe", "supervise", "ready"} : at' = p /\ plan' = [r \in Runs |-> Step(p, r)]
  BY <1>3
<1>5. \A r \in Runs : plan'[r] = Step(p, r)
  BY <1>4
<1>6. \A r \in Runs :
         /\ Step(p, r) \in Steps \ {"event"} /\ (Step(p, r) # "none" => Active(claim[r]))
         /\ Step(p, r) = "send" => AwaitsEnvelope(claim[r])
  BY StepFacts
<1>7. plan' \in [Runs -> Steps]
  BY <1>4, <1>6
<1>8. Kept
  BY <1>1, <1>4, <1>7, NoneMove, NoWorkerMoves DEF Kept, Moves, EventsMove, TypeOK, Passes
<1>9. at # "dispatch"
  BY <1>1 DEF PassesAfter
<1> QED BY <1>1, <1>3, <1>5, <1>6, <1>8, <1>9

\* Handles whose session is gone are dropped.
LEMMA PoolReady ==
    ASSUME TypeOK, worker' = ensureSessionPoolReady
    PROVE  WorkersMove
<1>1. ASSUME NEW n \in Names
      PROVE  ensureSessionReady(worker[n]) \in WorkerRows /\ ensureSessionReady(worker[n]).session \in {0, worker[n].session}
  <2> DEFINE v == [worker[n] EXCEPT !.status = "idle"]
             w == [v EXCEPT !.session = 0]
  <2>1. worker[n] \in WorkerRows
    BY DEF TypeOK
  <2>2. v \in WorkerRows
    BY <2>1, WorkerFields
  <2> HIDE DEF v
  <2>3. w \in WorkerRows /\ w.session = 0
    BY <2>2, WorkerFields
  <2>4. ensureSessionReady(worker[n]) \in {worker[n], w}
    BY DEF ensureSessionReady, v, w
  <2> HIDE DEF w
  <2> QED BY <2>1, <2>3, <2>4
<1>2. \A n \in Names : worker'[n] \in {worker[n], ensureSessionReady(worker[n])}
  BY DEF ensureSessionPoolReady
<1>3. \A n \in Names : worker'[n] \in WorkerRows /\ worker'[n].session \in {0, worker[n].session}
  BY <1>1, <1>2 DEF TypeOK
<1>4. worker' = [n \in Names |-> worker'[n]]
  BY DEF ensureSessionPoolReady
<1>5. worker' \in [Names -> WorkerRows]
  BY <1>3, <1>4
<1> QED BY <1>3, <1>5 DEF WorkersMove

\* Dispatch is given at most what the active claims leave.
LEMMA PlanSteps ==
    ASSUME Base, planDispatch
    PROVE  /\ Kept /\ UNCHANGED <<op, plan, typed, crashes, claim, proc>>
           /\ op = Nothing /\ plan = Nothing /\ at' = "dispatch"
           /\ \/ Cardinality(todo') <= MaxWorkers - Cardinality(activeClaimAgents(claim))
              \/ Cardinality(todo') = MaxWorkers - Cardinality(activeClaimAgents(claim))
              \/ todo' = {}
<1> USE DEF Base
<1>1. /\ op = Nothing /\ plan = Nothing /\ at' = "dispatch" /\ worker' = ensureSessionPoolReady
      /\ UNCHANGED <<task, claim, proc, own, events, typed, transport, plan, op, crashes, removals>>
  BY DEF planDispatch, PassDone
<1>2. WorkersMove
  BY <1>1, PoolReady
<1> DEFINE capacity == MaxWorkers - Cardinality(activeClaimAgents(claim))
<1>3. PICK items \in SUBSET todo :
         /\ Cardinality(items) <= capacity \/ Cardinality(items) = capacity \/ items = {}
         /\ todo' = items
  BY DEF planDispatch, nextSpawnableTask
<1>4. CASE todo' = {}
  BY <1>1, <1>2, <1>4, NoneMove DEF Kept, Moves, EventsMove, WorkersMove, TypeOK, Passes
<1>5. CASE Cardinality(items) <= capacity
  <2>1. Kept
    BY <1>1, <1>2, <1>3, NoneMove DEF Kept, Moves, EventsMove, WorkersMove, TypeOK, Passes
  <2> QED BY <1>1, <1>3, <1>5, <2>1
<1>6. CASE Cardinality(items) = capacity
  <2>1. Kept
    BY <1>1, <1>2, <1>3, NoneMove DEF Kept, Moves, EventsMove, WorkersMove, TypeOK, Passes
  <2> QED BY <1>1, <1>3, <1>6, <2>1
<1> QED BY <1>3, <1>4, <1>5, <1>6

-----------------------------------------------------------------------------
(* What the coordinator awaits.                                            *)

\* cleanupRunCapacity kills the session that the agent of its run names, no other.
LEMMA CleanupSteps ==
    ASSUME Base, NEW r \in Runs, cleanupRunCapacity(r)
    PROVE  /\ Kept /\ UNCHANGED <<claim, typed, at, plan, todo, crashes>>
           /\ op[r] = "clean" /\ op' = [op EXCEPT ![r] = "none"]
           /\ \A q \in Runs : proc'[q] # proc[q] =>
                 /\ claim[r].name \in Names /\ worker[claim[r].name].session = q
<1> USE DEF Base
<1>1. /\ op[r] = "clean" /\ op' = [op EXCEPT ![r] = "none"] /\ events' \subseteq events
      /\ UNCHANGED <<task, claim, typed, transport, at, plan, todo, crashes, removals>>
  BY DEF cleanupRunCapacity
<1>2. op' \in [Runs -> {"none", "launch", "started", "send", "sent", "clean"}]
  BY <1>1, OpTyped
<1>3. ClaimsMove /\ EventsMove
  BY <1>1, NoneMove DEF EventsMove, TypeOK
<1>4. claim[r].name \in Names
  BY <1>1 DEF Assigned, Named
<1>5. AgentOf(r) = worker[claim[r].name]
  BY <1>4, NamesAssumption DEF AgentOf
<1>6. CASE AgentOf(r).status = "none"
  <2>1. UNCHANGED <<worker, proc, own>>
    BY <1>6 DEF cleanupRunCapacity
  <2>2. Kept
    BY <1>1, <1>2, <1>3, <2>1, NoWorkerMoves DEF Kept, Moves, EventsMove, TypeOK
  <2> QED BY <1>1, <2>1, <2>2
<1>7. CASE AgentOf(r).status # "none"
  <2>1. stop(AgentOf(r)) /\ removeAgent(claim[r].name)
    BY <1>7 DEF cleanupRunCapacity
  <2>2. WorkersMove /\ proc' \in [Runs -> {"none", "live", "dead"}] /\ own' \subseteq Runs
    BY <2>1, RemovedMoves, StopTyped DEF TypeOK
  <2>3. Kept
    BY <1>1, <1>2, <1>3, <2>2 DEF Kept, Moves, EventsMove, WorkersMove, TypeOK
  <2>4. \A q \in Runs : proc'[q] # proc[q] => AgentOf(r).session = q
    BY <2>1 DEF stop
  <2> QED BY <1>1, <1>4, <1>5, <2>3, <2>4
<1> QED BY <1>6, <1>7

\* What a launch kills goes by the name of its run, and a launch that fails
\* ends its run.
Launching(r) ==
    /\ op[r] \in {"launch", "started"}
    /\ \/ WentDown /\ at # "dispatch"
       \/ /\ UNCHANGED <<at, plan, todo, typed, crashes>>
          /\ \E x \in {"started", "none"} : op' = [op EXCEPT ![r] = x]
          /\ \A q \in Runs : proc[q] = "live" /\ proc'[q] = "dead" =>
                \/ q = r /\ ~Active(claim'[r])
                \/ q # r /\ claim[q].name = claim[r].name

\* start() leaves claims alone and gives its run the next operation of a launch.
LEMMA StartSteps ==
    ASSUME Base, NEW r \in Runs, start(r)
    PROVE  Kept /\ Launching(r)
<1> USE DEF Base
<1>1. /\ op[r] = "launch" /\ op' = [op EXCEPT ![r] = "started"]
      /\ UNCHANGED <<task, claim, worker, events, typed, transport, at, plan, todo, crashes, removals>>
  BY DEF start
<1>2. op' \in [Runs -> {"none", "launch", "started", "send", "sent", "clean"}]
  BY <1>1, OpTyped
<1>3. proc' = [q \in Runs |->
                  IF q = r THEN "live"
                  ELSE IF q \in Under(claim[r].name) /\ Writable(q) THEN "dead" ELSE proc[q]]
  BY DEF start
<1>4. proc' \in [Runs -> {"none", "live", "dead"}]
  BY <1>3 DEF TypeOK
<1>5. own' \subseteq Runs
  BY DEF start, TypeOK
<1>6. Kept
  BY <1>1, <1>2, <1>4, <1>5, NoneMove, NoWorkerMoves DEF Kept, Moves, EventsMove, TypeOK
<1>7. ASSUME NEW q \in Runs, proc[q] = "live", proc'[q] = "dead"
      PROVE  q # r /\ claim[q].name = claim[r].name
  <2>1. q # r
    BY <1>3, <1>7
  <2>2. q \in Under(claim[r].name)
    BY <1>3, <1>7, <2>1
  <2> QED BY <2>1, <2>2 DEF Under
<1> QED BY <1>1, <1>6, <1>7 DEF Launching

\* The session that is recorded is the run's.
LEMMA LaunchedSteps ==
    ASSUME Base, NEW r \in Runs, launchWorkerSession(r)
    PROVE  Kept /\ Launching(r)
<1> USE DEF Base
<1>0. op[r] = "started" /\ claim[r].state # "none" /\ claim[r] \in ClaimRows /\ claim[r].name \in Names
  BY DEF launchWorkerSession, Assigned, Named, TypeOK
<1>1. CASE Throws(r)
  <2>1. Kept /\ WentDown
    BY <1>1, DownSteps DEF Throws
  <2> QED BY <1>0, <1>1, <2>1 DEF Launching, Throws
<1>2. CASE ~Throws(r)
  <2> DEFINE v == [status |-> "running", session |-> r, ready |-> FALSE]
             w == updateAgentRuntime(worker[claim[r].name], v)
             a == IF claim[r].age = "late" /\ claim[r].state = "claimed" THEN "fresh" ELSE claim[r].age
             d == [claim[r] EXCEPT !.age = a]
  <2>1. /\ worker' = [worker EXCEPT ![claim[r].name] = w]
        /\ claim' = [claim EXCEPT ![r] = d]
        /\ UNCHANGED <<task, proc, own, events, typed>> /\ Returned(r)
    BY <1>2 DEF launchWorkerSession
  <2>2. op' = [op EXCEPT ![r] = "none"] /\ UNCHANGED <<transport, at, plan, todo, crashes, removals>>
    BY <2>1 DEF Returned
  <2>3. v \in WorkerRows /\ v.session = r
    BY BoundsAssumption DEF WorkerRows, Runs
  <2>4. worker[claim[r].name] \in WorkerRows
    BY <1>0 DEF TypeOK
  <2> HIDE DEF v
  <2>5. w \in WorkerRows /\ (w = worker[claim[r].name] \/ w.session = r)
    BY <2>3, <2>4 DEF updateAgentRuntime
  <2> HIDE DEF w
  <2>6. WorkersMove
    BY <2>1, <2>5, <1>0, OneWorker DEF TypeOK
  <2>7. a \in {"fresh", "late", "lapsed"}
    BY <1>0 DEF ClaimRows
  <2> HIDE DEF a
  <2>8. MovedRow(claim[r], d)
    BY <1>0, <2>7, AgeRow
  <2> HIDE DEF d
  <2>9. ClaimsMove
    BY <2>1, <2>8, OneMoves DEF TypeOK
  <2>10. op' \in [Runs -> {"none", "launch", "started", "send", "sent", "clean"}]
    BY <2>2, OpTyped
  <2>11. Kept
    BY <2>1, <2>2, <2>6, <2>9, <2>10 DEF Kept, Moves, EventsMove, ClaimsMove, WorkersMove, TypeOK
  <2> QED BY <1>0, <2>1, <2>2, <2>11 DEF Launching
<1> QED BY <1>1, <1>2

\* A launch that fails.
LEMMA LaunchFailsSteps ==
    ASSUME Base, NEW r \in Runs, prepareProviderLaunch(r) \/ StartupFails(r)
    PROVE  Kept /\ Launching(r)
<1> USE DEF Base
<1>0. op[r] \in {"launch", "started"} /\ claim[r].state # "none" /\ claim[r].name \in Names
  BY DEF prepareProviderLaunch, StartupFails, Assigned, Named
<1>1. PICK replaced \in SUBSET OwnedAs(claim[r].name) : LaunchFails(r, replaced)
  BY DEF prepareProviderLaunch, StartupFails
<1>2. CASE Throws(r)
  <2>1. Kept /\ WentDown
    BY <1>2, DownSteps DEF Throws
  <2> QED BY <1>0, <1>2, <2>1 DEF Launching, Throws
<1>3. CASE ~Throws(r)
  <2>1. /\ finishRun(r) /\ UNCHANGED typed /\ Returned(r)
        /\ proc' = [q \in Runs |-> IF q \in replaced THEN "dead" ELSE proc[q]] /\ own' = own \ replaced
        /\ IF at = "dispatch" THEN removeAgent(claim[r].name)
           ELSE worker' = [worker EXCEPT ![claim[r].name] = markWorkerOffline(@)]
    BY <1>1, <1>3 DEF LaunchFails
  <2>2. op' = [op EXCEPT ![r] = "none"] /\ UNCHANGED <<transport, at, plan, todo, crashes, removals>>
    BY <2>1 DEF Returned
  <2>3. op' \in [Runs -> {"none", "launch", "started", "send", "sent", "clean"}]
    BY <2>2, OpTyped
  <2>4. /\ ClaimsMove /\ task' \in [Tasks -> {"todo", "busy", "blocked", "done"}]
        /\ ~Active(claim'[r])
        /\ events' \subseteq events \cup {r} /\ (events' # events => claim'[r].state = "failed")
    BY <1>0, <2>1, FinishMoves
  <2>5. EventsMove
    BY <2>4 DEF EventsMove, TypeOK
  <2>6. WorkersMove
    <3>1. CASE at = "dispatch"
      BY <2>1, <3>1, RemovedMoves DEF TypeOK
    <3>2. CASE at # "dispatch"
      <4> DEFINE v == [NoWorker EXCEPT !.status = "offline"]
                 w == markWorkerOffline(worker[claim[r].name])
      <4>1. worker' = [worker EXCEPT ![claim[r].name] = w]
        BY <2>1, <3>2
      <4>2. v \in WorkerRows /\ v.session = 0
        BY NoWorkerRow, WorkerFields
      <4>3. w \in {v, worker[claim[r].name]}
        BY DEF markWorkerOffline, clearWorkerSessionRuntime, updateAgentRuntime
      <4>4. worker[claim[r].name] \in WorkerRows
        BY <1>0 DEF TypeOK
      <4> HIDE DEF v, w
      <4>5. w \in WorkerRows /\ w.session \in {0, worker[claim[r].name].session}
        BY <4>2, <4>3, <4>4
      <4> QED BY <4>1, <4>5, OneWorker DEF TypeOK
    <3> QED BY <3>1, <3>2
  <2>7. proc' \in [Runs -> {"none", "live", "dead"}] /\ own' \subseteq Runs
    BY <2>1 DEF TypeOK
  <2>8. Kept
    BY <2>1, <2>2, <2>3, <2>4, <2>5, <2>6, <2>7 DEF Kept, Moves, EventsMove, ClaimsMove, WorkersMove, TypeOK
  <2>9. ASSUME NEW q \in Runs, proc[q] = "live", proc'[q] = "dead"
        PROVE  claim[q].name = claim[r].name
    BY <2>1, <2>9 DEF OwnedAs
  <2> QED BY <1>0, <2>1, <2>2, <2>4, <2>8, <2>9 DEF Launching
<1> QED BY <1>2, <1>3

\* The envelope: typed, marked, or given up.
Sending(r) ==
    /\ UNCHANGED <<proc, at, plan, todo, crashes>>
    /\ \/ /\ op[r] = "send" /\ op' = [op EXCEPT ![r] = "sent"] /\ UNCHANGED claim
          /\ typed' \in {typed, [typed EXCEPT ![r] = @ + 1]}
       \/ op[r] = "sent" /\ op' = [op EXCEPT ![r] = "none"] /\ UNCHANGED typed /\ claim'[r].sent
       \/ /\ op[r] \in {"send", "sent"} /\ \E x \in {"clean", "none"} : op' = [op EXCEPT ![r] = x]
          /\ UNCHANGED typed /\ ~Active(claim'[r])

\* The steps of a send leave everything but their own run alone.
LEMMA SendSteps ==
    ASSUME Base, NEW r \in Runs, send(r) \/ markTaskEnvelopeSent(r) \/ SendFails(r)
    PROVE  Kept /\ Sending(r)
<1> USE DEF Base
<1>0. claim[r].state # "none" /\ claim[r] \in ClaimRows
  BY DEF send, markTaskEnvelopeSent, SendFails, Assigned, TypeOK
<1>1. CASE send(r)
  <2>1. /\ op[r] = "send" /\ op' = [op EXCEPT ![r] = "sent"]
        /\ typed' \in {typed, [typed EXCEPT ![r] = @ + 1]}
        /\ UNCHANGED <<task, claim, worker, proc, own, events, transport, at, plan, todo, crashes, removals>>
    BY <1>1 DEF send, tmuxSend, ptySend, Types
  <2>2. typed' \in [Runs -> Nat] /\ op' \in [Runs -> {"none", "launch", "started", "send", "sent", "clean"}]
    <3>1. op' \in [Runs -> {"none", "launch", "started", "send", "sent", "clean"}]
      BY <2>1, OpTyped
    <3>2. typed' \in [Runs -> Nat]
      <4>1. typed \in [Runs -> Nat] /\ typed[r] + 1 \in Nat
        BY DEF TypeOK
      <4>2. CASE typed' = typed
        BY <4>1, <4>2
      <4>3. CASE typed' = [typed EXCEPT ![r] = typed[r] + 1]
        BY <4>1, <4>3
      <4> QED BY <2>1, <4>2, <4>3
    <3> QED BY <3>1, <3>2
  <2>3. Kept
    BY <2>1, <2>2, NoneMove, NoWorkerMoves DEF Kept, Moves, EventsMove, TypeOK
  <2> QED BY <2>1, <2>3 DEF Sending
<1>2. CASE markTaskEnvelopeSent(r)
  <2> DEFINE a == IF claim[r].age = "late" /\ claim[r].state = "claimed" THEN "fresh" ELSE claim[r].age
             c == [claim[r] EXCEPT !.sent = TRUE]
             d == [c EXCEPT !.age = a]
  <2>1. /\ op[r] = "sent" /\ claim' = [claim EXCEPT ![r] = d]
        /\ UNCHANGED <<task, worker, proc, own, events, typed>> /\ Returned(r)
    <3>1. /\ op[r] = "sent" /\ UNCHANGED <<task, worker, proc, own, events, typed>> /\ Returned(r)
          /\ claim' = [claim EXCEPT ![r].sent = TRUE,
                     ![r].age = IF @ = "late" /\ claim[r].state = "claimed" THEN "fresh" ELSE @]
      BY <1>2 DEF markTaskEnvelopeSent
    <3>2. c.age = claim[r].age
      BY <1>0 DEF ClaimRows
    <3>3. claim' = [claim EXCEPT ![r] = d]
      BY <1>0, <3>1, <3>2 DEF ClaimRows, TypeOK
    <3> QED BY <3>1, <3>3
  <2>2. op' = [op EXCEPT ![r] = "none"] /\ UNCHANGED <<transport, at, plan, todo, crashes, removals>>
    BY <2>1 DEF Returned
  <2>3. a \in {"fresh", "late", "lapsed"}
    BY <1>0 DEF ClaimRows
  <2>4. c \in ClaimRows /\ c.state = claim[r].state /\ c.name = claim[r].name /\ c.sent
    BY <1>0, ClaimFields
  <2> HIDE DEF a, c
  <2>5. d \in ClaimRows /\ d.state = c.state /\ d.name = c.name /\ d.sent = c.sent
    BY <2>3, <2>4, ClaimFields
  <2> HIDE DEF d
  <2>6. MovedRow(claim[r], d) /\ d.sent
    BY <2>4, <2>5 DEF MovedRow, Active
  <2>7. ClaimsMove /\ claim'[r] = d
    BY <2>1, <2>6, OneMoves DEF TypeOK
  <2>8. op' \in [Runs -> {"none", "launch", "started", "send", "sent", "clean"}]
    BY <2>2, OpTyped
  <2>9. Kept
    BY <2>1, <2>2, <2>7, <2>8, NoWorkerMoves DEF Kept, Moves, ClaimsMove, EventsMove, TypeOK
  <2> QED BY <2>1, <2>2, <2>6, <2>7, <2>9 DEF Sending
<1>3. CASE SendFails(r) /\ GiveUp(r)
  <2>1. /\ Moves /\ task' \in [Tasks -> {"todo", "busy", "blocked", "done"}]
        /\ op' = [op EXCEPT ![r] = "clean"] /\ ~Active(claim'[r])
        /\ op' \in [Runs -> {"none", "launch", "started", "send", "sent", "clean"}]
        /\ UNCHANGED <<worker, proc, own, typed>>
    BY <1>0, <1>3, GiveUpMoves
  <2>2. op[r] \in {"send", "sent"} /\ UNCHANGED <<transport, at, plan, todo, crashes, removals>>
    BY <1>3 DEF SendFails
  <2>3. Kept
    BY <2>1, <2>2 DEF Kept, Moves, ClaimsMove, EventsMove, TypeOK
  <2> QED BY <2>1, <2>2, <2>3 DEF Sending
<1>4. CASE SendFails(r) /\ ~GiveUp(r)
  <2>1. /\ claim[r].state = "deleted" /\ op' = [op EXCEPT ![r] = "none"] /\ op[r] \in {"send", "sent"}
        /\ UNCHANGED <<task, claim, events, worker, proc, own, typed, transport, at, plan, todo, crashes, removals>>
    BY <1>4 DEF SendFails
  <2>2. op' \in [Runs -> {"none", "launch", "started", "send", "sent", "clean"}]
    BY <2>1, OpTyped
  <2>3. Kept
    BY <2>1, <2>2, NoneMove, NoWorkerMoves DEF Kept, Moves, EventsMove, TypeOK
  <2>4. ~Active(claim'[r])
    BY <2>1 DEF Active, ActiveStates
  <2> QED BY <2>1, <2>3, <2>4 DEF Sending
<1> QED BY <1>1, <1>2, <1>3, <1>4

-----------------------------------------------------------------------------
(* Dispatch claims a task.                                                 *)

NewClaim(r, n) ==
    /\ claim[r].state = "none" /\ claim' \in [Runs -> ClaimRows]
    /\ claim'[r].state = "claimed" /\ claim'[r].name = n /\ ~claim'[r].sent
    /\ \A q \in Runs : q # r => claim'[q] = claim[q]

\* claimTask makes one active claim, of a run that had none.
LEMMA ClaimTaskClaims ==
    ASSUME TypeOK, NEW t \in Tasks, NEW r \in Runs, NEW n \in Names, claimTask(t, r, n)
    PROVE  NewClaim(r, n) /\ task' \in [Tasks -> {"todo", "busy", "blocked", "done"}]
<1> DEFINE b == [NoClaim EXCEPT !.state = "claimed"]
           c == [b EXCEPT !.task = t]
           d == [c EXCEPT !.name = n]
<1>0. b \in ClaimRows /\ b.state = "claimed" /\ ~b.sent
  BY NoClaimRow DEF ClaimRows, ActiveStates
<1>1. c \in ClaimRows /\ c.state = b.state /\ c.sent = b.sent
  <2> HIDE DEF b
  <2> QED BY <1>0 DEF ClaimRows
<1>2. d \in ClaimRows /\ d.state = "claimed" /\ d.name = n /\ ~d.sent
  <2> HIDE DEF c
  <2> QED BY <1>0, <1>1 DEF ClaimRows
<1>3. claim[r].state = "none" /\ claim' = [claim EXCEPT ![r] = d] /\ task' = [task EXCEPT ![t] = "busy"]
  BY DEF claimTask
<1> HIDE DEF d
<1>4. task' \in [Tasks -> {"todo", "busy", "blocked", "done"}]
  BY <1>3 DEF TypeOK
<1>5. /\ claim' \in [Runs -> ClaimRows] /\ claim'[r] = d
      /\ \A q \in Runs : q # r => claim'[q] = claim[q]
  BY <1>2, <1>3 DEF TypeOK
<1> QED BY <1>2, <1>3, <1>4, <1>5 DEF NewClaim

\* A batch is claimed before its launches go on; the coordinator may die
\* before the worker of a claim is registered.
Claiming(t) ==
    /\ at = "dispatch" /\ t \in todo /\ UNCHANGED <<typed, events>>
    /\ \A r \in Runs : op[r] \in {"none", "launch"}
    /\ \E r \in Runs, n \in Names :
          /\ NewClaim(r, n)
          /\ \/ /\ at' = "dispatch" /\ todo' = todo \ {t} /\ UNCHANGED <<plan, proc, crashes>>
                /\ op' = [op EXCEPT ![r] = "launch"]
                /\ \A m \in Names : worker'[m].session \in {0, worker[m].session}
             \/ /\ at' = "down" /\ todo' = {} /\ plan' = Nothing /\ op' = Nothing
                /\ crashes' = crashes + 1 /\ UNCHANGED worker

\* A task that is skipped.
Skipping(t) ==
    /\ at = "dispatch" /\ todo' = todo \ {t} /\ UNCHANGED <<at, plan, op, typed, crashes, claim, proc>>

\* Dispatch of a task claims it or passes over it.
LEMMA DispatchSteps ==
    ASSUME Base, NEW t \in Tasks, executeDispatchPlan(t)
    PROVE  TypeOK' /\ (Claiming(t) \/ (Moves /\ Skipping(t)))
<1> USE DEF Base
<1>1. /\ at = "dispatch" /\ t \in todo /\ todo' = todo \ {t} /\ \A r \in Runs : op[r] \in {"none", "launch"}
      /\ UNCHANGED <<proc, own, events, typed, transport, at, plan, crashes, removals>>
  BY DEF executeDispatchPlan
<1>2. CASE UNCHANGED <<claim, task, worker, op>>
  <2>1. TypeOK' /\ Moves
    BY <1>1, <1>2, NoneMove, NoWorkerMoves DEF Moves, EventsMove, TypeOK
  <2> QED BY <1>1, <1>2, <2>1 DEF Skipping
<1>3. CASE \E r \in Runs, n \in Names : claimTask(t, r, n) /\ spawnEphemeralWorker(r, n)
  <2>1. PICK r \in Runs, n \in Names : claimTask(t, r, n) /\ spawnEphemeralWorker(r, n)
    BY <1>3
  <2>2. NewClaim(r, n) /\ task' \in [Tasks -> {"todo", "busy", "blocked", "done"}]
    BY <2>1, ClaimTaskClaims
  <2> DEFINE w == [NoWorker EXCEPT !.status = "idle"]
  <2>3. worker' = [worker EXCEPT ![n] = w] /\ op' = [op EXCEPT ![r] = "launch"]
    BY <2>1 DEF spawnEphemeralWorker, registerAgent
  <2>4. w \in WorkerRows /\ w.session = 0
    BY NoWorkerRow, WorkerFields
  <2> HIDE DEF w
  <2>5. worker' \in [Names -> WorkerRows] /\ \A m \in Names : worker'[m].session \in {0, worker[m].session}
    BY <2>3, <2>4 DEF TypeOK
  <2>6. op' \in [Runs -> {"none", "launch", "started", "send", "sent", "clean"}]
    BY <2>3, OpTyped
  <2>7. TypeOK'
    BY <1>1, <2>2, <2>5, <2>6 DEF TypeOK, NewClaim
  <2> QED BY <1>1, <2>2, <2>3, <2>5, <2>7 DEF Claiming
<1> QED BY <1>2, <1>3 DEF executeDispatchPlan

\* A coordinator that dies right after claimTask leaves the claim behind.
LEMMA DyingSteps ==
    ASSUME Base, NEW t \in Tasks, DiesClaiming(t)
    PROVE  TypeOK' /\ Claiming(t)
<1> USE DEF Base
<1>1. /\ at = "dispatch" /\ t \in todo /\ \A r \in Runs : op[r] \in {"none", "launch"}
  BY DEF DiesClaiming
<1>2. PICK r \in Runs, n \in Names : claimTask(t, r, n)
  BY DEF DiesClaiming
<1>3. NewClaim(r, n) /\ task' \in [Tasks -> {"todo", "busy", "blocked", "done"}]
  BY <1>2, ClaimTaskClaims
<1>4. /\ at' = "down" /\ plan' = Nothing /\ todo' = {} /\ op' = Nothing /\ own' = {}
      /\ crashes < MaxCrashes /\ crashes' = crashes + 1
      /\ UNCHANGED <<worker, events, typed, transport, removals>>
  BY DEF DiesClaiming, Dies
<1>5. crashes' \in 0 .. MaxCrashes
  BY <1>4, BoundsAssumption DEF TypeOK
<1>6. proc' \in [Runs -> {"none", "live", "dead"}]
  <2>1. PICK gone : proc' = [q \in Runs |-> IF q \in gone THEN "dead" ELSE proc[q]]
    BY DEF DiesClaiming, Dies
  <2> QED BY <2>1 DEF TypeOK
<1>7. TypeOK'
  BY <1>3, <1>4, <1>5, <1>6, Nothings DEF TypeOK, NewClaim
<1> QED BY <1>1, <1>3, <1>4, <1>7 DEF Claiming

-----------------------------------------------------------------------------
(* The invariant.                                                          *)

\* Only a run that was started has a terminal event.
EventsEnded ==
    \A r \in Runs : r \in events \/ plan[r] = "event" => claim[r].state \notin {"none", "claimed"}

\* A pass over events comes first; when dispatch begins the passes are over.
Ops ==
    /\ \A r \in Runs : plan[r] = "event" => at = "events"
    /\ at = "dispatch" => plan = Nothing /\ \A r \in Runs : op[r] \in {"none", "launch", "started"}

\* Envelopes are sent one after another.
Sole == \A r \in Runs : op[r] \in {"send", "sent"} => at = "ready" /\ \A q \in Runs \ {r} : op[q] = "none"

CleanEnded == \A r \in Runs : op[r] = "clean" => ~Active(claim[r])

\* An envelope that is still to be sent was typed by predecessors only.
TypedBefore ==
    \A r \in Runs :
        /\ typed[r] <= 1 + crashes
        /\ claim[r].state = "none" => typed[r] = 0
        /\ op[r] = "send" => typed[r] <= crashes
        /\ plan[r] = "send" => op[r] = "none" /\ typed[r] <= crashes
        /\ Active(claim[r]) /\ ~claim[r].sent /\ op[r] # "sent" => typed[r] <= crashes

\* What a worker's handle is of went by the worker's name.
SessionOwned == \A n \in Names : worker[n].session # 0 => claim[worker[n].session].name = n

\* Dispatch was given no more than max_workers leaves.
Limit == Cardinality(activeClaimAgents(claim)) + (IF at = "dispatch" THEN Cardinality(todo) ELSE 0) <= MaxWorkers

Control == Assigned /\ EventsEnded /\ Ops /\ Sole /\ CleanEnded /\ TypedBefore

PoolInv == TypeOK /\ Named /\ Control /\ SessionOwned /\ Limit

\* What a step that moves claims keeps.
LEMMA KeptClaims ==
    ASSUME PoolInv, Kept
    PROVE  /\ Named' /\ SessionOwned'
           /\ \A r \in Runs :
                 /\ claim'[r].state = "none" <=> claim[r].state = "none"
                 /\ claim'[r].state = "claimed" => claim[r].state = "claimed"
                 /\ Active(claim'[r]) => Active(claim[r])
                 /\ claim'[r].name = claim[r].name
                 /\ Active(claim'[r]) /\ ~claim'[r].sent => Active(claim[r]) /\ ~claim[r].sent
                 /\ r \in events' => claim'[r].state \notin {"none", "claimed"}
<1>1. /\ TypeOK /\ Named /\ SessionOwned /\ EventsEnded /\ TypeOK' /\ ClaimsMove /\ WorkersMove /\ EventsMove
  BY DEF PoolInv, Control, Kept, Moves
<1>2. \A r \in Runs :
         /\ claim'[r].state = "none" <=> claim[r].state = "none"
         /\ claim'[r].state = "claimed" => claim[r].state = "claimed"
         /\ Active(claim'[r]) => Active(claim[r])
         /\ claim'[r].name = claim[r].name
         /\ claim[r].sent => claim'[r].sent
  BY <1>1 DEF ClaimsMove, MovedRow
<1>3. Named'
  BY <1>1, <1>2 DEF Named
<1>4. \A r \in Runs : r \in events' => claim'[r].state \notin {"none", "claimed"}
  BY <1>1, <1>2 DEF EventsMove, EventsEnded
<1>5. SessionOwned'
  <2>1. ASSUME NEW n \in Names, worker'[n].session # 0
        PROVE  worker'[n].session \in Runs /\ claim[worker'[n].session].name = n
    <3>1. worker'[n].session \in Runs
      <4>1. worker'[n] \in WorkerRows
        BY <1>1 DEF WorkersMove
      <4>2. worker'[n].session \in 0 .. MaxRuns
        BY <4>1 DEF WorkerRows
      <4> QED BY <2>1, <4>2, BoundsAssumption DEF Runs
    <3> QED BY <1>1, <2>1, <3>1 DEF WorkersMove, SessionOwned
  <2> QED BY <1>2, <2>1 DEF SessionOwned
<1> QED BY <1>2, <1>3, <1>4, <1>5

\* What makes Control hold again after a step that moves claims.
LEMMA ControlStep ==
    ASSUME PoolInv, Kept,
           \A r \in Runs : plan'[r] # "none" \/ op'[r] # "none" => claim[r].state # "none",
           \A r \in Runs : plan'[r] = "event" => plan[r] = "event" \/ r \in events,
           Ops', Sole', TypedBefore',
           \A r \in Runs : op'[r] = "clean" => op[r] = "clean" \/ ~Active(claim'[r])
    PROVE  Control'
<1>1. \A r \in Runs :
         /\ claim'[r].state = "none" <=> claim[r].state = "none"
         /\ claim'[r].state = "claimed" => claim[r].state = "claimed"
         /\ Active(claim'[r]) => Active(claim[r])
         /\ r \in events' => claim'[r].state \notin {"none", "claimed"}
  BY KeptClaims
<1>2. Assigned'
  BY <1>1 DEF Assigned
<1>3. EventsEnded'
  BY <1>1 DEF EventsEnded, PoolInv, Control
<1>4. CleanEnded'
  BY <1>1 DEF CleanEnded, PoolInv, Control
<1> QED BY <1>2, <1>3, <1>4 DEF Control

Aside == UNCHANGED <<at, plan, todo, op, typed, crashes>>

\* Workers, operators and the clock leave the coordinator alone.
LEMMA AsideControl ==
    ASSUME PoolInv, Kept, Aside
    PROVE  Control'
<1>1. Assigned /\ EventsEnded /\ Ops /\ Sole /\ CleanEnded /\ TypedBefore
  BY DEF PoolInv, Control
<1>2. \A r \in Runs :
         /\ claim'[r].state = "none" <=> claim[r].state = "none"
         /\ Active(claim'[r]) /\ ~claim'[r].sent => Active(claim[r]) /\ ~claim[r].sent
  BY KeptClaims
<1>3. Ops' /\ Sole'
  BY <1>1 DEF Aside, Ops, Sole
<1>4. TypedBefore'
  BY <1>1, <1>2 DEF Aside, TypedBefore
<1>5. \A r \in Runs : plan'[r] # "none" \/ op'[r] # "none" => claim[r].state # "none"
  BY <1>1 DEF Aside, Assigned
<1> QED BY <1>3, <1>4, <1>5, ControlStep DEF Aside

\* A coordinator that dies may have typed what it did not mark.
LEMMA DownControl ==
    ASSUME PoolInv, Kept, WentDown,
           crashes' = crashes + 1 \/ op = Nothing \/ \E r \in Runs : op[r] \in {"launch", "started"}
    PROVE  Control'
<1>1. Sole /\ TypedBefore /\ TypeOK /\ TypeOK'
  BY DEF PoolInv, Control, Kept
<1>2. \A r \in Runs : plan'[r] = "none" /\ op'[r] = "none"
  BY Nothings DEF WentDown
<1>3. Ops' /\ Sole'
  BY <1>2 DEF WentDown, Ops, Sole
<1>4. TypedBefore'
  <2>1. \A r \in Runs : op[r] = "sent" => crashes' = crashes + 1
    BY <1>1, Nothings DEF Sole
  <2>2. crashes \in Nat /\ crashes' \in Nat /\ crashes <= crashes' /\ claim' = claim /\ typed' = typed
        /\ \A r \in Runs : typed[r] \in Nat
    BY <1>1, BoundsAssumption DEF TypeOK, WentDown
  <2> QED BY <1>1, <1>2, <2>1, <2>2 DEF TypedBefore
<1> QED BY <1>2, <1>3, <1>4, ControlStep

\* A pass has been at a run.
LEMMA VisitedControl ==
    ASSUME PoolInv, Kept, NEW r \in Runs, VisitedRun(r), op = Nothing, plan[r] # "none",
           at \in {"probe", "supervise", "ready"}
    PROVE  Control'
<1>1. Assigned /\ Ops /\ Sole /\ TypedBefore /\ TypeOK
  BY DEF PoolInv, Control
<1>2. \A q \in Runs : op[q] = "none" /\ plan'[q] = IF q = r THEN "none" ELSE plan[q]
  BY <1>1, Nothings DEF VisitedRun, TypeOK
<1>3. /\ \A q \in Runs \ {r} : op'[q] = "none"
      /\ \/ op'[r] = "none"
         \/ op'[r] = "clean" /\ ~Active(claim'[r])
         \/ op'[r] = plan[r] /\ plan[r] \in {"launch", "send"} /\ at = "ready"
  BY <1>1, <1>2 DEF VisitedRun, TypeOK
<1>4. UNCHANGED <<at, todo, typed, crashes>>
  BY DEF VisitedRun
<1>5. \A q \in Runs :
         /\ claim'[q].state = "none" <=> claim[q].state = "none"
         /\ Active(claim'[q]) /\ ~claim'[q].sent => Active(claim[q]) /\ ~claim[q].sent
  BY KeptClaims
<1>6. Ops' /\ Sole'
  BY <1>1, <1>2, <1>3, <1>4 DEF Ops, Sole
<1>7. TypedBefore'
  BY <1>1, <1>2, <1>3, <1>4, <1>5 DEF TypedBefore
<1>8. \A q \in Runs : plan'[q] # "none" \/ op'[q] # "none" => claim[q].state # "none"
  BY <1>1, <1>2, <1>3 DEF Assigned
<1> QED BY <1>2, <1>3, <1>6, <1>7, <1>8, ControlStep

\* processTerminalRunEvents takes one event, and leaves at most its run's cleanup.
LEMMA EventControl ==
    ASSUME PoolInv, NEW r \in Runs, processTerminalRunEvents(r)
    PROVE  Kept /\ Control'
<1>1. Assigned /\ EventsEnded /\ Ops /\ Sole /\ TypedBefore /\ TypeOK /\ Base
  BY DEF PoolInv, Control, Base
<1>2. /\ Kept /\ UNCHANGED <<at, todo, typed, crashes>> /\ at = "events" /\ op = Nothing
      /\ plan' = [plan EXCEPT ![r] = "none"] /\ plan[r] = "event"
      /\ op' = op \/ op' = [op EXCEPT ![r] = "clean"]
      /\ claim[r].state = "in_progress" => ~Active(claim'[r])
      /\ claim[r].state # "in_progress" => UNCHANGED claim
  BY <1>1, EventSteps
<1>3. \A q \in Runs : op[q] = "none" /\ plan'[q] = IF q = r THEN "none" ELSE plan[q]
  BY <1>1, <1>2, Nothings DEF TypeOK
<1>4. \A q \in Runs : op'[q] \in {"none", "clean"} /\ (q # r => op'[q] = "none")
  BY <1>1, <1>2, <1>3 DEF TypeOK
<1>5. ~Active(claim'[r])
  BY <1>1, <1>2 DEF EventsEnded, Active, ActiveStates
<1>6. \A q \in Runs :
         /\ claim'[q].state = "none" <=> claim[q].state = "none"
         /\ Active(claim'[q]) /\ ~claim'[q].sent => Active(claim[q]) /\ ~claim[q].sent
  BY <1>2, KeptClaims
<1>7. Ops' /\ Sole'
  BY <1>1, <1>2, <1>3, <1>4 DEF Ops, Sole
<1>8. TypedBefore'
  BY <1>1, <1>2, <1>3, <1>4, <1>6 DEF TypedBefore
<1>9. \A q \in Runs : plan'[q] # "none" \/ op'[q] # "none" => claim[q].state # "none"
  BY <1>1, <1>2, <1>3, <1>4 DEF Assigned
<1> QED BY <1>2, <1>3, <1>4, <1>5, <1>7, <1>8, <1>9, ControlStep

\* expireAndCleanupStaleLeases ends the lapsed claims and leaves their cleanup.
LEMMA ExpireControl ==
    ASSUME PoolInv, expireAndCleanupStaleLeases
    PROVE  Kept /\ Control'
<1>1. TypedBefore /\ TypeOK /\ Base
  BY DEF PoolInv, Control, Base
<1>2. /\ Kept /\ at' = "expire" /\ plan = Nothing /\ op = Nothing /\ UNCHANGED <<plan, todo, typed, crashes>>
      /\ \A r \in Runs : Lapsed(claim[r]) => op'[r] = "clean" /\ ~Active(claim'[r])
      /\ \A r \in Runs : ~Lapsed(claim[r]) => op'[r] = "none" /\ claim'[r] = claim[r]
  BY <1>1, ExpireSteps
<1>3. \A r \in Runs : op[r] = "none" /\ plan[r] = "none" /\ plan'[r] = "none" /\ op'[r] \in {"none", "clean"}
                      /\ (op'[r] = "clean" => ~Active(claim'[r]) /\ claim[r].state # "none")
  BY <1>2, Nothings DEF Lapsed, Active, ActiveStates
<1>4. \A r \in Runs :
         /\ claim'[r].state = "none" <=> claim[r].state = "none"
         /\ Active(claim'[r]) /\ ~claim'[r].sent => Active(claim[r]) /\ ~claim[r].sent
  BY <1>2, KeptClaims
<1>5. Ops' /\ Sole'
  BY <1>2, <1>3 DEF Ops, Sole
<1>6. TypedBefore'
  BY <1>1, <1>2, <1>3, <1>4 DEF TypedBefore
<1> QED BY <1>2, <1>3, <1>5, <1>6, ControlStep

\* A tick begins and ends, and a coordinator starts, with nothing in hand.
LEMMA EdgeControl ==
    ASSUME PoolInv, BeginTick \/ EndTick \/ Restart
    PROVE  Kept /\ Control'
<1>1. Assigned /\ EventsEnded /\ Ops /\ Sole /\ TypedBefore /\ TypeOK /\ Base
  BY DEF PoolInv, Control, Base
<1>2. /\ Kept /\ UNCHANGED <<op, typed, crashes, claim, proc>> /\ at' \in {"idle", "events"}
      /\ \A r \in Runs : plan'[r] # "none" => (plan'[r] = "event" /\ r \in events /\ at' = "events")
                                              \/ plan'[r] = plan[r]
      /\ at = "idle" \/ at = "dispatch" \/ at = "down"
      /\ at' = "events" => \A r \in Runs : plan'[r] \in {"none", "event"}
      /\ at' = "idle" => plan' = plan
  BY <1>1, EdgeSteps
<1>3. Ops'
  BY <1>1, <1>2 DEF Ops
<1>4. Sole'
  BY <1>1, <1>2 DEF Sole
<1>5. TypedBefore'
  BY <1>1, <1>2 DEF TypedBefore
<1>6. \A r \in Runs : plan'[r] # "none" \/ op'[r] # "none" => claim[r].state # "none"
  BY <1>1, <1>2 DEF Assigned, EventsEnded
<1>7. \A r \in Runs : plan'[r] = "event" => plan[r] = "event" \/ r \in events
  BY <1>2
<1> QED BY <1>2, <1>3, <1>4, <1>5, <1>6, <1>7, ControlStep

\* The next pass begins once the one before has visited its runs.
LEMMA NextPassControl ==
    ASSUME PoolInv, NextPass
    PROVE  Kept /\ Control'
<1>1. TypedBefore /\ TypeOK /\ Base
  BY DEF PoolInv, Control, Base
<1>2. /\ Kept /\ UNCHANGED <<op, typed, crashes, claim, proc, todo>> /\ op = Nothing
      /\ at' \in {"probe", "supervise", "ready"}
      /\ \A r \in Runs :
            /\ plan'[r] # "event" /\ (plan'[r] # "none" => Active(claim[r]))
            /\ plan'[r] = "send" => AwaitsEnvelope(claim[r])
  BY <1>1, NextPassSteps
<1>3. \A r \in Runs : op[r] = "none" /\ op'[r] = "none"
  BY <1>2, Nothings
<1>4. Ops' /\ Sole'
  BY <1>2, <1>3 DEF Ops, Sole
<1>5. TypedBefore'
  BY <1>1, <1>2, <1>3 DEF TypedBefore, AwaitsEnvelope, Active, ActiveStates
<1>6. \A r \in Runs : plan'[r] # "none" \/ op'[r] # "none" => claim[r].state # "none"
  BY <1>2, <1>3 DEF Active, ActiveStates
<1> QED BY <1>2, <1>3, <1>4, <1>5, <1>6, ControlStep

\* planDispatch begins once the passes are over.
LEMMA PlanControl ==
    ASSUME PoolInv, planDispatch
    PROVE  Kept /\ Control'
<1>1. TypedBefore /\ TypeOK /\ Base
  BY DEF PoolInv, Control, Base
<1>2. /\ Kept /\ UNCHANGED <<op, plan, typed, crashes, claim, proc>>
      /\ op = Nothing /\ plan = Nothing /\ at' = "dispatch"
  BY <1>1, PlanSteps
<1>3. \A r \in Runs : op[r] = "none" /\ op'[r] = "none" /\ plan'[r] = "none"
  BY <1>2, Nothings
<1>4. Ops' /\ Sole'
  BY <1>2, <1>3 DEF Ops, Sole
<1>5. TypedBefore'
  BY <1>1, <1>2, <1>3 DEF TypedBefore
<1> QED BY <1>2, <1>3, <1>4, <1>5, ControlStep

\* What a run's await returns to is nothing more for that run.
LEMMA ReturnControl ==
    ASSUME PoolInv, Kept, NEW r \in Runs, NEW x \in {"none", "started"}, op' = [op EXCEPT ![r] = x],
           UNCHANGED <<at, plan, todo, typed, crashes>>,
           op[r] \in {"clean", "launch", "started"}, x = "started" => op[r] \in {"launch", "started"}
    PROVE  Control'
<1>1. Assigned /\ Ops /\ Sole /\ TypedBefore /\ TypeOK
  BY DEF PoolInv, Control
<1>2. op'[r] = x /\ \A q \in Runs : q # r => op'[q] = op[q]
  BY <1>1 DEF TypeOK
<1>3. \A q \in Runs :
         /\ claim'[q].state = "none" <=> claim[q].state = "none"
         /\ Active(claim'[q]) /\ ~claim'[q].sent => Active(claim[q]) /\ ~claim[q].sent
  BY KeptClaims
<1>4. Ops'
  BY <1>1, <1>2 DEF Ops
<1>5. Sole'
  BY <1>1, <1>2 DEF Sole
<1>6. TypedBefore'
  BY <1>1, <1>2, <1>3 DEF TypedBefore
<1>7. \A q \in Runs : plan'[q] # "none" \/ op'[q] # "none" => claim[q].state # "none"
  BY <1>1, <1>2 DEF Assigned
<1>8. \A q \in Runs : op'[q] = "clean" => op[q] = "clean"
  BY <1>2
<1> QED BY <1>4, <1>5, <1>6, <1>7, <1>8, ControlStep

\* A launch that goes on is one of the pass the tick is in.
LEMMA LaunchControl ==
    ASSUME PoolInv, Kept, NEW r \in Runs, Launching(r)
    PROVE  Control'
<1>1. op[r] \in {"launch", "started"}
  BY DEF Launching
<1>2. CASE WentDown
  BY <1>1, <1>2, DownControl
<1>3. CASE ~WentDown
  <2>1. UNCHANGED <<at, plan, todo, typed, crashes>>
    BY <1>3 DEF Launching
  <2>2. PICK x \in {"started", "none"} : op' = [op EXCEPT ![r] = x]
    BY <1>3 DEF Launching
  <2> QED BY <1>1, <2>1, <2>2, ReturnControl
<1> QED BY <1>2, <1>3

\* A send that goes on is one of the pass the tick is in.
LEMMA SendControl ==
    ASSUME PoolInv, Kept, NEW r \in Runs, Sending(r)
    PROVE  Control'
<1>1. Assigned /\ Ops /\ Sole /\ TypedBefore /\ TypeOK
  BY DEF PoolInv, Control
<1>2. UNCHANGED <<at, plan, todo, crashes>> /\ op[r] \in {"send", "sent"}
  BY DEF Sending
<1>3. at = "ready" /\ \A q \in Runs : q # r => op[q] = "none" /\ op'[q] = "none"
  BY <1>1, <1>2 DEF Sole, Sending, TypeOK
<1>4. \A q \in Runs :
         /\ claim'[q].state = "none" <=> claim[q].state = "none"
         /\ Active(claim'[q]) /\ ~claim'[q].sent => Active(claim[q]) /\ ~claim[q].sent
  BY KeptClaims
<1>5. \/ op[r] = "send" /\ op'[r] = "sent" /\ typed'[r] \in {typed[r], typed[r] + 1}
      \/ op[r] = "sent" /\ op'[r] = "none" /\ typed' = typed /\ claim'[r].sent
      \/ op'[r] \in {"clean", "none"} /\ typed' = typed /\ ~Active(claim'[r])
  BY <1>1 DEF Sending, TypeOK
<1>6. \A q \in Runs : q # r => typed'[q] = typed[q]
  BY <1>1 DEF Sending, TypeOK
<1>7. plan[r] # "send"
  BY <1>1, <1>2 DEF TypedBefore
<1>8. Ops' /\ Sole'
  BY <1>1, <1>2, <1>3 DEF Ops, Sole
<1>9. TypedBefore'
  <2>1. crashes \in Nat /\ \A q \in Runs : typed[q] \in Nat
    BY <1>1, BoundsAssumption DEF TypeOK
  <2>2. ASSUME NEW q \in Runs, q # r
        PROVE  /\ typed'[q] <= 1 + crashes'
               /\ claim'[q].state = "none" => typed'[q] = 0
               /\ op'[q] = "send" => typed'[q] <= crashes'
               /\ plan'[q] = "send" => op'[q] = "none" /\ typed'[q] <= crashes'
               /\ Active(claim'[q]) /\ ~claim'[q].sent /\ op'[q] # "sent" => typed'[q] <= crashes'
    BY <1>1, <1>2, <1>3, <1>4, <1>6, <2>1, <2>2 DEF TypedBefore
  <2>3. claim[r].state # "none" /\ typed[r] <= 1 + crashes /\ (op[r] = "send" => typed[r] <= crashes)
    BY <1>1, <1>2 DEF TypedBefore, Assigned
  <2>4. /\ typed'[r] <= 1 + crashes'
        /\ claim'[r].state = "none" => typed'[r] = 0
        /\ op'[r] = "send" => typed'[r] <= crashes'
        /\ plan'[r] = "send" => op'[r] = "none" /\ typed'[r] <= crashes'
        /\ Active(claim'[r]) /\ ~claim'[r].sent /\ op'[r] # "sent" => typed'[r] <= crashes'
    BY <1>2, <1>4, <1>5, <1>7, <2>1, <2>3
  <2> QED BY <2>2, <2>4 DEF TypedBefore
<1>10. \A q \in Runs : plan'[q] # "none" \/ op'[q] # "none" => claim[q].state # "none"
  BY <1>1, <1>2, <1>3 DEF Assigned
<1>11. \A q \in Runs : op'[q] = "clean" => ~Active(claim'[q])
  BY <1>3, <1>5
<1> QED BY <1>2, <1>8, <1>9, <1>10, <1>11, ControlStep

\* A task that is passed over leaves the operations alone.
LEMMA SkipControl ==
    ASSUME PoolInv, Kept, NEW t, Skipping(t)
    PROVE  Control'
BY DEF PoolInv, Control, Skipping, Assigned, EventsEnded, Ops, Sole, CleanEnded, TypedBefore, Kept, Moves, EventsMove

\* A run that is claimed was never typed to, and no handle is of it.
LEMMA ClaimingKeeps ==
    ASSUME PoolInv, TypeOK', NEW t \in Tasks, Claiming(t)
    PROVE  Named' /\ Control' /\ SessionOwned'
<1>1. /\ TypeOK /\ Named /\ SessionOwned /\ Assigned /\ EventsEnded /\ Ops /\ Sole /\ CleanEnded /\ TypedBefore
      /\ Base
  BY DEF PoolInv, Control, Base
<1>2. /\ at = "dispatch" /\ UNCHANGED <<typed, events>> /\ plan = Nothing
      /\ \A q \in Runs : op[q] \in {"none", "launch"}
  BY <1>1 DEF Claiming, Ops
<1>3. PICK r \in Runs, n \in Names :
         /\ NewClaim(r, n)
         /\ \/ /\ at' = "dispatch" /\ todo' = todo \ {t} /\ UNCHANGED <<plan, proc, crashes>>
               /\ op' = [op EXCEPT ![r] = "launch"]
               /\ \A m \in Names : worker'[m].session \in {0, worker[m].session}
            \/ /\ at' = "down" /\ todo' = {} /\ plan' = Nothing /\ op' = Nothing
               /\ crashes' = crashes + 1 /\ UNCHANGED worker
  BY DEF Claiming
<1>4. /\ claim[r].state = "none" /\ claim'[r].state = "claimed" /\ claim'[r].name = n
      /\ \A q \in Runs : q # r => claim'[q] = claim[q]
  BY <1>3 DEF NewClaim
<1>5. plan' = Nothing /\ \A q \in Runs : plan'[q] = "none" /\ op'[q] \in {"none", "launch"}
                                         /\ (q # r /\ op'[q] # "none" => op[q] # "none")
  BY <1>1, <1>2, <1>3, Nothings DEF TypeOK
<1>6. Named'
  BY <1>1, <1>4 DEF Named
<1>7. Assigned'
  BY <1>1, <1>4, <1>5 DEF Assigned
<1>8. EventsEnded'
  BY <1>1, <1>2, <1>4, <1>5 DEF EventsEnded
<1>9. Ops' /\ Sole' /\ CleanEnded'
  BY <1>5 DEF Ops, Sole, CleanEnded
<1>10. TypedBefore'
  <2>1. crashes \in Nat /\ crashes' \in {crashes, crashes + 1} /\ \A q \in Runs : typed[q] \in Nat
    BY <1>1, <1>3, BoundsAssumption DEF TypeOK
  <2>2. typed[r] = 0
    BY <1>1, <1>4 DEF TypedBefore
  <2>3. \A q \in Runs : q # r /\ Active(claim'[q]) /\ ~claim'[q].sent => typed[q] <= crashes
    BY <1>1, <1>2, <1>4 DEF TypedBefore
  <2> QED BY <1>1, <1>2, <1>4, <1>5, <2>1, <2>2, <2>3 DEF TypedBefore
<1>11. SessionOwned'
  <2>1. ASSUME NEW m \in Names, worker'[m].session # 0
        PROVE  claim'[worker'[m].session].name = m
    <3>1. worker'[m].session = worker[m].session
      BY <1>3, <2>1
    <3>2. worker[m].session \in Runs
      <4>1. worker[m] \in WorkerRows
        BY <1>1 DEF TypeOK
      <4>2. worker[m].session \in 0 .. MaxRuns
        BY <4>1 DEF WorkerRows
      <4> QED BY <2>1, <3>1, <4>2, BoundsAssumption DEF Runs
    <3>3. claim[worker[m].session].name = m
      BY <1>1, <2>1, <3>1 DEF SessionOwned
    <3>4. worker[m].session # r
      BY <1>1, <1>4, <3>3, NamesAssumption DEF Named
    <3> QED BY <1>4, <3>1, <3>2, <3>3, <3>4
  <2> QED BY <2>1 DEF SessionOwned
<1> QED BY <1>6, <1>7, <1>8, <1>9, <1>10, <1>11 DEF Control

-----------------------------------------------------------------------------
(* max_workers.                                                            *)

\* The names of the workers of active claims.
LEMMA ActiveNames ==
    ASSUME TypeOK, Named
    PROVE  /\ activeClaimAgents(claim) \subseteq Names
           /\ IsFiniteSet(activeClaimAgents(claim)) /\ Cardinality(activeClaimAgents(claim)) \in Nat
<1>1. activeClaimAgents(claim) \subseteq Names
  BY DEF activeClaimAgents, Named, Active, ActiveStates
<1>2. IsFiniteSet(activeClaimAgents(claim))
  BY <1>1, NamesAssumption, FS_Subset
<1>3. Cardinality(activeClaimAgents(claim)) \in Nat
  BY <1>2, FS_CardinalityType
<1> QED BY <1>1, <1>2, <1>3

\* What dispatch has planned is finite.
LEMMA TodoFinite ==
    ASSUME TypeOK
    PROVE  IsFiniteSet(todo) /\ Cardinality(todo) \in Nat
<1>1. todo \in SUBSET Tasks
  BY DEF TypeOK
<1>2. IsFiniteSet(todo)
  BY <1>1, TasksAssumption, FS_Subset
<1> QED BY <1>2, FS_CardinalityType

\* A step that claims nothing and plans nothing.
LEMMA LimitKept ==
    ASSUME PoolInv, Kept, at' = "dispatch" => at = "dispatch" /\ todo' \subseteq todo
    PROVE  Limit'
<1> DEFINE A == activeClaimAgents(claim)
           B == activeClaimAgents(claim')
<1>1. TypeOK /\ Named /\ Limit
  BY DEF PoolInv
<1>2. B \subseteq A
  BY KeptClaims DEF activeClaimAgents
<1>3. IsFiniteSet(A) /\ Cardinality(A) \in Nat
  BY <1>1, ActiveNames
<1>4. Limit' <=> Cardinality(B) + (IF at' = "dispatch" THEN Cardinality(todo') ELSE 0) <= MaxWorkers
  BY DEF Limit, activeClaimAgents
<1>5. Cardinality(A) + (IF at = "dispatch" THEN Cardinality(todo) ELSE 0) <= MaxWorkers
  BY <1>1 DEF Limit
<1>6. IsFiniteSet(todo) /\ Cardinality(todo) \in Nat
  BY <1>1, TodoFinite
<1> HIDE DEF A, B
<1>7. IsFiniteSet(B) /\ Cardinality(B) <= Cardinality(A)
  BY <1>2, <1>3, FS_Subset
<1>8. Cardinality(B) \in Nat
  BY <1>7, FS_CardinalityType
<1>9. CASE at' = "dispatch"
  <2>1. todo' \in SUBSET todo /\ at = "dispatch"
    BY <1>9
  <2>2. IsFiniteSet(todo') /\ Cardinality(todo') <= Cardinality(todo)
    BY <1>6, <2>1, FS_Subset
  <2>3. Cardinality(todo') \in Nat
    BY <2>2, FS_CardinalityType
  <2> QED BY <1>3, <1>4, <1>5, <1>6, <1>7, <1>8, <1>9, <2>1, <2>2, <2>3, BoundsAssumption
<1>10. CASE at' # "dispatch"
  BY <1>3, <1>4, <1>5, <1>6, <1>7, <1>8, <1>10, BoundsAssumption
<1> QED BY <1>9, <1>10

\* planDispatch plans no more than the limit leaves.
LEMMA LimitPlanned ==
    ASSUME PoolInv, planDispatch
    PROVE  Limit'
<1> DEFINE A == activeClaimAgents(claim)
<1>1. TypeOK /\ Named /\ Limit /\ Base
  BY DEF PoolInv, Base, Control
<1>2. /\ Kept /\ claim' = claim /\ at' = "dispatch"
      /\ Cardinality(todo') <= MaxWorkers - Cardinality(A) \/ Cardinality(todo') = MaxWorkers - Cardinality(A)
         \/ todo' = {}
  BY <1>1, PlanSteps
<1>3. IsFiniteSet(A) /\ Cardinality(A) \in Nat
  BY <1>1, ActiveNames
<1>4. Limit' <=> Cardinality(A) + Cardinality(todo') <= MaxWorkers
  BY <1>2 DEF Limit, activeClaimAgents
<1>5. Cardinality(A) <= MaxWorkers
  <2>1. Cardinality(todo) \in Nat
    BY <1>1, TodoFinite
  <2> HIDE DEF A
  <2>2. CASE at = "dispatch"
    BY <1>1, <1>3, <2>1, <2>2, BoundsAssumption DEF Limit, A
  <2>3. CASE at # "dispatch"
    BY <1>1, <1>3, <2>3, BoundsAssumption DEF Limit, A
  <2> QED BY <2>2, <2>3
<1>6. IsFiniteSet(todo')
  <2>1. todo' \in SUBSET Tasks
    BY <1>2 DEF Kept, TypeOK
  <2> QED BY <2>1, TasksAssumption, FS_Subset
<1>7. Cardinality(todo') \in Nat
  BY <1>6, FS_CardinalityType
<1> HIDE DEF A
<1>8. CASE todo' = {}
  BY <1>3, <1>4, <1>5, <1>8, FS_EmptySet, BoundsAssumption
<1> QED BY <1>2, <1>3, <1>4, <1>7, <1>8, BoundsAssumption

\* A claim uses up one of the planned tasks.
LEMMA LimitClaimed ==
    ASSUME PoolInv, TypeOK', NEW t \in Tasks, Claiming(t)
    PROVE  Limit'
<1> DEFINE A == activeClaimAgents(claim)
           B == activeClaimAgents(claim')
<1>1. TypeOK /\ Named /\ Limit /\ at = "dispatch" /\ t \in todo
  BY DEF PoolInv, Claiming
<1>2. PICK r \in Runs, n \in Names : NewClaim(r, n) /\ (todo' = todo \ {t} \/ at' = "down")
  BY DEF Claiming
<1>3. B \subseteq A \cup {n}
  BY <1>2 DEF NewClaim, activeClaimAgents
<1>4. IsFiniteSet(A) /\ Cardinality(A) \in Nat
  BY <1>1, ActiveNames
<1>5. Limit' <=> Cardinality(B) + (IF at' = "dispatch" THEN Cardinality(todo') ELSE 0) <= MaxWorkers
  BY DEF Limit, activeClaimAgents
<1>6. Cardinality(A) + Cardinality(todo) <= MaxWorkers
  BY <1>1 DEF Limit
<1>7. IsFiniteSet(todo) /\ Cardinality(todo) \in Nat
  BY <1>1, TodoFinite
<1> HIDE DEF A, B
<1>8. IsFiniteSet(A \cup {n}) /\ Cardinality(A \cup {n}) <= Cardinality(A) + 1
  <2>1. /\ IsFiniteSet(A \cup {n})
        /\ Cardinality(A \cup {n}) = IF n \in A THEN Cardinality(A) ELSE Cardinality(A) + 1
    BY <1>4, FS_AddElement
  <2>2. CASE n \in A
    BY <1>4, <2>1, <2>2
  <2>3. CASE n \notin A
    BY <1>4, <2>1, <2>3
  <2> QED BY <2>2, <2>3
<1>9. IsFiniteSet(B) /\ Cardinality(B) <= Cardinality(A \cup {n})
  BY <1>3, <1>8, FS_Subset
<1>10. Cardinality(B) \in Nat /\ Cardinality(A \cup {n}) \in Nat
  BY <1>8, <1>9, FS_CardinalityType
<1>11. Cardinality(todo \ {t}) = Cardinality(todo) - 1
  BY <1>1, <1>7, FS_RemoveElement
<1>12. Cardinality(todo \ {t}) \in Nat
  BY <1>7, FS_RemoveElement, FS_CardinalityType
<1>13. CASE at' = "dispatch"
  <2>1. todo' = todo \ {t}
    BY <1>2, <1>13
  <2> QED BY <1>4, <1>5, <1>6, <1>7, <1>8, <1>9, <1>10, <1>11, <1>12, <1>13, <2>1, BoundsAssumption
<1>14. CASE at' # "dispatch"
  BY <1>4, <1>5, <1>6, <1>7, <1>8, <1>9, <1>10, <1>11, <1>12, <1>14, BoundsAssumption
<1> QED BY <1>13, <1>14

-----------------------------------------------------------------------------
(* Every step, by what it does.                                            *)

DownBy == crashes' = crashes + 1 \/ op = Nothing \/ \E r \in Runs : op[r] \in {"launch", "started"}

Stepped ==
    \/ Kept /\ Aside
    \/ Kept /\ WentDown /\ DownBy
    \/ BeginTick \/ EndTick \/ Restart \/ NextPass \/ planDispatch \/ expireAndCleanupStaleLeases
    \/ \E t \in Tasks : (TypeOK' /\ Claiming(t)) \/ (Kept /\ Skipping(t))
    \/ \E r \in Runs :
          \/ processTerminalRunEvents(r) \/ cleanupRunCapacity(r)
          \/ /\ Kept /\ VisitedRun(r) /\ op = Nothing /\ plan[r] # "none"
             /\ at \in {"probe", "supervise", "ready"}
          \/ Kept /\ (Launching(r) \/ Sending(r))

\* Every step of the tick is one of the kinds above.
LEMMA TickStepped ==
    ASSUME PoolInv, Tick
    PROVE  Stepped
<1>0. Base
  BY DEF PoolInv, Base, Control
<1>1. CASE BeginTick \/ NextPass \/ EndTick \/ expireAndCleanupStaleLeases \/ planDispatch
  BY <1>1 DEF Stepped
<1>2. CASE \E t \in Tasks : executeDispatchPlan(t)
  <2>1. PICK t \in Tasks : executeDispatchPlan(t)
    BY <1>2
  <2>2. TypeOK' /\ (Claiming(t) \/ (Moves /\ Skipping(t)))
    BY <1>0, <2>1, DispatchSteps
  <2>3. (TypeOK' /\ Claiming(t)) \/ (Kept /\ Skipping(t))
    BY <2>2 DEF Kept
  <2> QED BY <2>3 DEF Stepped
<1>3. ASSUME NEW r \in Runs, probeActiveWorkerSessions(r) \/ enforceInProgressLifecycle(r) \/ processClaimedSessionReadiness(r)
      PROVE  Stepped
  <2>1. Kept /\ (WentDown \/ VisitedRun(r)) /\ at \in {"probe", "supervise", "ready"} /\ op = Nothing
        /\ plan[r] # "none"
    BY <1>0, <1>3, PassSteps
  <2> QED BY <2>1 DEF Stepped, DownBy
<1>4. ASSUME NEW r \in Runs, start(r) \/ launchWorkerSession(r) \/ prepareProviderLaunch(r) \/ StartupFails(r)
      PROVE  Stepped
  <2>1. Kept /\ Launching(r)
    BY <1>0, <1>4, StartSteps, LaunchedSteps, LaunchFailsSteps
  <2> QED BY <2>1 DEF Stepped
<1>5. ASSUME NEW r \in Runs, send(r) \/ markTaskEnvelopeSent(r) \/ SendFails(r)
      PROVE  Stepped
  <2>1. Kept /\ Sending(r)
    BY <1>0, <1>5, SendSteps
  <2> QED BY <2>1 DEF Stepped
<1>6. ASSUME NEW r \in Runs, processTerminalRunEvents(r) \/ cleanupRunCapacity(r)
      PROVE  Stepped
  BY <1>6 DEF Stepped
<1> QED BY <1>1, <1>2, <1>3, <1>4, <1>5, <1>6 DEF Tick

\* Every step of workers, sessions and the operator is one of the kinds above.
LEMMA EnvironmentStepped ==
    ASSUME PoolInv, Environment
    PROVE  Stepped
<1>0. Base
  BY DEF PoolInv, Base, Control
<1>1. CASE Crash \/ Terminated
  <2>1. Kept /\ WentDown
    BY <1>0, <1>1, DownSteps
  <2>2. crashes' = crashes + 1
    BY <1>1 DEF Crash, Dies, Terminated
  <2> QED BY <2>1, <2>2 DEF Stepped, DownBy
<1>2. CASE \E t \in Tasks : DiesClaiming(t)
  <2>1. PICK t \in Tasks : DiesClaiming(t)
    BY <1>2
  <2>2. TypeOK' /\ Claiming(t)
    BY <1>0, <2>1, DyingSteps
  <2> QED BY <2>2 DEF Stepped
<1>3. ASSUME NEW n \in Names, markStaleAgentsDead(n) \/ removeWorker(n) \/ gcWorkers(n)
      PROVE  Stepped
  <2>1. Kept
    BY <1>0, <1>3, RegistrySteps
  <2>2. Aside
    BY <1>3 DEF Aside, markStaleAgentsDead, removeWorker, gcWorkers, coordinator
  <2> QED BY <2>1, <2>2 DEF Stepped
<1>4. ASSUME NEW r \in Runs,
             \/ reportForDuty(r) \/ startRun(r) \/ heartbeat(r) \/ workComplete(r) \/ runFail(r)
             \/ ProcessExits(r) \/ TimesOut(r) \/ LeaseLapses(r) \/ RemovesRun(r)
      PROVE  Stepped
  <2>1. Kept
    BY <1>0, <1>4, WorkerSteps, EndSteps
  <2>2. Aside
    BY <1>4 DEF Aside, reportForDuty, startRun, heartbeat, workComplete, runFail, ProcessExits, TimesOut, LeaseLapses,
                RemovesRun, coordinator
  <2> QED BY <2>1, <2>2 DEF Stepped
<1> QED BY <1>1, <1>2, <1>3, <1>4 DEF Environment

\* Every step is one of the kinds above, or none.
LEMMA NextStepped ==
    ASSUME PoolInv, [Next]_vars
    PROVE  Stepped
<1>1. CASE UNCHANGED vars
  <2>1. Kept /\ Aside
    BY <1>1, NoneMove, NoWorkerMoves DEF vars, Kept, Aside, Moves, EventsMove, PoolInv, TypeOK
  <2> QED BY <2>1 DEF Stepped
<1>2. CASE Restart
  BY <1>2 DEF Stepped
<1> QED BY <1>1, <1>2, TickStepped, EnvironmentStepped DEF Next

\* A step that claims nothing and plans nothing keeps the invariant once it
\* keeps Control.
LEMMA KeptInv ==
    ASSUME PoolInv, Kept, Control', at' = "dispatch" => at = "dispatch" /\ todo' \subseteq todo
    PROVE  PoolInv'
<1>1. TypeOK'
  BY DEF Kept
<1>2. Named' /\ SessionOwned'
  BY KeptClaims
<1>3. Limit'
  BY LimitKept
<1> QED BY <1>1, <1>2, <1>3 DEF PoolInv

\* The invariant is kept by every step.
LEMMA PoolStep ==
    ASSUME PoolInv, [Next]_vars
    PROVE  PoolInv'
<1>0. Stepped /\ Base /\ Ops
  BY NextStepped DEF PoolInv, Base, Control
<1>1. CASE Kept /\ Aside
  BY <1>1, AsideControl, KeptInv DEF Aside
<1>2. CASE Kept /\ WentDown /\ DownBy
  <2>1. Control'
    BY <1>2, DownControl DEF DownBy
  <2> QED BY <1>2, <2>1, KeptInv DEF WentDown
<1>3. CASE BeginTick \/ EndTick \/ Restart
  <2>1. Kept /\ Control' /\ at' # "dispatch"
    BY <1>0, <1>3, EdgeControl, EdgeSteps
  <2> QED BY <2>1, KeptInv
<1>4. CASE NextPass
  <2>1. Kept /\ Control' /\ at' # "dispatch"
    BY <1>0, <1>4, NextPassControl, NextPassSteps
  <2> QED BY <2>1, KeptInv
<1>5. CASE planDispatch
  <2>1. Kept /\ Control'
    BY <1>5, PlanControl
  <2>2. Limit'
    BY <1>5, LimitPlanned
  <2>3. Named' /\ SessionOwned' /\ TypeOK'
    BY <2>1, KeptClaims DEF Kept
  <2> QED BY <2>1, <2>2, <2>3 DEF PoolInv
<1>6. CASE expireAndCleanupStaleLeases
  <2>1. Kept /\ Control' /\ at' # "dispatch"
    BY <1>0, <1>6, ExpireControl, ExpireSteps
  <2> QED BY <2>1, KeptInv
<1>7. ASSUME NEW t \in Tasks, TypeOK' /\ Claiming(t)
      PROVE  PoolInv'
  BY <1>7, ClaimingKeeps, LimitClaimed DEF PoolInv
<1>8. ASSUME NEW t \in Tasks, Kept /\ Skipping(t)
      PROVE  PoolInv'
  <2>1. Control'
    BY <1>8, SkipControl
  <2> QED BY <1>8, <2>1, KeptInv DEF Skipping
<1>9. ASSUME NEW r \in Runs, processTerminalRunEvents(r)
      PROVE  PoolInv'
  <2>1. Kept /\ Control' /\ UNCHANGED <<at, todo>>
    BY <1>0, <1>9, EventControl, EventSteps
  <2> QED BY <2>1, KeptInv
<1>10. ASSUME NEW r \in Runs, cleanupRunCapacity(r)
       PROVE  PoolInv'
  <2>1. /\ Kept /\ UNCHANGED <<claim, typed, at, plan, todo, crashes>>
        /\ op[r] = "clean" /\ op' = [op EXCEPT ![r] = "none"]
    BY <1>0, <1>10, CleanupSteps
  <2>2. Control'
    BY <2>1, ReturnControl
  <2> QED BY <2>1, <2>2, KeptInv
<1>11. ASSUME NEW r \in Runs, Kept, VisitedRun(r), op = Nothing, plan[r] # "none",
              at \in {"probe", "supervise", "ready"}
       PROVE  PoolInv'
  <2>1. Control'
    BY <1>11, VisitedControl
  <2> QED BY <1>11, <2>1, KeptInv DEF VisitedRun
<1>12. ASSUME NEW r \in Runs, Kept, Launching(r)
       PROVE  PoolInv'
  <2>1. Control'
    BY <1>12, LaunchControl
  <2> QED BY <1>12, <2>1, KeptInv DEF Launching, WentDown
<1>13. ASSUME NEW r \in Runs, Kept, Sending(r)
       PROVE  PoolInv'
  <2>1. Control'
    BY <1>13, SendControl
  <2> QED BY <1>13, <2>1, KeptInv DEF Sending
<1> QED BY <1>0, <1>1, <1>2, <1>3, <1>4, <1>5, <1>6, <1>7, <1>8, <1>9, <1>10, <1>11, <1>12, <1>13 DEF Stepped

\* The invariant holds at first.
LEMMA PoolInit == Init => PoolInv
<1> SUFFICES ASSUME Init
             PROVE  PoolInv
  OBVIOUS
<1>1. /\ \A r \in Runs : claim[r] = NoClaim /\ typed[r] = 0
      /\ \A n \in Names : worker[n] = NoWorker
      /\ events = {} /\ at = "idle" /\ plan = Nothing /\ todo = {} /\ op = Nothing /\ crashes = 0
  BY DEF Init
<1>2. TypeOK
  BY NoClaimRow, NoWorkerRow, Nothings, BoundsAssumption DEF Init, TypeOK
<1>3. Named
  BY <1>1 DEF Named, NoClaim
<1>4. Control
  BY <1>1, Nothings, NoClaimRow DEF Control, Assigned, EventsEnded, Ops, Sole, CleanEnded, TypedBefore, Active, ActiveStates
<1>5. SessionOwned
  BY <1>1, NoWorkerRow DEF SessionOwned
<1>6. Limit
  <2>1. activeClaimAgents(claim) = {}
    BY <1>1, NoClaimRow DEF activeClaimAgents, Active, ActiveStates
  <2>2. Cardinality({}) = 0
    BY FS_EmptySet
  <2> QED BY <1>1, <2>1, <2>2, BoundsAssumption DEF Limit
<1> QED BY <1>2, <1>3, <1>4, <1>5, <1>6 DEF PoolInv

\* The invariant of the worker pool.
THEOREM PoolInvariant == Spec => []PoolInv
<1>1. PoolInv /\ [Next]_vars => PoolInv'
  BY PoolStep
<1> QED BY <1>1, PoolInit, PTL DEF Spec

\* Every field of the files, the adapters and the tick keeps its type.
THEOREM PoolTyped == Spec => []TypeOK
<1>1. PoolInv => TypeOK
  BY DEF PoolInv
<1> QED BY <1>1, PoolInvariant, PTL

\* An envelope is typed again only by a coordinator that could not know that
\* its predecessor had typed it (processClaimedSessionReadiness, send).
THEOREM EnvelopesAreTypedOnce == Spec => []EnvelopeTypedOnce
<1>1. PoolInv => EnvelopeTypedOnce
  BY DEF PoolInv, Control, TypedBefore, EnvelopeTypedOnce
<1> QED BY <1>1, PoolInvariant, PTL

\* The active claims never name more than max_workers workers, and what
\* dispatch may still claim is within what they leave (planDispatch).
THEOREM WorkersWithinLimit == Spec => []Limit
<1>1. PoolInv => Limit
  BY DEF PoolInv
<1> QED BY <1>1, PoolInvariant, PTL

\* As many runs are under way as workers, when no two share a name.
LEMMA RunsAsNames ==
    ASSUME PoolInv, DistinctNames
    PROVE  ClaimsWithinLimit
<1> DEFINE A == activeClaimAgents(claim)
           S == ActiveRuns
           f == [r \in S |-> claim[r].name]
<1>1. TypeOK /\ Named /\ Limit
  BY DEF PoolInv
<1>2. IsFiniteSet(A) /\ Cardinality(A) \in Nat
  BY <1>1, ActiveNames
<1>3. \A r \in S : claim[r].name \in A
  BY DEF ActiveRuns, activeClaimAgents
<1>4. \A q, r \in S : claim[q].name = claim[r].name => q = r
  BY DEF ActiveRuns, DistinctNames, InHand
<1>5. Cardinality(A) <= MaxWorkers
  <2>1. Cardinality(todo) \in Nat
    BY <1>1, TodoFinite
  <2> HIDE DEF A
  <2>2. CASE at = "dispatch"
    BY <1>1, <1>2, <2>1, <2>2, BoundsAssumption DEF Limit, A
  <2>3. CASE at # "dispatch"
    BY <1>1, <1>2, <2>3, BoundsAssumption DEF Limit, A
  <2> QED BY <2>2, <2>3
<1> HIDE DEF A, S
<1>6. f \in Injection(S, A)
  BY <1>3, <1>4 DEF Injection, IsInjective
<1> HIDE DEF f
<1>7. IsFiniteSet(S) /\ Cardinality(S) <= Cardinality(A)
  BY <1>2, <1>6, FS_Injection
<1>8. Cardinality(S) \in Nat
  BY <1>7, FS_CardinalityType
<1>9. Cardinality(S) <= MaxWorkers
  BY <1>2, <1>5, <1>7, <1>8, BoundsAssumption
<1> QED BY <1>9 DEF ClaimsWithinLimit, S

\* max_workers bounds the runs under way as long as no two of them were given
\* the same worker name.
THEOREM RunsWithinLimit == Spec /\ []DistinctNames => []ClaimsWithinLimit
<1>1. PoolInv /\ DistinctNames => ClaimsWithinLimit
  BY RunsAsNames
<1> QED BY <1>1, PoolInvariant, PTL

-----------------------------------------------------------------------------
(* Who is killed.                                                          *)

\* No other run under way goes by the name of run q.
Alone(q) == \A r \in Runs : r # q /\ Active(claim[r]) => claim[r].name # claim[q].name

\* A pass acts on a run, and takes its worker away, only when the worker is
\* the run's alone.
Held ==
    \A q \in Runs :
        plan[q] \notin {"none", "event"} \/ op[q] \in {"send", "sent", "clean"} => Alone(q)

\* A run that alone has its name keeps it to itself through a step that claims nothing.
LEMMA AloneKept ==
    ASSUME PoolInv, Kept, NEW q \in Runs, Alone(q)
    PROVE  Alone(q)'
BY KeptClaims DEF Alone

\* With distinct names, a run in hand alone has its name.
LEMMA ActiveAlone ==
    ASSUME DistinctNames, NEW q \in Runs, InHand(q)
    PROVE  Alone(q)
BY DEF DistinctNames, Alone

\* A step that moves claims and takes up only runs that are alone.
LEMMA HeldKept ==
    ASSUME PoolInv, Kept, Held,
           \A q \in Runs : plan'[q] \notin {"none", "event"} \/ op'[q] \in {"send", "sent", "clean"} =>
               plan[q] \notin {"none", "event"} \/ op[q] \in {"send", "sent", "clean"} \/ Alone(q)
    PROVE  Held'
<1>1. ASSUME NEW q \in Runs, plan'[q] \notin {"none", "event"} \/ op'[q] \in {"send", "sent", "clean"}
      PROVE  Alone(q)'
  <2>1. Alone(q)
    BY <1>1 DEF Held
  <2> QED BY <2>1, AloneKept
<1> QED BY <1>1 DEF Held

\* What is in hand stays held by its own name.
LEMMA HeldStep ==
    ASSUME PoolInv, DistinctNames, Held, [Next]_vars
    PROVE  Held'
<1>0. Stepped /\ Base /\ Ops /\ TypeOK
  BY NextStepped DEF PoolInv, Base, Control
<1>1. CASE Kept /\ Aside
  BY <1>1, HeldKept DEF Aside
<1>2. CASE WentDown
  <2>1. \A q \in Runs : plan'[q] = "none" /\ op'[q] = "none"
    BY <1>2, Nothings DEF WentDown
  <2> QED BY <2>1 DEF Held
<1>3. CASE BeginTick \/ EndTick \/ Restart
  <2>1. /\ Kept /\ op' = op
        /\ \A r \in Runs : plan'[r] # "none" => (plan'[r] = "event" /\ r \in events /\ at' = "events")
                                                \/ plan'[r] = plan[r]
    BY <1>0, <1>3, EdgeSteps
  <2> QED BY <2>1, HeldKept
<1>4. CASE NextPass
  <2>1. /\ Kept /\ op' = op
        /\ \A r \in Runs : plan'[r] # "none" => Active(claim[r])
    BY <1>0, <1>4, NextPassSteps
  <2>2. \A r \in Runs : plan'[r] # "none" => Alone(r)
    BY <2>1, ActiveAlone DEF InHand
  <2> QED BY <2>1, <2>2, HeldKept
<1>5. CASE planDispatch
  <2>1. Kept /\ op' = op /\ plan' = plan
    BY <1>0, <1>5, PlanSteps
  <2> QED BY <2>1, HeldKept
<1>6. CASE expireAndCleanupStaleLeases
  <2>1. /\ Kept /\ plan' = plan
        /\ \A r \in Runs : ~Lapsed(claim[r]) => op'[r] = "none"
    BY <1>0, <1>6, ExpireSteps
  <2>2. \A r \in Runs : Lapsed(claim[r]) => Alone(r)
    BY ActiveAlone DEF Lapsed, InHand
  <2> QED BY <2>1, <2>2, HeldKept
<1>7. ASSUME NEW t \in Tasks, Claiming(t)
      PROVE  Held'
  <2>1. plan = Nothing /\ \A q \in Runs : op[q] \in {"none", "launch"}
    BY <1>0, <1>7 DEF Claiming, Ops
  <2>2. PICK r \in Runs : \/ plan' = plan /\ op' = [op EXCEPT ![r] = "launch"]
                          \/ plan' = Nothing /\ op' = Nothing
    BY <1>7 DEF Claiming
  <2>3. \A q \in Runs : plan'[q] = "none" /\ op'[q] \in {"none", "launch"}
    BY <1>0, <2>1, <2>2, Nothings DEF TypeOK
  <2> QED BY <2>3 DEF Held
<1>8. ASSUME NEW t \in Tasks, Kept, Skipping(t)
      PROVE  Held'
  BY <1>8, HeldKept DEF Skipping
<1>9. ASSUME NEW r \in Runs, processTerminalRunEvents(r)
      PROVE  Held'
  <2>1. /\ Kept /\ op = Nothing /\ plan' = [plan EXCEPT ![r] = "none"]
        /\ op' = op \/ (op' = [op EXCEPT ![r] = "clean"] /\ ~hasOtherActiveClaim(claim[r].name, r))
    BY <1>0, <1>9, EventSteps
  <2>2. ~hasOtherActiveClaim(claim[r].name, r) => Alone(r)
    BY DEF hasOtherActiveClaim, Alone, ActiveRuns
  <2>3. \A q \in Runs : /\ plan'[q] \in {"none", plan[q]}
                        /\ op'[q] = op[q] \/ (q = r /\ Alone(r))
    BY <1>0, <2>1, <2>2 DEF TypeOK
  <2> QED BY <2>1, <2>3, HeldKept
<1>10. ASSUME NEW r \in Runs, cleanupRunCapacity(r)
       PROVE  Held'
  <2>1. Kept /\ plan' = plan /\ op' = [op EXCEPT ![r] = "none"]
    BY <1>0, <1>10, CleanupSteps
  <2>2. \A q \in Runs : op'[q] \in {"none", op[q]}
    BY <1>0, <2>1 DEF TypeOK
  <2> QED BY <2>1, <2>2, HeldKept
<1>11. ASSUME NEW r \in Runs, Kept, VisitedRun(r), op = Nothing, plan[r] # "none",
              at \in {"probe", "supervise", "ready"}
       PROVE  Held'
  <2>1. plan[r] \notin {"none", "event"}
    BY <1>0, <1>11 DEF Ops
  <2>2. \A q \in Runs : plan'[q] \in {"none", plan[q]} /\ (q # r => op'[q] = op[q])
    BY <1>0, <1>11 DEF VisitedRun, TypeOK
  <2> QED BY <1>11, <2>1, <2>2, HeldKept
<1>12. ASSUME NEW r \in Runs, Kept, Launching(r), ~WentDown
       PROVE  Held'
  <2>1. PICK x \in {"started", "none"} : op' = [op EXCEPT ![r] = x] /\ plan' = plan
    BY <1>12 DEF Launching
  <2>2. \A q \in Runs : op'[q] \in {"started", "none", op[q]}
    BY <1>0, <2>1 DEF TypeOK
  <2> QED BY <1>12, <2>1, <2>2, HeldKept
<1>13. ASSUME NEW r \in Runs, Kept, Sending(r)
       PROVE  Held'
  <2>1. op[r] \in {"send", "sent"} /\ plan' = plan
    BY <1>13 DEF Sending
  <2>2. \A q \in Runs : q # r => op'[q] = op[q]
    BY <1>0, <1>13 DEF Sending, TypeOK
  <2> QED BY <1>13, <2>1, <2>2, HeldKept
<1> QED BY <1>0, <1>1, <1>2, <1>3, <1>4, <1>5, <1>6, <1>7, <1>8, <1>9, <1>10, <1>11, <1>12, <1>13 DEF Stepped

\* What one step kills.
NoActiveKill ==
    \A r \in Runs : (proc[r] = "live" /\ proc'[r] = "dead" /\ Active(claim'[r])) =>
        \/ at' = "down"
        \/ at' = at /\ op' = op /\ plan' = plan

\* With distinct names, no step kills the session of another active run.
LEMMA KillStep ==
    ASSUME PoolInv, DistinctNames, Held, [Next]_vars
    PROVE  NoActiveKill
<1>0. Stepped /\ Base /\ SessionOwned /\ CleanEnded /\ Named
  BY NextStepped DEF PoolInv, Base, Control
<1>1. CASE Aside \/ WentDown
  BY <1>1 DEF Aside, WentDown, NoActiveKill
<1>2. CASE BeginTick \/ EndTick \/ Restart \/ NextPass \/ planDispatch \/ expireAndCleanupStaleLeases
  <2>1. proc' = proc
    BY <1>2 DEF BeginTick, EndTick, Restart, NextPass, planDispatch, expireAndCleanupStaleLeases
  <2> QED BY <2>1 DEF NoActiveKill
<1>3. ASSUME NEW t \in Tasks, Claiming(t) \/ Skipping(t)
      PROVE  NoActiveKill
  <2>1. proc' = proc \/ at' = "down"
    BY <1>3 DEF Claiming, Skipping
  <2> QED BY <2>1 DEF NoActiveKill
<1>4. ASSUME NEW r \in Runs, processTerminalRunEvents(r) \/ VisitedRun(r) \/ Sending(r)
      PROVE  NoActiveKill
  <2>1. proc' = proc
    BY <1>4 DEF processTerminalRunEvents, VisitedRun, Sending
  <2> QED BY <2>1 DEF NoActiveKill
<1>5. ASSUME NEW r \in Runs, cleanupRunCapacity(r)
      PROVE  NoActiveKill
  <2>1. /\ claim' = claim /\ op[r] = "clean"
        /\ \A q \in Runs : proc'[q] # proc[q] =>
              claim[r].name \in Names /\ worker[claim[r].name].session = q
    BY <1>0, <1>5, CleanupSteps
  <2>2. Alone(r) /\ ~Active(claim[r])
    BY <1>0, <2>1 DEF Held, CleanEnded
  <2>3. ASSUME NEW q \in Runs, proc'[q] # proc[q]
        PROVE  ~Active(claim'[q])
    <3>1. claim[r].name \in Names /\ worker[claim[r].name].session = q /\ q # 0
      BY <2>1, <2>3, BoundsAssumption DEF Runs
    <3>2. claim[q].name = claim[r].name
      BY <1>0, <3>1 DEF SessionOwned
    <3> QED BY <2>1, <2>2, <3>2 DEF Alone
  <2> QED BY <2>3 DEF NoActiveKill
<1>6. ASSUME NEW r \in Runs, Kept, Launching(r), ~WentDown
      PROVE  NoActiveKill
  <2>1. /\ op[r] \in {"launch", "started"}
        /\ \A q \in Runs : proc[q] = "live" /\ proc'[q] = "dead" =>
                \/ q = r /\ ~Active(claim'[r])
                \/ q # r /\ claim[q].name = claim[r].name
    BY <1>6 DEF Launching
  <2>2. \A q \in Runs : q # r /\ Active(claim[q]) => claim[q].name # claim[r].name
    BY <2>1, ActiveAlone DEF InHand, Alone
  <2>3. \A q \in Runs : Active(claim'[q]) => Active(claim[q])
    BY <1>6, KeptClaims
  <2> QED BY <2>1, <2>2, <2>3 DEF NoActiveKill
<1> QED BY <1>0, <1>1, <1>2, <1>3, <1>4, <1>5, <1>6 DEF Stepped

\* Nothing is in hand at first.
LEMMA HeldInit == Init => Held
BY Nothings DEF Init, Held

\* As long as no two runs under way were given the same worker name, no
\* pass, cleanup or launch kills the session of a run under way, whatever
\* snapshot it decided from (cleanupRunCapacity, adapter.start and stop).
THEOREM ActiveRunsAreSpared == Spec /\ []DistinctNames => NoActiveRunIsKilled
<1>1. PoolInv /\ DistinctNames /\ Held /\ [Next]_vars => Held'
  BY HeldStep
<1>2. PoolInv /\ DistinctNames /\ Held /\ [Next]_vars => [NoActiveKill]_vars
  BY KillStep
<1>3. Spec /\ []DistinctNames => [][NoActiveKill]_vars
  BY <1>1, <1>2, HeldInit, PoolInvariant, PTL DEF Spec
<1> QED BY <1>3, PTL DEF NoActiveRunIsKilled, NoActiveKill

=============================================================================
