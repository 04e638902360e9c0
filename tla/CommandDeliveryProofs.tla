----------------------- MODULE CommandDeliveryProofs -----------------------
(***************************************************************************)
(* For any number of runs, commands, attempts and crashes: a side effect   *)
(* is handed over at most once, every handover is paid for, what the       *)
(* coordinator says of an uncertain one is honest, and a settled command   *)
(* stays settled.                                                          *)
(*                                                                         *)
(* The argument is about one row at a time.  RowOK relates a row to the    *)
(* attempts handed over for it, and every transaction keeps it, whatever   *)
(* the row was turned into during an await.                                *)
(***************************************************************************)
EXTENDS CommandDelivery, TLAPS

\* S is the set of attempts handed over for the row m.
RowOK(m, S) ==
    /\ m.attempts <= m.max /\ m.max <= MaxAttempts
    /\ m.state = "none" <=> m.run = NoRun
    /\ \A k \in S : k <= m.attempts
    /\ m.state = "queued" => m.attempts < m.max
    /\ m.state = "none" => S = {}
    /\ m.state \in {"sent", "accepted", "running", "outcome_unknown"} => S # {}
    /\ m.state = "dispatching" /\ m.sending => S # {}
    /\ m.state = "dispatching" => m.attempts >= 1
    /\ ~m.repeatable /\ S # {} =>
          /\ m.state # "queued"
          /\ m.state = "dispatching" => m.sending
          /\ m.state = "failed" => m.acked \/ m.resolved
    /\ ~m.repeatable => \A j, k \in S : j = k

\* The dispatcher works on a row of its own and knows the row's attempt; the
\* attempt has not been handed over before markSendStarted does so.
Working == {"asking", "probing", "sending"}
WorksOn(c, k) ==
    /\ cur = [c |-> c, k |-> k]
    /\ cmd[c].attempts = k
    /\ cmd[c].state # "none"
    /\ at # "sending" => k \notin Sent(c)
WorkOK == at \in Working => \E c \in Commands, k \in Attempts : WorksOn(c, k)

RowsOK == \A c \in Commands : RowOK(cmd[c], Sent(c))
DeliveryInv == TypeOK /\ RowsOK /\ WorkOK

\* What a transaction other than a reservation, a deferral and a handover
\* does to a row.
Keeps(m, n, S) ==
    /\ n \in CommandRows
    /\ RowOK(n, S)
    /\ n.attempts = m.attempts
    /\ n.state = "none" <=> m.state = "none"
    /\ m.state \in Final \cup {"deleted"} => n.state \in {m.state, "deleted"}

-----------------------------------------------------------------------------
(* One row.                                                                *)

\* Only an operator, the provider or a row that was never handed over makes a
\* command fail.
MayBecome(m, state, S) ==
    /\ m.state # "none"
    /\ state \in States \cup {"deleted"}
    /\ m.state \in Final \cup {"deleted"} => state = "deleted"
    /\ state # "queued" /\ state # "dispatching"
    /\ state \in {"sent", "accepted", "running", "outcome_unknown"} => S # {}
    /\ state = "failed" => m.repeatable \/ S = {}

\* Moving a row to a state it may become keeps it sound.
LEMMA TransitionKeeps ==
  ASSUME NEW m \in CommandRows, NEW S \in SUBSET Attempts, RowOK(m, S),
         NEW state, MayBecome(m, state, S)
  PROVE  Keeps(m, Transition(m, state), S)
  <1> DEFINE n == Transition(m, state)
  <1>1. n \in CommandRows
    BY DEF MayBecome, CommandRows, Transition
  <1>2. /\ n.state = state /\ n.run = m.run /\ n.max = m.max /\ n.attempts = m.attempts
        /\ n.repeatable = m.repeatable
    BY DEF CommandRows, Transition
  <1>3. state # "none"
    BY DEF MayBecome, States, Open, Final
  <1> HIDE DEF n
  <1>4. RowOK(n, S)
    BY <1>2, <1>3 DEF RowOK, MayBecome
  <1> QED
    BY <1>1, <1>2, <1>3, <1>4 DEF Keeps, MayBecome, n

\* A row goes back to the queue only with attempts left and nothing uncertain.
LEMMA RequeueKeeps ==
  ASSUME NEW m \in CommandRows, NEW S \in SUBSET Attempts, RowOK(m, S),
         NEW ready \in BOOLEAN, m.state \in Open, m.attempts < m.max,
         m.repeatable \/ S = {}
  PROVE  Keeps(m, Requeued(m, ready), S)
  BY DEF CommandRows, RowOK, Keeps, Requeued, States, Open, Final

\* A row left alone is kept.
LEMMA SameKeeps ==
  ASSUME NEW m \in CommandRows, NEW S \in SUBSET Attempts, RowOK(m, S)
  PROVE  Keeps(m, m, S)
  BY DEF Keeps

\* The time flags of a row say nothing about its sends.
LEMMA FlagKeeps ==
  ASSUME NEW m \in CommandRows, NEW S \in SUBSET Attempts, RowOK(m, S)
  PROVE  /\ Keeps(m, [m EXCEPT !.deadline = "passed"], S)
         /\ Keeps(m, [m EXCEPT !.stalled = TRUE], S)
         /\ Keeps(m, [m EXCEPT !.ready = TRUE], S)
  <1>1. Keeps(m, [m EXCEPT !.deadline = "passed"], S)
    BY DEF CommandRows, RowOK, Keeps, States, Open, Final
  <1>2. Keeps(m, [m EXCEPT !.stalled = TRUE], S)
    BY DEF CommandRows, RowOK, Keeps, States, Open, Final
  <1>3. Keeps(m, [m EXCEPT !.ready = TRUE], S)
    BY DEF CommandRows, RowOK, Keeps, States, Open, Final
  <1> QED
    BY <1>1, <1>2, <1>3

\* failTransport: the catch block of tick.
LEMMA FailTransportKeeps ==
  ASSUME NEW m \in CommandRows, NEW S \in SUBSET Attempts, RowOK(m, S)
  PROVE  Keeps(m, failTransport(m), S)
  <1>1. CASE m.state # "dispatching"
    BY <1>1, SameKeeps DEF failTransport
  <1>2. CASE m.state = "dispatching" /\ m.sending /\ ~m.repeatable
    <2>1. MayBecome(m, "outcome_unknown", S)
      BY <1>2 DEF MayBecome, RowOK, States, Open, Final
    <2> QED
      BY <1>2, <2>1, TransitionKeeps DEF failTransport
  <1>3. CASE m.state = "dispatching" /\ ~(m.sending /\ ~m.repeatable) /\ m.attempts >= m.max
    <2>1. MayBecome(m, "failed", S)
      BY <1>3 DEF MayBecome, RowOK, States, Open, Final
    <2> QED
      BY <1>3, <2>1, TransitionKeeps DEF failTransport
  <1>4. CASE m.state = "dispatching" /\ ~(m.sending /\ ~m.repeatable) /\ ~(m.attempts >= m.max)
    <2>1. m.repeatable \/ S = {}
      BY <1>4 DEF RowOK
    <2>2. m.attempts < m.max /\ m.state \in Open
      BY <1>4 DEF CommandRows, Open
    <2> QED
      BY <1>4, <2>1, <2>2, RequeueKeeps DEF failTransport
  <1> QED
    BY <1>1, <1>2, <1>3, <1>4

\* reconcileCommands, whatever the run and the session have come to.
LEMMA ReconcileKeeps ==
  ASSUME NEW m \in CommandRows, NEW S \in SUBSET Attempts, RowOK(m, S)
  PROVE  Keeps(m, Reconciled(m), S)
  <1> DEFINE lost == ~Deliverable(m) \/ m.deadline = "passed" \/ m.attempts >= m.max
             unsent == m.state = "queued" \/ (m.state = "dispatching" /\ ~m.sending)
  <1>1. CASE Reconciled(m) = m
    BY <1>1, SameKeeps
  <1>2. CASE m.state \in Open /\ unsent /\ Reconciled(m) = Transition(m, "failed")
    <2>1. MayBecome(m, "failed", S)
      BY <1>2 DEF MayBecome, RowOK, States, Open, Final
    <2> QED
      BY <1>2, <2>1, TransitionKeeps
  <1>3. CASE m.state \in Open /\ unsent /\ ~lost /\ Reconciled(m) = Requeued(m, TRUE)
    <2>1. m.repeatable \/ S = {}
      BY <1>3 DEF RowOK
    <2>2. m.attempts < m.max
      BY <1>3 DEF CommandRows
    <2> QED
      BY <1>3, <2>1, <2>2, RequeueKeeps
  <1>4. CASE m.state \in Open /\ ~unsent /\ Reconciled(m) = Transition(m, "outcome_unknown")
    <2>1. MayBecome(m, "outcome_unknown", S)
      BY <1>4 DEF MayBecome, RowOK, States, Open, Final
    <2> QED
      BY <1>4, <2>1, TransitionKeeps
  <1>5. CASE m.state \in Open /\ m.repeatable /\ ~lost /\ Reconciled(m) = Requeued(m, TRUE)
    <2>1. m.attempts < m.max
      BY <1>5 DEF CommandRows
    <2> QED
      BY <1>5, <2>1, RequeueKeeps
  <1>6. CASE m.state \in Open /\ m.repeatable /\ Reconciled(m) = Transition(m, "failed")
    <2>1. MayBecome(m, "failed", S)
      BY <1>6 DEF MayBecome, RowOK, States, Open, Final
    <2> QED
      BY <1>6, <2>1, TransitionKeeps
  <1> QED
    BY <1>1, <1>2, <1>3, <1>4, <1>5, <1>6 DEF Reconciled

\* applyAck, for a command that was handed over.
LEMMA AckKeeps ==
  ASSUME NEW m \in CommandRows, NEW S \in SUBSET Attempts, RowOK(m, S), S # {},
         m.state \notin Final \cup {"none", "deleted"},
         NEW state \in {"accepted", "running", "completed", "failed"}
  PROVE  Keeps(m, applyAck(m, state), S)
  BY DEF CommandRows, RowOK, Keeps, applyAck, Transition, States, Open, Final

\* acknowledgeFromRuntime, for a frame about a command that was handed over.
LEMMA RuntimeAckKeeps ==
  ASSUME NEW m \in CommandRows, NEW S \in SUBSET Attempts, RowOK(m, S), S # {},
         RuntimeMayAck(m), NEW state \in {"accepted", "running", "completed", "failed"}
  PROVE  Keeps(m, acknowledgeFromRuntime(m, state), S)
  <1>1. CASE m.state \in Final
    <2>1. ACK_RANK(m.state) = 3 /\ ACK_RANK(state) \in 0 .. 3
      BY <1>1 DEF ACK_RANK, Final
    <2>2. acknowledgeFromRuntime(m, state) = m
      BY <2>1 DEF acknowledgeFromRuntime
    <2> QED
      BY <2>2, SameKeeps
  <1>2. CASE m.state \notin Final
    <2>1. m.state \notin {"none", "deleted"}
      BY DEF RuntimeMayAck
    <2>2. acknowledgeFromRuntime(m, state) = m \/ acknowledgeFromRuntime(m, state) = applyAck(m, state)
      BY DEF acknowledgeFromRuntime
    <2> QED
      BY <1>2, <2>1, <2>2, SameKeeps, AckKeeps
  <1> QED
    BY <1>1, <1>2

\* markSent, for a command that was handed over.
LEMMA MarkSentKeeps ==
  ASSUME NEW m \in CommandRows, NEW S \in SUBSET Attempts, RowOK(m, S), S # {}
  PROVE  Keeps(m, markSent(m), S)
  <1>1. CASE m.state = "dispatching" /\ m.sending
    <2>1. MayBecome(m, "sent", S)
      BY <1>1 DEF MayBecome, States, Open, Final
    <2> QED
      BY <1>1, <2>1, TransitionKeeps DEF markSent
  <1>2. CASE ~(m.state = "dispatching" /\ m.sending)
    BY <1>2, SameKeeps DEF markSent
  <1> QED
    BY <1>1, <1>2

\* resolveUnknownCommand.
LEMMA ResolveKeeps ==
  ASSUME NEW m \in CommandRows, NEW S \in SUBSET Attempts, RowOK(m, S),
         m.state = "outcome_unknown", NEW outcome \in Final
  PROVE  Keeps(m, [Transition(m, outcome) EXCEPT !.resolved = TRUE], S)
  BY DEF CommandRows, RowOK, Keeps, Transition, States, Open, Final

-----------------------------------------------------------------------------
(* Steps.                                                                  *)

\* Attempts that were handed over stay handed over, and are attempts.
LEMMA SentType == \A c \in Commands : Sent(c) \in SUBSET Attempts
  BY DEF Sent

\* The variables that no row depends on keep their type.
Surroundings ==
    /\ run' \in [Runs -> {"active", "ended", "deleted"}]
    /\ session' \in [Runs -> {"running", "away"}]
    /\ crashes' \in 0 .. MaxCrashes

\* The dispatcher goes on with its command, or drops it.
WorkGoesOn ==
    /\ at' \in {"idle", "reserve", "asking", "probing", "sending", "down"}
    /\ cur' \in [c : Commands \cup {0}, k : Attempts \cup {0}]
    /\ at' \in Working =>
          /\ at \in Working /\ cur' = cur
          /\ at' # "sending" => at # "sending"

\* A step that keeps every row and hands nothing over keeps the invariant.
LEMMA Frame ==
  ASSUME DeliveryInv, Surroundings, WorkGoesOn,
         cmd' = [c \in Commands |-> cmd'[c]],
         \A c \in Commands : Keeps(cmd[c], cmd'[c], Sent(c)),
         send' \in [Commands -> [Attempts -> {"none", "flying", "landed", "answered"}]],
         \A c \in Commands : Sent(c)' = Sent(c)
  PROVE  DeliveryInv'
  <1>1. cmd' \in [Commands -> CommandRows]
    <2>1. \A c \in Commands : cmd'[c] \in CommandRows
      BY DEF Keeps
    <2> QED
      BY <2>1
  <1>2. TypeOK'
    BY <1>1 DEF TypeOK, Surroundings, WorkGoesOn
  <1>3. RowsOK'
    <2> SUFFICES ASSUME NEW c \in Commands PROVE RowOK(cmd'[c], Sent(c)')
      BY DEF RowsOK
    <2> QED
      BY DEF Keeps
  <1>4. WorkOK'
    <2> SUFFICES ASSUME at' \in Working
                 PROVE  \E c \in Commands, k \in Attempts : WorksOn(c, k)'
      BY DEF WorkOK
    <2>1. at \in Working /\ cur' = cur /\ (at' # "sending" => at # "sending")
      BY DEF WorkGoesOn
    <2>2. PICK c \in Commands, k \in Attempts : WorksOn(c, k)
      BY <2>1 DEF DeliveryInv, WorkOK
    <2>3. Keeps(cmd[c], cmd'[c], Sent(c)) /\ Sent(c)' = Sent(c)
      OBVIOUS
    <2>4. cmd'[c].attempts = k /\ cmd'[c].state # "none"
      BY <2>2, <2>3 DEF Keeps, WorksOn
    <2>5. WorksOn(c, k)'
      BY <2>1, <2>2, <2>3, <2>4 DEF WorksOn
    <2> QED
      BY <2>5
  <1> QED
    BY <1>2, <1>3, <1>4 DEF DeliveryInv

\* Settled commands stay settled; proved with the invariant, step by step.
FinalStay ==
    \A c \in Commands : cmd[c].state \in Final => cmd'[c].state \in {cmd[c].state, "deleted"}
StepOK == DeliveryInv' /\ FinalStay

KeepsAll ==
    /\ cmd' = [c \in Commands |-> cmd'[c]]
    /\ \A c \in Commands : Keeps(cmd[c], cmd'[c], Sent(c))

\* A step that keeps every row and hands nothing over is a good step.
LEMMA FrameStep ==
  ASSUME DeliveryInv, Surroundings, WorkGoesOn, KeepsAll, send' = send
  PROVE  StepOK
  <1>1. \A c \in Commands : Sent(c)' = Sent(c)
    BY DEF Sent
  <1>2. DeliveryInv'
    BY <1>1, Frame DEF KeepsAll, DeliveryInv, TypeOK
  <1>3. FinalStay
    BY DEF FinalStay, KeepsAll, Keeps
  <1> QED
    BY <1>2, <1>3 DEF StepOK

\* Updating one row.
LEMMA OneRow ==
  ASSUME DeliveryInv, NEW c \in Commands, NEW n, cmd' = [cmd EXCEPT ![c] = n],
         Keeps(cmd[c], n, Sent(c))
  PROVE  KeepsAll
  <1>1. cmd \in [Commands -> CommandRows]
    BY DEF DeliveryInv, TypeOK
  <1>2. \A d \in Commands : cmd[d] \in CommandRows /\ RowOK(cmd[d], Sent(d)) /\ Sent(d) \in SUBSET Attempts
    BY <1>1, SentType DEF DeliveryInv, RowsOK
  <1>3. cmd'[c] = n /\ \A d \in Commands \ {c} : cmd'[d] = cmd[d]
    BY <1>1
  <1>4. \A d \in Commands : Keeps(cmd[d], cmd'[d], Sent(d))
    BY <1>2, <1>3, SameKeeps
  <1> QED
    BY <1>1, <1>4 DEF KeepsAll

\* Updating no row.
LEMMA NoRow == ASSUME DeliveryInv, cmd' = cmd PROVE KeepsAll
  <1>1. cmd \in [Commands -> CommandRows]
    BY DEF DeliveryInv, TypeOK
  <1>2. \A d \in Commands : cmd[d] \in CommandRows /\ RowOK(cmd[d], Sent(d)) /\ Sent(d) \in SUBSET Attempts
    BY <1>1, SentType DEF DeliveryInv, RowsOK
  <1> QED
    BY <1>1, <1>2, SameKeeps DEF KeepsAll

\* What the invariant says of one row.
LEMMA RowFacts ==
  ASSUME DeliveryInv, NEW c \in Commands
  PROVE  cmd[c] \in CommandRows /\ RowOK(cmd[c], Sent(c)) /\ Sent(c) \in SUBSET Attempts
  BY SentType DEF DeliveryInv, TypeOK, RowsOK

\* reconcileCommands keeps every row.
LEMMA SweepKeeps == ASSUME DeliveryInv, cmd' = reconcileCommands PROVE KeepsAll
  <1>1. \A c \in Commands : cmd'[c] = Reconciled(cmd[c])
    BY DEF reconcileCommands
  <1>2. \A c \in Commands : Keeps(cmd[c], cmd'[c], Sent(c))
    BY <1>1, RowFacts, ReconcileKeeps
  <1> QED
    BY <1>2 DEF KeepsAll, reconcileCommands

\* The catch block keeps every row and drops the dispatcher's command.
LEMMA CatchKeeps ==
  ASSUME DeliveryInv, at \in Working, Catch
  PROVE  KeepsAll /\ WorkGoesOn
  <1>1. PICK c \in Commands, k \in Attempts : WorksOn(c, k)
    BY DEF DeliveryInv, WorkOK
  <1>2. cur.c = c
    BY <1>1 DEF WorksOn
  <1>3. KeepsAll
    <2>1. CASE cmd' = cmd
      BY <2>1, NoRow
    <2>2. CASE cmd' = [cmd EXCEPT ![c] = failTransport(cmd[c])]
      <3>1. Keeps(cmd[c], failTransport(cmd[c]), Sent(c))
        BY RowFacts, FailTransportKeeps
      <3> QED
        BY <2>2, <3>1, OneRow
    <2> QED
      BY <1>2, <2>1, <2>2 DEF Catch
  <1>4. WorkGoesOn
    BY DEF Catch, WorkGoesOn, NoWork, Working
  <1> QED
    BY <1>3, <1>4

\* Nothing queued, nothing handed over.
LEMMA DeliveryInit == Init => DeliveryInv
  <1> SUFFICES ASSUME Init PROVE DeliveryInv
    OBVIOUS
  <1>1. NoCommand \in CommandRows
    BY DEF NoCommand, CommandRows
  <1>2. TypeOK
    BY <1>1, BoundsAssumption DEF Init, TypeOK, NoWork
  <1>3. \A c \in Commands : Sent(c) = {}
    BY DEF Init, Sent
  <1>4. RowsOK
    <2> SUFFICES ASSUME NEW c \in Commands PROVE RowOK(cmd[c], Sent(c))
      BY DEF RowsOK
    <2>1. cmd[c] = NoCommand
      BY DEF Init
    <2> QED
      BY <1>3, <2>1, BoundsAssumption DEF RowOK, NoCommand
  <1>5. WorkOK
    BY DEF Init, WorkOK, Working
  <1> QED
    BY <1>2, <1>4, <1>5 DEF DeliveryInv

\* The steps of tick that neither reserve, defer nor hand over.
LEMMA DispatcherSteps ==
  ASSUME DeliveryInv, Tick \/ Sweep \/ NothingDue \/ RecipientFree \/ RecipientLost \/ SendFails
  PROVE  StepOK
  <1> USE DEF Surroundings
  <1>1. run' = run /\ session' = session /\ send' = send /\ crashes' = crashes
    BY DEF Tick, Sweep, NothingDue, RecipientFree, RecipientLost, SendFails
  <1>2. Surroundings
    BY <1>1 DEF DeliveryInv, TypeOK
  <1>3. CASE Tick \/ Sweep
    <2>1. KeepsAll
      BY <1>3, SweepKeeps DEF Tick, Sweep
    <2>2. WorkGoesOn
      BY <1>3 DEF WorkGoesOn, Working, DeliveryInv, TypeOK, Tick, Sweep
    <2> QED
      BY <1>1, <1>2, <2>1, <2>2, FrameStep
  <1>4. CASE NothingDue \/ RecipientFree
    <2>1. KeepsAll
      BY <1>4, NoRow DEF NothingDue, RecipientFree
    <2>2. WorkGoesOn
      BY <1>4 DEF WorkGoesOn, Working, DeliveryInv, TypeOK, NothingDue, RecipientFree
    <2> QED
      BY <1>1, <1>2, <2>1, <2>2, FrameStep
  <1>5. CASE RecipientLost \/ SendFails
    <2>1. at \in Working /\ Catch
      BY <1>5 DEF RecipientLost, SendFails, Working
    <2> QED
      BY <1>1, <1>2, <2>1, CatchKeeps, FrameStep
  <1> QED
    BY <1>3, <1>4, <1>5

\* Time, the run, the session and the coordinator's death.
LEMMA EnvironmentSteps ==
  ASSUME DeliveryInv,
         \/ Crash \/ Restart
         \/ \E c \in Commands : DeadlinePasses(c) \/ DispatchStalls(c) \/ RetryComesDue(c)
         \/ \E r \in Runs : RunEnds(r) \/ RunDeleted(r) \/ SessionLeaves(r) \/ SessionAdopted(r)
  PROVE  StepOK
  <1> USE DEF Surroundings
  <1>1. CASE Crash \/ Restart
    <2>1. KeepsAll
      BY <1>1, NoRow DEF Crash, Restart
    <2>2. WorkGoesOn
      BY <1>1 DEF WorkGoesOn, Working, DeliveryInv, TypeOK, Crash, Restart, NoWork
    <2>3. Surroundings /\ send' = send
      BY <1>1, BoundsAssumption DEF DeliveryInv, TypeOK, Crash, Restart
    <2> QED
      BY <2>1, <2>2, <2>3, FrameStep
  <1>2. ASSUME NEW c \in Commands, DeadlinePasses(c) \/ DispatchStalls(c) \/ RetryComesDue(c)
        PROVE  StepOK
    <2>1. KeepsAll
      BY <1>2, RowFacts, FlagKeeps, OneRow DEF DeadlinePasses, DispatchStalls, RetryComesDue
    <2>2. WorkGoesOn /\ Surroundings /\ send' = send
      BY <1>2 DEF WorkGoesOn, Working, DeliveryInv, TypeOK, DeadlinePasses, DispatchStalls, RetryComesDue
    <2> QED
      BY <2>1, <2>2, FrameStep
  <1>3. ASSUME NEW r \in Runs, RunEnds(r) \/ SessionLeaves(r) \/ SessionAdopted(r) PROVE StepOK
    <2>1. KeepsAll
      BY <1>3, NoRow DEF RunEnds, SessionLeaves, SessionAdopted
    <2>2. WorkGoesOn /\ Surroundings /\ send' = send
      BY <1>3 DEF WorkGoesOn, Working, DeliveryInv, TypeOK, RunEnds, SessionLeaves, SessionAdopted
    <2> QED
      BY <2>1, <2>2, FrameStep
  <1>4. ASSUME NEW r \in Runs, RunDeleted(r) PROVE StepOK
    <2>1. ASSUME NEW c \in Commands PROVE Keeps(cmd[c], cmd'[c], Sent(c))
      <3>1. CASE cmd[c].run = r
        <4>1. cmd'[c] = Transition(cmd[c], "deleted")
          BY <1>4, <3>1 DEF RunDeleted
        <4>2. cmd[c].state # "none"
          <5>1. cmd[c].state = "none" => cmd[c].run = NoRun
            BY RowFacts DEF RowOK
          <5> QED
            BY <3>1, <5>1, RunsAssumption
        <4>3. MayBecome(cmd[c], "deleted", Sent(c))
          BY <4>2 DEF MayBecome
        <4> QED
          BY <4>1, <4>3, RowFacts, TransitionKeeps
      <3>2. CASE cmd[c].run # r
        <4>1. cmd'[c] = cmd[c]
          BY <1>4, <3>2 DEF RunDeleted
        <4> QED
          BY <4>1, RowFacts, SameKeeps
      <3> QED
        BY <3>1, <3>2
    <2>2. KeepsAll
      BY <1>4, <2>1 DEF KeepsAll, RunDeleted
    <2>3. WorkGoesOn /\ Surroundings /\ send' = send
      BY <1>4 DEF WorkGoesOn, Working, DeliveryInv, TypeOK, RunDeleted
    <2> QED
      BY <2>2, <2>3, FrameStep
  <1> QED
    BY <1>1, <1>2, <1>3, <1>4

\* Acknowledgements and the operator's resolution.
LEMMA AckSteps ==
  ASSUME DeliveryInv, NEW c \in Commands,
         \/ \E state \in {"running", "completed", "failed"} : onRuntimeEvent(c, state)
         \/ \E state \in {"accepted", "running", "completed", "failed"} : acknowledgeCommand(c, state)
         \/ \E outcome \in Final : resolveUnknownCommand(c, outcome)
  PROVE  StepOK
  <1>0. Landed(c) # {} => Sent(c) # {}
    BY DEF Landed, Sent
  <1>1. WorkGoesOn /\ Surroundings /\ send' = send
    BY DEF WorkGoesOn, Surroundings, Working, DeliveryInv, TypeOK, onRuntimeEvent,
           acknowledgeCommand, resolveUnknownCommand
  <1>2. KeepsAll
    <2>1. ASSUME NEW state \in {"running", "completed", "failed"}, onRuntimeEvent(c, state)
          PROVE  KeepsAll
      <3>1. Keeps(cmd[c], acknowledgeFromRuntime(cmd[c], state), Sent(c))
        BY <1>0, <2>1, RowFacts, RuntimeAckKeeps DEF onRuntimeEvent
      <3> QED
        BY <2>1, <3>1, OneRow DEF onRuntimeEvent
    <2>2. ASSUME NEW state \in {"accepted", "running", "completed", "failed"},
                 acknowledgeCommand(c, state)
          PROVE  KeepsAll
      <3>1. cmd[c].state \notin Final \cup {"none", "deleted"}
        BY <2>2 DEF acknowledgeCommand, CanAck, ACK_ALLOWED, Final
      <3>2. Keeps(cmd[c], applyAck(cmd[c], state), Sent(c))
        BY <1>0, <2>2, <3>1, RowFacts, AckKeeps DEF acknowledgeCommand
      <3> QED
        BY <2>2, <3>2, OneRow DEF acknowledgeCommand
    <2>3. ASSUME NEW outcome \in Final, resolveUnknownCommand(c, outcome) PROVE KeepsAll
      <3>1. Keeps(cmd[c], [Transition(cmd[c], outcome) EXCEPT !.resolved = TRUE], Sent(c))
        BY <2>3, RowFacts, ResolveKeeps DEF resolveUnknownCommand
      <3> QED
        BY <2>3, <3>1, OneRow DEF resolveUnknownCommand
    <2> QED
      BY <2>1, <2>2, <2>3
  <1> QED
    BY <1>1, <1>2, FrameStep

\* Keeping a row twice is keeping it.
LEMMA KeepsTwice ==
  ASSUME NEW m, NEW n, NEW o, NEW S, Keeps(m, n, S), Keeps(n, o, S)
  PROVE  Keeps(m, o, S)
  BY DEF Keeps, Final

\* The provider takes what was handed over, and answers.
LEMMA ProviderSteps ==
  ASSUME DeliveryInv, NEW c \in Commands, NEW k \in Attempts,
         ProviderTakes(c, k) \/ ProviderAnswers(c, k)
  PROVE  StepOK
  <1> USE DEF Surroundings
  <1>1. /\ send[c][k] \in {"flying", "landed"}
        /\ \/ send' = [send EXCEPT ![c][k] = "landed"]
           \/ send' = [send EXCEPT ![c][k] = "answered"]
    BY DEF ProviderTakes, ProviderAnswers
  <1>2. send' \in [Commands -> [Attempts -> {"none", "flying", "landed", "answered"}]]
    BY <1>1 DEF DeliveryInv, TypeOK
  <1>3. \A d \in Commands : Sent(d)' = Sent(d)
    BY <1>1 DEF Sent, DeliveryInv, TypeOK
  <1>4. Surroundings
    BY DEF ProviderTakes, ProviderAnswers, DeliveryInv, TypeOK
  <1>5. Sent(c) # {}
    BY <1>1 DEF Sent
  <1>6. KeepsAll /\ WorkGoesOn
    <2>1. CASE ProviderTakes(c, k)
      BY <2>1, NoRow DEF ProviderTakes, WorkGoesOn, Working, DeliveryInv, TypeOK
    <2>2. CASE ProviderAnswers(c, k) /\ Catch
      <3>1. CASE at \in Working
        BY <2>2, <3>1, CatchKeeps
      <3>2. CASE at \notin Working
        <4>1. cmd' = [cmd EXCEPT ![c] = acknowledgeFromRuntime(cmd[c], "accepted")]
              \/ cmd' = cmd
          BY <2>2, <3>2 DEF ProviderAnswers, Working
        <4>2. at' = at /\ cur' = cur
          BY <2>2, <3>2 DEF ProviderAnswers, Working
        <4>3. RuntimeMayAck(cmd[c]) \/ cmd' = cmd
          BY <2>2, <3>2 DEF ProviderAnswers, Working
        <4>4. RuntimeMayAck(cmd[c]) => Keeps(cmd[c], acknowledgeFromRuntime(cmd[c], "accepted"), Sent(c))
          BY <1>5, RowFacts, RuntimeAckKeeps
        <4>5. KeepsAll
          BY <4>1, <4>3, <4>4, NoRow, OneRow
        <4> QED
          BY <4>2, <4>5 DEF WorkGoesOn, DeliveryInv, TypeOK
      <3> QED
        BY <3>1, <3>2
    <2>3. CASE ProviderAnswers(c, k) /\ ~Catch
      <3> DEFINE a == acknowledgeFromRuntime(cmd[c], "accepted")
      <3>1. \/ RuntimeMayAck(cmd[c]) /\ cmd' = [cmd EXCEPT ![c] = markSent(a)]
               /\ at' = "reserve" /\ cur' = NoWork
            \/ RuntimeMayAck(cmd[c]) /\ cmd' = [cmd EXCEPT ![c] = a] /\ at' = at /\ cur' = cur
            \/ cmd' = cmd /\ at' = at /\ cur' = cur
        BY <2>3 DEF ProviderAnswers
      <3>2. RuntimeMayAck(cmd[c]) => Keeps(cmd[c], a, Sent(c))
        BY <1>5, RowFacts, RuntimeAckKeeps
      <3> HIDE DEF a
      <3>3. RuntimeMayAck(cmd[c]) => Keeps(a, markSent(a), Sent(c))
        BY <1>5, <3>2, RowFacts, MarkSentKeeps DEF Keeps
      <3>4. RuntimeMayAck(cmd[c]) => Keeps(cmd[c], markSent(a), Sent(c))
        BY <3>2, <3>3, KeepsTwice
      <3>5. KeepsAll
        BY <3>1, <3>2, <3>4, NoRow, OneRow
      <3>6. WorkGoesOn
        BY <3>1 DEF WorkGoesOn, Working, NoWork, DeliveryInv, TypeOK
      <3> QED
        BY <3>5, <3>6
    <2> QED
      BY <2>1, <2>2, <2>3
  <1>7. DeliveryInv'
    BY <1>2, <1>3, <1>4, <1>6, Frame DEF KeepsAll
  <1>8. FinalStay
    BY <1>6 DEF FinalStay, KeepsAll, Keeps
  <1> QED
    BY <1>7, <1>8 DEF StepOK

-----------------------------------------------------------------------------
(* The steps that do not keep their row: a new one, a reservation, a       *)
(* deferral and the handover.  Row c becomes n; the others stay.           *)

\* The invariant of the rows, from the one that changed.
LEMMA RowsExceptOne ==
  ASSUME DeliveryInv, NEW c \in Commands, NEW n \in CommandRows,
         cmd' = [cmd EXCEPT ![c] = n],
         RowOK(n, Sent(c)'),
         \A d \in Commands \ {c} : Sent(d)' = Sent(d)
  PROVE  /\ cmd' \in [Commands -> CommandRows]
         /\ cmd'[c] = n
         /\ \A d \in Commands \ {c} : cmd'[d] = cmd[d]
         /\ RowsOK'
  <1>1. cmd \in [Commands -> CommandRows]
    BY DEF DeliveryInv, TypeOK
  <1>2. cmd'[c] = n /\ \A d \in Commands \ {c} : cmd'[d] = cmd[d]
    BY <1>1
  <1>3. ASSUME NEW d \in Commands PROVE RowOK(cmd'[d], Sent(d)')
    <2>1. CASE d = c
      BY <1>2, <2>1
    <2>2. CASE d # c
      BY <1>2, <2>2 DEF DeliveryInv, RowsOK
    <2> QED
      BY <2>1, <2>2
  <1> QED
    BY <1>1, <1>2, <1>3 DEF RowsOK

\* A new command goes to a row of its own, never to the dispatcher's.
LEMMA EnqueueStep ==
  ASSUME DeliveryInv, NEW c \in Commands, NEW r \in Runs, NEW input \in Requests,
         enqueueCommand(c, r, input)
  PROVE  StepOK
  <1> DEFINE n == [NoCommand EXCEPT !.state = "queued", !.run = r,
                       !.repeatable = input.repeatable, !.max = input.max,
                       !.deadline = input.deadline, !.ready = TRUE]
  <1>1. cmd' = [cmd EXCEPT ![c] = n] /\ cmd[c].state = "none" /\ UNCHANGED <<run, session, send, at, cur, crashes>>
    BY DEF enqueueCommand
  <1>2. input.repeatable \in BOOLEAN /\ input.max \in 1 .. MaxAttempts /\ input.deadline \in {"none", "ahead"}
    BY RequestsAssumption
  <1>3. n \in CommandRows
    <2>1. NoCommand \in CommandRows
      BY DEF NoCommand, CommandRows
    <2>2. "queued" \in States \cup {"none", "deleted"} /\ input.max \in Nat
      BY <1>2, BoundsAssumption DEF States, Open
    <2> QED
      BY <1>2, <2>1, <2>2 DEF CommandRows
  <1>4. \A d \in Commands : Sent(d)' = Sent(d)
    BY <1>1 DEF Sent
  <1>5. Sent(c) = {}
    BY <1>1, RowFacts DEF RowOK
  <1>6. n.state = "queued" /\ n.attempts = 0 /\ n.max = input.max /\ n.run = r /\ n.sending = FALSE
    BY DEF NoCommand
  <1> HIDE DEF n
  <1>7. RowOK(n, Sent(c)')
    BY <1>2, <1>4, <1>5, <1>6, RunsAssumption, BoundsAssumption DEF RowOK
  <1>8. /\ cmd' \in [Commands -> CommandRows]
        /\ cmd'[c] = n
        /\ \A d \in Commands \ {c} : cmd'[d] = cmd[d]
        /\ RowsOK'
    BY <1>1, <1>3, <1>4, <1>7, RowsExceptOne
  <1>9. TypeOK'
    BY <1>1, <1>8 DEF DeliveryInv, TypeOK
  <1>10. WorkOK'
    <2> SUFFICES ASSUME at' \in Working
                 PROVE  \E d \in Commands, k \in Attempts : WorksOn(d, k)'
      BY DEF WorkOK
    <2>1. PICK d \in Commands, k \in Attempts : WorksOn(d, k)
      BY <1>1 DEF DeliveryInv, WorkOK
    <2>2. d # c
      BY <1>1, <2>1 DEF WorksOn
    <2>3. WorksOn(d, k)'
      BY <1>1, <1>4, <1>8, <2>1, <2>2 DEF WorksOn
    <2> QED
      BY <2>3
  <1>11. FinalStay
    BY <1>1, <1>8 DEF FinalStay, Final
  <1> QED
    BY <1>8, <1>9, <1>10, <1>11 DEF StepOK, DeliveryInv

\* A reserved row is a row.
LEMMA ReservedType == ASSUME NEW m \in CommandRows PROVE Reserved(m) \in CommandRows
  <1> DEFINE st == States \cup {"none", "deleted"}
  <1>1. m.attempts + 1 \in Nat /\ "dispatching" \in st
    BY DEF CommandRows, States, Open
  <1>2. \A k \in Nat, s \in st :
            [m EXCEPT !.state = s, !.attempts = k, !.sending = FALSE, !.ready = FALSE] \in CommandRows
    BY DEF CommandRows
  <1> HIDE DEF st
  <1> QED
    BY <1>1, <1>2 DEF Reserved

\* A queued command has an attempt left, and takes it.
LEMMA ReserveStep ==
  ASSUME DeliveryInv, NEW c \in Commands, reserveCommand(c)
  PROVE  StepOK
  <1>1. cmd[c].state = "queued" /\ run' = run /\ session' = session /\ send' = send /\ crashes' = crashes
    BY DEF reserveCommand, Due
  <1>2. cmd[c] \in CommandRows /\ RowOK(cmd[c], Sent(c)) /\ Sent(c) \in SUBSET Attempts
    BY RowFacts
  <1>3. CASE cmd[c].deadline = "passed"
    <2>1. MayBecome(cmd[c], "failed", Sent(c))
      BY <1>1, <1>2 DEF MayBecome, RowOK, States, Open, Final
    <2>2. Keeps(cmd[c], Transition(cmd[c], "failed"), Sent(c))
      BY <1>2, <2>1, TransitionKeeps
    <2>3. KeepsAll
      BY <1>3, <2>2, OneRow DEF reserveCommand
    <2>4. WorkGoesOn /\ Surroundings
      BY <1>1, <1>3 DEF reserveCommand, WorkGoesOn, Working, Surroundings, DeliveryInv, TypeOK
    <2> QED
      BY <1>1, <2>3, <2>4, FrameStep
  <1>4. CASE cmd[c].deadline # "passed"
    <2> DEFINE n == Reserved(cmd[c])
               k == cmd[c].attempts + 1
    <2>1. cmd' = [cmd EXCEPT ![c] = n] /\ at' = "asking" /\ cur' = [c |-> c, k |-> k]
      BY <1>4 DEF reserveCommand
    <2>2. \A d \in Commands : Sent(d)' = Sent(d)
      BY <1>1 DEF Sent
    <2>3. /\ n \in CommandRows
          /\ n.state = "dispatching" /\ n.attempts = k /\ n.max = cmd[c].max
          /\ n.run = cmd[c].run /\ n.repeatable = cmd[c].repeatable
      <3>1. n \in CommandRows
        BY <1>2, ReservedType
      <3>2. /\ n.state = "dispatching" /\ n.attempts = k /\ n.max = cmd[c].max
            /\ n.run = cmd[c].run /\ n.repeatable = cmd[c].repeatable
        BY <1>2 DEF Reserved, CommandRows
      <3> QED
        BY <3>1, <3>2
    <2>4. k \in Attempts /\ k <= cmd[c].max
      BY <1>1, <1>2, BoundsAssumption DEF RowOK, CommandRows, Attempts
    <2>5. k \notin Sent(c)
      BY <1>2 DEF RowOK, CommandRows, Attempts
    <2>6. \A j \in Sent(c) : j <= k
      BY <1>2 DEF RowOK, CommandRows, Attempts
    <2>7. cmd[c].repeatable \/ Sent(c) = {}
      BY <1>1, <1>2 DEF RowOK
    <2>8. n.sending = FALSE
      BY <1>2 DEF Reserved, CommandRows
    <2> HIDE DEF n, k
    <2>9. RowOK(n, Sent(c)')
      BY <1>1, <1>2, <2>2, <2>3, <2>4, <2>6, <2>7, <2>8 DEF RowOK, Attempts
    <2>10. /\ cmd' \in [Commands -> CommandRows]
           /\ cmd'[c] = n
           /\ \A d \in Commands \ {c} : cmd'[d] = cmd[d]
           /\ RowsOK'
      BY <2>1, <2>2, <2>3, <2>9, RowsExceptOne
    <2>11. TypeOK'
      BY <1>1, <2>1, <2>4, <2>10 DEF DeliveryInv, TypeOK
    <2>12. PICK kk \in Attempts : kk = k
      BY <2>4
    <2>13. WorksOn(c, kk)'
      BY <2>1, <2>2, <2>3, <2>5, <2>10, <2>12 DEF WorksOn
    <2>14. WorkOK'
      BY <2>13 DEF WorkOK
    <2>15. FinalStay
      BY <1>1, <2>10 DEF FinalStay, Final
    <2> QED
      BY <2>10, <2>11, <2>14, <2>15 DEF StepOK, DeliveryInv
  <1> QED
    BY <1>3, <1>4

\* A deferred command gets its attempt back: nothing was handed over for it.
LEMMA DeferStep == ASSUME DeliveryInv, RecipientBusy PROVE StepOK
  <1>1. /\ at \in Working /\ at # "sending"
        /\ run' = run /\ session' = session /\ send' = send /\ crashes' = crashes
    BY DEF RecipientBusy, Working
  <1>2. PICK c \in Commands, k \in Attempts : WorksOn(c, k)
    BY <1>1 DEF DeliveryInv, WorkOK
  <1>3. cur.c = c /\ cmd[c].attempts = k /\ k \notin Sent(c)
    BY <1>1, <1>2 DEF WorksOn
  <1>4. cmd[c] \in CommandRows /\ RowOK(cmd[c], Sent(c)) /\ Sent(c) \in SUBSET Attempts
    BY RowFacts
  <1>5. Surroundings
    BY <1>1 DEF Surroundings, DeliveryInv, TypeOK
  <1>6. CASE Catch
    BY <1>1, <1>5, <1>6, CatchKeeps, FrameStep
  <1>7. CASE ~Catch
    <2>1. cmd' = [cmd EXCEPT ![c] = deferCommand(cmd[c])] /\ at' = "reserve" /\ cur' = NoWork
      BY <1>3, <1>7 DEF RecipientBusy
    <2>2. WorkGoesOn
      BY <2>1 DEF WorkGoesOn, Working, NoWork
    <2>3. CASE cmd[c].state # "dispatching" \/ cmd[c].sending
      <3>1. deferCommand(cmd[c]) = cmd[c]
        BY <2>3 DEF deferCommand
      <3>2. Keeps(cmd[c], deferCommand(cmd[c]), Sent(c))
        BY <1>4, <3>1, SameKeeps
      <3> QED
        BY <1>1, <1>5, <2>1, <2>2, <3>2, OneRow, FrameStep
    <2>4. CASE ~(cmd[c].state # "dispatching" \/ cmd[c].sending)
      <3> DEFINE n == [Requeued(cmd[c], FALSE) EXCEPT !.attempts = @ - 1]
      <3>1. deferCommand(cmd[c]) = n
        BY <2>4 DEF deferCommand
      <3>2. /\ n.state = "queued" /\ n.attempts = k - 1 /\ n.max = cmd[c].max
            /\ n.run = cmd[c].run /\ n.repeatable = cmd[c].repeatable
        BY <1>3, <1>4 DEF Requeued, CommandRows
      <3>3. n \in CommandRows
        <4>1. "queued" \in States \cup {"none", "deleted"} /\ k - 1 \in Nat
          BY BoundsAssumption DEF States, Open, Attempts
        <4>2. Requeued(cmd[c], FALSE) \in CommandRows
          BY <1>4, <4>1 DEF Requeued, CommandRows
        <4>3. Requeued(cmd[c], FALSE).attempts = k
          BY <1>3, <1>4 DEF Requeued, CommandRows
        <4> QED
          BY <4>1, <4>2, <4>3 DEF CommandRows
      <3>4. \A d \in Commands : Sent(d)' = Sent(d)
        BY <1>1 DEF Sent
      <3>5. \A j \in Sent(c) : j <= k - 1
        BY <1>3, <1>4 DEF RowOK, Attempts
      <3>6. cmd[c].repeatable \/ Sent(c) = {}
        BY <1>4, <2>4 DEF RowOK
      <3>7. k - 1 < cmd[c].max /\ cmd[c].max <= MaxAttempts /\ cmd[c].run # NoRun
        BY <1>3, <1>4, <2>4 DEF RowOK, Attempts, CommandRows
      <3>8. k - 1 \in Int /\ cmd[c].max \in Int
        BY <1>4 DEF Attempts, CommandRows
      <3> HIDE DEF n
      <3>9. RowOK(n, Sent(c)')
        BY <3>2, <3>4, <3>5, <3>6, <3>7, <3>8 DEF RowOK
      <3>10. /\ cmd' \in [Commands -> CommandRows]
             /\ cmd'[c] = n
             /\ \A d \in Commands \ {c} : cmd'[d] = cmd[d]
             /\ RowsOK'
        BY <2>1, <3>1, <3>3, <3>4, <3>9, RowsExceptOne
      <3>11. TypeOK'
        BY <1>1, <1>5, <2>2, <3>10 DEF DeliveryInv, TypeOK, Surroundings, WorkGoesOn
      <3>12. WorkOK'
        BY <2>1 DEF WorkOK, Working
      <3>13. FinalStay
        BY <2>4, <3>10 DEF FinalStay, Final
      <3> QED
        BY <3>10, <3>11, <3>12, <3>13 DEF StepOK, DeliveryInv
    <2> QED
      BY <2>3, <2>4
  <1> QED
    BY <1>6, <1>7

\* The handover: a side effect that was handed over before is not reserved
\* again, so this is its first.
LEMMA HandOverStep == ASSUME DeliveryInv, markSendStarted PROVE StepOK
  <1>1. /\ at = "probing" /\ at \in Working
        /\ run' = run /\ session' = session /\ crashes' = crashes
    BY DEF markSendStarted, Working
  <1>2. PICK c \in Commands, k \in Attempts : WorksOn(c, k)
    BY <1>1 DEF DeliveryInv, WorkOK
  <1>3. cur.c = c /\ cur.k = k /\ cur = [c |-> c, k |-> k] /\ cmd[c].attempts = k /\ k \notin Sent(c)
    BY <1>1, <1>2 DEF WorksOn
  <1>4. cmd[c] \in CommandRows /\ RowOK(cmd[c], Sent(c)) /\ Sent(c) \in SUBSET Attempts
    BY RowFacts
  <1>5. Surroundings
    BY <1>1 DEF Surroundings, DeliveryInv, TypeOK
  <1>6. CASE Catch /\ send' = send
    BY <1>1, <1>5, <1>6, CatchKeeps, FrameStep
  <1>7. CASE ~(Catch /\ send' = send)
    <2> DEFINE n == [cmd[c] EXCEPT !.sending = TRUE]
    <2>1. /\ cmd[c].state = "dispatching" /\ ~cmd[c].sending
          /\ cmd' = [cmd EXCEPT ![c].sending = TRUE]
          /\ send' = [send EXCEPT ![c][k] = "flying"]
          /\ at' = "sending" /\ cur' = cur
      BY <1>3, <1>7 DEF markSendStarted
    <2>2. cmd' = [cmd EXCEPT ![c] = n]
      BY <2>1 DEF DeliveryInv, TypeOK
    <2>3. n \in CommandRows
      BY <1>4 DEF CommandRows
    <2>4. /\ n.state = "dispatching" /\ n.attempts = k /\ n.max = cmd[c].max
          /\ n.run = cmd[c].run /\ n.repeatable = cmd[c].repeatable
      BY <1>3, <1>4, <2>1 DEF CommandRows
    <2>5. n.sending = TRUE
      BY <1>4 DEF CommandRows
    <2>6. Sent(c)' = Sent(c) \cup {k} /\ \A d \in Commands \ {c} : Sent(d)' = Sent(d)
      BY <2>1 DEF Sent, DeliveryInv, TypeOK
    <2>7. send' \in [Commands -> [Attempts -> {"none", "flying", "landed", "answered"}]]
      BY <2>1 DEF DeliveryInv, TypeOK
    <2>8. cmd[c].repeatable \/ Sent(c) = {}
      BY <1>4, <2>1 DEF RowOK
    <2>9. k <= cmd[c].max /\ cmd[c].max <= MaxAttempts /\ cmd[c].run # NoRun
          /\ k >= 1 /\ \A j \in Sent(c) : j <= k
      BY <1>3, <1>4, <2>1 DEF RowOK, Attempts
    <2> HIDE DEF n
    <2>10. RowOK(n, Sent(c)')
      BY <2>4, <2>5, <2>6, <2>8, <2>9 DEF RowOK, Attempts
    <2>11. /\ cmd' \in [Commands -> CommandRows]
           /\ cmd'[c] = n
           /\ \A d \in Commands \ {c} : cmd'[d] = cmd[d]
           /\ RowsOK'
      BY <2>2, <2>3, <2>6, <2>10, RowsExceptOne
    <2>12. TypeOK'
      BY <1>5, <2>1, <2>7, <2>11 DEF DeliveryInv, TypeOK, Surroundings
    <2>13. WorksOn(c, k)'
      BY <1>3, <2>1, <2>4, <2>11 DEF WorksOn
    <2>14. WorkOK'
      BY <2>13 DEF WorkOK
    <2>15. FinalStay
      BY <2>1, <2>11 DEF FinalStay, Final
    <2> QED
      BY <2>11, <2>12, <2>14, <2>15 DEF StepOK, DeliveryInv
  <1> QED
    BY <1>6, <1>7

-----------------------------------------------------------------------------
(* The theorems.                                                           *)

\* Every step keeps the invariant and the settled commands.
LEMMA EveryStep == ASSUME DeliveryInv, [Next]_vars PROVE StepOK
  <1>1. CASE UNCHANGED vars
    <2>1. KeepsAll
      BY <1>1, NoRow DEF vars
    <2>2. WorkGoesOn /\ Surroundings /\ send' = send
      BY <1>1 DEF vars, WorkGoesOn, Working, Surroundings, DeliveryInv, TypeOK
    <2> QED
      BY <2>1, <2>2, FrameStep
  <1>2. CASE Next
    BY <1>2, DispatcherSteps, EnvironmentSteps, AckSteps, ProviderSteps, EnqueueStep,
       ReserveStep, DeferStep, HandOverStep DEF Next
  <1> QED
    BY <1>1, <1>2

\* The inductive invariant of command delivery.
THEOREM DeliveryInvariance == Spec => []DeliveryInv
  <1>1. DeliveryInv /\ [Next]_vars => DeliveryInv'
    BY EveryStep DEF StepOK
  <1> QED
    BY DeliveryInit, <1>1, PTL DEF Spec

\* The rows of the commands table keep their type.
THEOREM DeliveryTypeCorrect == Spec => []TypeOK
  <1>1. DeliveryInv => TypeOK
    BY DEF DeliveryInv
  <1> QED
    BY DeliveryInvariance, <1>1, PTL

\* A command with a side effect is handed to the provider at most once.
THEOREM AtMostOnce == Spec => []SideEffectsSentOnce
  <1>1. DeliveryInv => SideEffectsSentOnce
    BY DEF DeliveryInv, RowsOK, RowOK, SideEffectsSentOnce
  <1> QED
    BY DeliveryInvariance, <1>1, PTL

\* max_attempts bounds the attempts, and the attempts number the handovers.
THEOREM AttemptsBoundSends == Spec => []SendsArePaid
  <1>1. DeliveryInv => SendsArePaid
    BY DEF DeliveryInv, RowsOK, RowOK, SendsArePaid
  <1> QED
    BY DeliveryInvariance, <1>1, PTL

\* Only what was never handed over fails on the coordinator's own account,
\* and only what was handed over is unknown.
THEOREM HonestOutcomes == Spec => []UncertaintyIsHonest
  <1>1. DeliveryInv => UncertaintyIsHonest
    BY DEF DeliveryInv, RowsOK, RowOK, UncertaintyIsHonest
  <1> QED
    BY DeliveryInvariance, <1>1, PTL

\* No late answer, frame or sweep moves a settled command.
THEOREM SettledForGood == Spec => SettledStaysSettled
  <1>1. DeliveryInv /\ [Next]_vars =>
          [\A c \in Commands : cmd[c].state \in Final =>
               cmd'[c].state \in {cmd[c].state, "deleted"}]_vars
    BY EveryStep DEF StepOK, FinalStay
  <1> QED
    BY DeliveryInvariance, <1>1, PTL DEF Spec, SettledStaysSettled
=============================================================================
