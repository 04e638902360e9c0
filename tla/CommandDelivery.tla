--------------------------- MODULE CommandDelivery ---------------------------
(***************************************************************************)
(* Durable commands to structured worker sessions (lib/commandDelivery.ts) *)
(* and the transport the coordinator gives them (coordinator.ts).          *)
(*                                                                         *)
(* A command is a row of events.db.  The CommandDispatcher of the one      *)
(* coordinator process reserves it, asks the provider whether it is alive  *)
(* and hands it over.  The dispatcher yields only at its two awaits, where *)
(* the sweep timer, acknowledgements and new commands come in; the run and *)
(* the session may end at any time.  An operation that bounded() gave up   *)
(* on goes on: what was handed over may still land, and be answered.       *)
(*                                                                         *)
(* Commands are numbered in the order they are queued.  Queueing one again *)
(* under its idempotency key returns it unchanged.                         *)
(***************************************************************************)
EXTENDS Integers

CONSTANTS
    Runs,         \* runs whose worker has a structured session
    Requests,     \* what callers ask for: repeatable, max attempts, deadline
    MaxCommands,  \* bound: how many commands are queued
    MaxAttempts,  \* bound: the largest max_attempts asked for
    MaxCrashes,   \* bound: how often the coordinator dies
    NoRun

ASSUME RunsAssumption == NoRun \notin Runs
ASSUME BoundsAssumption ==
    MaxCommands \in Nat /\ MaxAttempts \in Nat \ {0} /\ MaxCrashes \in Nat
ASSUME RequestsAssumption ==
    Requests \subseteq
        [repeatable : BOOLEAN, max : 1 .. MaxAttempts, deadline : {"none", "ahead"}]

VARIABLES
    run,      \* events.db runs: whether each run is active, ended or deleted
    session,  \* events.db sessions: whether the run's session is running
    cmd,      \* events.db commands
    send,     \* what became of each attempt handed to the provider
    at,       \* where the dispatcher is
    cur,      \* the command and attempt it is working on
    crashes   \* deaths of the coordinator so far

vars == <<run, session, cmd, send, at, cur, crashes>>

Commands == 1 .. MaxCommands
Attempts == 1 .. MaxAttempts

\* reserveCommand orders by these; reconcileCommands looks at the open ones.
Final == {"completed", "failed", "cancelled"}
Open == {"queued", "dispatching", "sent", "accepted", "running"}
States == Open \cup Final \cup {"outcome_unknown"}

\* sending is send_started_at, stalled that dispatch_started_at is 30 s old,
\* ready that next_attempt_at has come, acked that acknowledged_at is set;
\* resolved remembers an operator's resolveUnknownCommand.
CommandRows ==
    [state : States \cup {"none", "deleted"}, run : Runs \cup {NoRun}, repeatable : BOOLEAN,
     max : Nat, attempts : Nat, deadline : {"none", "ahead", "passed"},
     sending : BOOLEAN, stalled : BOOLEAN, ready : BOOLEAN, acked : BOOLEAN, resolved : BOOLEAN]

NoCommand ==
    [state |-> "none", run |-> NoRun, repeatable |-> FALSE, max |-> 0, attempts |-> 0,
     deadline |-> "none", sending |-> FALSE, stalled |-> FALSE, ready |-> FALSE,
     acked |-> FALSE, resolved |-> FALSE]

NoWork == [c |-> 0, k |-> 0]

\* The dispatcher is not in the middle of a synchronous stretch.
Yields == at \in {"idle", "probing", "sending"}

Sent(c) == {k \in Attempts : send[c][k] # "none"}
Landed(c) == {k \in Attempts : send[c][k] \in {"landed", "answered"}}
Deliverable(m) == run[m.run] = "active" /\ session[m.run] = "running"

Init ==
    /\ run = [r \in Runs |-> "active"]
    /\ session = [r \in Runs |-> "running"]
    /\ cmd = [c \in Commands |-> NoCommand]
    /\ send = [c \in Commands |-> [k \in Attempts |-> "none"]]
    /\ at = "idle"
    /\ cur = NoWork
    /\ crashes = 0

-----------------------------------------------------------------------------
(* What each transaction makes of a command's row.                         *)

\* What is read only while a command is dispatching is forgotten with it.
Transition(m, state) == [m EXCEPT !.state = state, !.sending = FALSE, !.stalled = FALSE]
Requeued(m, ready) == [m EXCEPT !.state = "queued", !.stalled = FALSE, !.ready = ready]

Reserved(m) ==
    [m EXCEPT !.state = "dispatching", !.attempts = @ + 1, !.sending = FALSE, !.ready = FALSE]

\* Nothing was sent, so the attempt is given back.
deferCommand(m) ==
    IF m.state # "dispatching" \/ m.sending THEN m
    ELSE [Requeued(m, FALSE) EXCEPT !.attempts = @ - 1]

markSent(m) == IF m.state # "dispatching" \/ ~m.sending THEN m ELSE Transition(m, "sent")

\* Mutant: a send of unknown outcome is tried again.
RetriesUncertain(m) ==
    IF m.state # "dispatching" THEN m
    ELSE IF m.attempts >= m.max THEN Transition(m, "failed")
    ELSE Requeued(m, FALSE)

failTransport(m) ==
    IF m.state # "dispatching" THEN m
    ELSE IF m.sending /\ ~m.repeatable THEN Transition(m, "outcome_unknown")
    ELSE IF m.attempts >= m.max THEN Transition(m, "failed")
    ELSE Requeued(m, FALSE)

\* Mutant: an interrupted send is reported as failed.
FailsInterrupted(m) ==
    LET exited == ~Deliverable(m)
        timedOut == m.deadline = "passed"
        stalled == m.state = "dispatching" /\ m.stalled
    IN
    IF m.state \notin Open \/ ~(exited \/ timedOut \/ stalled) THEN m
    ELSE IF m.state = "dispatching" /\ ~exited /\ ~timedOut /\ m.attempts < m.max /\ ~m.sending
    THEN Requeued(m, TRUE)
    ELSE Transition(m, "failed")

\* Mutant: a reservation that was cut off is left alone.
IgnoresStalled(m) ==
    IF m.state \notin Open \/ (Deliverable(m) /\ m.deadline # "passed") THEN m
    ELSE IF m.state = "queued" \/ (m.state = "dispatching" /\ ~m.sending) \/ m.repeatable
    THEN Transition(m, "failed")
    ELSE Transition(m, "outcome_unknown")

\* Mutant: commands of a run that ended are left alone.
IgnoresEndedRuns(m) ==
    IF m.state # "dispatching" \/ ~m.stalled THEN m
    ELSE IF m.sending /\ ~m.repeatable THEN Transition(m, "outcome_unknown")
    ELSE IF m.attempts >= m.max THEN Transition(m, "failed")
    ELSE Requeued(m, TRUE)

\* What reconcileCommands makes of one command.
Reconciled(m) ==
    LET exited == ~Deliverable(m)
        timedOut == m.deadline = "passed"
        stalled == m.state = "dispatching" /\ m.stalled
        lost == exited \/ timedOut \/ m.attempts >= m.max
    IN
    IF m.state \notin Open \/ ~(exited \/ timedOut \/ stalled) THEN m
    ELSE IF m.state = "queued" \/ (m.state = "dispatching" /\ ~m.sending)
    THEN IF lost THEN Transition(m, "failed") ELSE Requeued(m, TRUE)
    ELSE IF ~m.repeatable THEN Transition(m, "outcome_unknown")
    ELSE IF m.state = "dispatching" /\ ~lost THEN Requeued(m, TRUE)
    ELSE Transition(m, "failed")

reconcileCommands == [c \in Commands |-> Reconciled(cmd[c])]

ACK_ALLOWED(state) ==
    CASE state = "accepted" -> {"dispatching", "sent", "outcome_unknown"}
      [] state = "running" -> {"accepted"}
      [] OTHER -> {"accepted", "running"}

CanAck(m, state) ==
    m.state \in ACK_ALLOWED(state) /\ ~(m.state = "dispatching" /\ ~m.sending)
applyAck(m, state) == [Transition(m, state) EXCEPT !.acked = TRUE]

ACK_RANK(state) ==
    CASE state \in Final -> 3 [] state = "running" -> 2 [] state = "accepted" -> 1 [] OTHER -> 0

\* A frame about a command that is not out any more is refused.
RuntimeMayAck(m) ==
    m.state \notin {"none", "deleted", "queued"} /\ ~(m.state = "dispatching" /\ ~m.sending)

\* A state at or behind the command's own changes nothing; one ahead passes
\* through accepted.
acknowledgeFromRuntime(m, state) ==
    IF ACK_RANK(m.state) >= ACK_RANK(state) THEN m ELSE applyAck(m, state)

-----------------------------------------------------------------------------
(* CommandDispatcher.tick                                                  *)

\* The catch block.  The row of a cancelled run is gone: the error leaves
\* tick, and unless deliver() awaits it the coordinator shuts down.
Catch ==
    /\ IF cmd[cur.c].state = "deleted"
       THEN cmd' = cmd /\ at' \in {"idle", "down"}
       ELSE cmd' = [cmd EXCEPT ![cur.c] = failTransport(@)] /\ at' = "reserve"
    /\ cur' = NoWork

Tick ==
    /\ at = "idle"
    /\ cmd' = reconcileCommands
    /\ at' = "reserve"
    /\ UNCHANGED <<run, session, send, cur, crashes>>

\* The timer sweeps while a tick waits for the provider.
Sweep ==
    /\ at \in {"probing", "sending"}
    /\ cmd' = reconcileCommands
    /\ UNCHANGED <<run, session, send, at, cur, crashes>>

Due == {c \in Commands : cmd[c].state = "queued" /\ cmd[c].ready}

NothingDue ==
    /\ at = "reserve"
    /\ Due = {}
    /\ at' = "idle"
    /\ UNCHANGED <<run, session, cmd, send, cur, crashes>>

reserveCommand(c) ==
    /\ at = "reserve"
    /\ c \in Due
    /\ \A d \in Due : c <= d
    /\ IF cmd[c].deadline = "passed"
       THEN /\ cmd' = [cmd EXCEPT ![c] = Transition(@, "failed")]
            /\ UNCHANGED <<at, cur>>
       ELSE /\ cmd' = [cmd EXCEPT ![c] = Reserved(@)]
            /\ at' = "asking"
            /\ cur' = [c |-> c, k |-> cmd[c].attempts + 1]
    /\ UNCHANGED <<run, session, send, crashes>>

\* isBusy: a turn is running.  deferCommand looks for the row first.
RecipientBusy ==
    /\ at = "asking"
    /\ IF cmd[cur.c].state = "deleted" THEN Catch
       ELSE /\ cmd' = [cmd EXCEPT ![cur.c] = deferCommand(@)]
            /\ at' = "reserve"
            /\ cur' = NoWork
    /\ UNCHANGED <<run, session, send, crashes>>

RecipientFree ==
    /\ at = "asking"
    /\ at' = "probing"
    /\ UNCHANGED <<run, session, cmd, send, cur, crashes>>

\* isAlive says no, throws or takes longer than operationTimeoutMs, or the
\* recipient is not the agent's current structured session.
RecipientLost ==
    /\ at \in {"asking", "probing"}
    /\ Catch
    /\ UNCHANGED <<run, session, send, crashes>>

\* isAlive says yes, and markSendStarted looks again at what the await may
\* have changed before the command is handed over.
markSendStarted ==
    LET m == cmd[cur.c] IN
    /\ at = "probing"
    /\ IF m.state = "dispatching" /\ ~m.sending /\ Deliverable(m)
       THEN /\ cmd' = [cmd EXCEPT ![cur.c].sending = TRUE]
            /\ send' = [send EXCEPT ![cur.c][cur.k] = "flying"]
            /\ at' = "sending"
            /\ UNCHANGED cur
       ELSE Catch /\ UNCHANGED send
    /\ UNCHANGED <<run, session, crashes>>

\* submit() resolves: the transport records accepted and tick marks it sent.
\* After bounded() has given up only the first of these still happens.
ProviderAnswers(c, k) ==
    LET m == cmd[c]
        mine == at = "sending" /\ cur = [c |-> c, k |-> k]
    IN
    /\ Yields
    /\ send[c][k] = "landed"
    /\ send' = [send EXCEPT ![c][k] = "answered"]
    /\ \/ mine /\ ~RuntimeMayAck(m) /\ Catch
       \/ /\ mine /\ RuntimeMayAck(m)
          /\ cmd' = [cmd EXCEPT ![c] = markSent(acknowledgeFromRuntime(m, "accepted"))]
          /\ at' = "reserve"
          /\ cur' = NoWork
       \/ /\ ~mine
          /\ cmd' = IF RuntimeMayAck(m)
                    THEN [cmd EXCEPT ![c] = acknowledgeFromRuntime(m, "accepted")] ELSE cmd
          /\ UNCHANGED <<at, cur>>
    /\ UNCHANGED <<run, session, crashes>>

\* submit() rejects or takes longer than operationTimeoutMs.
SendFails ==
    /\ at = "sending"
    /\ Catch
    /\ UNCHANGED <<run, session, send, crashes>>

-----------------------------------------------------------------------------
(* Requests and events handled between awaits.                             *)

enqueueCommand(c, r, input) ==
    /\ Yields
    /\ run[r] = "active" /\ session[r] = "running"
    /\ cmd[c].state = "none" /\ \A d \in Commands : d < c => cmd[d].state # "none"
    /\ cmd' = [cmd EXCEPT ![c] = [NoCommand EXCEPT !.state = "queued", !.run = r,
                                      !.repeatable = input.repeatable, !.max = input.max,
                                      !.deadline = input.deadline, !.ready = TRUE]]
    /\ UNCHANGED <<run, session, send, at, cur, crashes>>

\* turn_started, turn_completed, turn_failed and turn_interrupted frames,
\* late, twice or before the answer to turn/start.
onRuntimeEvent(c, state) ==
    /\ Yields
    /\ Landed(c) # {}
    /\ RuntimeMayAck(cmd[c])
    /\ cmd' = [cmd EXCEPT ![c] = acknowledgeFromRuntime(@, state)]
    /\ UNCHANGED <<run, session, send, at, cur, crashes>>

\* The recipient's own session, through the control API.
acknowledgeCommand(c, state) ==
    /\ Yields
    /\ Landed(c) # {}
    /\ CanAck(cmd[c], state)
    /\ session[cmd[c].run] = "running"
    /\ cmd' = [cmd EXCEPT ![c] = applyAck(@, state)]
    /\ UNCHANGED <<run, session, send, at, cur, crashes>>

resolveUnknownCommand(c, outcome) ==
    /\ Yields
    /\ cmd[c].state = "outcome_unknown"
    /\ cmd' = [cmd EXCEPT ![c] = [Transition(@, outcome) EXCEPT !.resolved = TRUE]]
    /\ UNCHANGED <<run, session, send, at, cur, crashes>>

-----------------------------------------------------------------------------
(* The environment: the provider, the run, the session, time, crashes.     *)

ProviderTakes(c, k) ==
    /\ send[c][k] = "flying"
    /\ send' = [send EXCEPT ![c][k] = "landed"]
    /\ UNCHANGED <<run, session, cmd, at, cur, crashes>>

RunEnds(r) ==
    /\ run[r] = "active"
    /\ run' = [run EXCEPT ![r] = "ended"]
    /\ UNCHANGED <<session, cmd, send, at, cur, crashes>>

\* cancelTask deletes the claim; the foreign key takes its commands along.
RunDeleted(r) ==
    /\ run[r] = "active"
    /\ run' = [run EXCEPT ![r] = "deleted"]
    /\ cmd' = [c \in Commands |-> IF cmd[c].run = r THEN Transition(cmd[c], "deleted") ELSE cmd[c]]
    /\ UNCHANGED <<session, send, at, cur, crashes>>

\* setSessionState: the session is offline, recoverable or unknown.
SessionLeaves(r) ==
    /\ session[r] = "running"
    /\ session' = [session EXCEPT ![r] = "away"]
    /\ UNCHANGED <<run, cmd, send, at, cur, crashes>>

\* A coordinator that starts adopts a session that is alive and writable.
SessionAdopted(r) ==
    /\ session[r] = "away"
    /\ session' = [session EXCEPT ![r] = "running"]
    /\ UNCHANGED <<run, cmd, send, at, cur, crashes>>

DeadlinePasses(c) ==
    /\ cmd[c].state \in Open
    /\ cmd[c].deadline = "ahead"
    /\ cmd' = [cmd EXCEPT ![c].deadline = "passed"]
    /\ UNCHANGED <<run, session, send, at, cur, crashes>>

DispatchStalls(c) ==
    /\ cmd[c].state = "dispatching" /\ ~cmd[c].stalled
    /\ cmd' = [cmd EXCEPT ![c].stalled = TRUE]
    /\ UNCHANGED <<run, session, send, at, cur, crashes>>

\* The backoff is far longer than a synchronous stretch of the dispatcher.
RetryComesDue(c) ==
    /\ Yields \/ at = "down"
    /\ cmd[c].state = "queued" /\ ~cmd[c].ready
    /\ cmd' = [cmd EXCEPT ![c].ready = TRUE]
    /\ UNCHANGED <<run, session, send, at, cur, crashes>>

Crash ==
    /\ at # "down"
    /\ crashes < MaxCrashes
    /\ at' = "down"
    /\ cur' = NoWork
    /\ crashes' = crashes + 1
    /\ UNCHANGED <<run, session, cmd, send>>

Restart ==
    /\ at = "down"
    /\ at' = "idle"
    /\ UNCHANGED <<run, session, cmd, send, cur, crashes>>

-----------------------------------------------------------------------------
Next ==
    \/ Tick \/ Sweep \/ NothingDue \/ RecipientBusy \/ RecipientFree \/ RecipientLost
    \/ markSendStarted \/ SendFails \/ Crash \/ Restart
    \/ \E c \in Commands :
          \/ reserveCommand(c)
          \/ \E r \in Runs, input \in Requests : enqueueCommand(c, r, input)
          \/ \E state \in {"running", "completed", "failed"} : onRuntimeEvent(c, state)
          \/ \E state \in {"accepted", "running", "completed", "failed"} :
                acknowledgeCommand(c, state)
          \/ \E outcome \in Final : resolveUnknownCommand(c, outcome)
          \/ \E k \in Attempts : ProviderAnswers(c, k) \/ ProviderTakes(c, k)
          \/ DeadlinePasses(c) \/ DispatchStalls(c) \/ RetryComesDue(c)
    \/ \E r \in Runs : RunEnds(r) \/ RunDeleted(r) \/ SessionLeaves(r) \/ SessionAdopted(r)

Spec == Init /\ [][Next]_vars

TypeOK ==
    /\ run \in [Runs -> {"active", "ended", "deleted"}]
    /\ session \in [Runs -> {"running", "away"}]
    /\ cmd \in [Commands -> CommandRows]
    /\ send \in [Commands -> [Attempts -> {"none", "flying", "landed", "answered"}]]
    /\ at \in {"idle", "reserve", "asking", "probing", "sending", "down"}
    /\ cur \in [c : Commands \cup {0}, k : Attempts \cup {0}]
    /\ crashes \in 0 .. MaxCrashes

-----------------------------------------------------------------------------
(* Safety.                                                                 *)

\* A command with a side effect is handed to the provider at most once,
\* whatever timed out, crashed or was swept in between.
SideEffectsSentOnce ==
    \A c \in Commands : \A j, k \in Sent(c) : ~cmd[c].repeatable => j = k

\* Every handover is paid for by an attempt, and max_attempts bounds them.
SendsArePaid ==
    \A c \in Commands :
        /\ cmd[c].attempts <= cmd[c].max
        /\ \A k \in Sent(c) : k <= cmd[c].attempts

\* The coordinator calls a side effect failed on its own account only if it
\* never handed it over, and unknown only if it did.
UncertaintyIsHonest ==
    \A c \in Commands : ~cmd[c].repeatable =>
        /\ cmd[c].state = "failed" /\ Sent(c) # {} => cmd[c].acked \/ cmd[c].resolved
        /\ cmd[c].state = "outcome_unknown" => Sent(c) # {}

\* A settled command stays as it is: no late answer, frame or sweep moves it.
SettledStaysSettled ==
    [][\A c \in Commands : cmd[c].state \in Final => cmd'[c].state \in {cmd[c].state, "deleted"}]_vars

-----------------------------------------------------------------------------
(* Liveness.  The timer fires, bounded() rejects in the end, and the       *)
(* dispatcher's own steps are taken, while the coordinator is up.          *)

FairSpec ==
    /\ Spec
    /\ WF_vars(Tick) /\ WF_vars(Sweep) /\ WF_vars(NothingDue) /\ WF_vars(markSendStarted)
    /\ WF_vars(RecipientBusy \/ RecipientFree \/ RecipientLost) /\ WF_vars(SendFails)
    /\ \A c \in Commands : WF_vars(reserveCommand(c)) /\ WF_vars(DispatchStalls(c))

\* A reserved command does not stay reserved, also when the coordinator died
\* with it in hand, as long as one is running.
ReservationsEnd ==
    \A c \in Commands : cmd[c].state = "dispatching" ~> cmd[c].state # "dispatching" \/ at = "down"

\* Once its run has ended, a command is settled or declared unknown.
EndedRunsSettle ==
    \A r \in Runs : \A c \in Commands :
        run[r] = "ended" /\ cmd[c].run = r ~>
            cmd[c].state \in Final \cup {"outcome_unknown"} \/ at = "down"
=============================================================================
