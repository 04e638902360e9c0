---------------------------- MODULE CodexSession ----------------------------
(***************************************************************************)
(* A worker on the structured runtime: the Codex app-server adapter        *)
(* (adapters/codexAppServer.ts) under the command dispatcher, and the      *)
(* transport and event listener between them (coordinator.ts).             *)
(*                                                                         *)
(* The worker's handle names one session object at a time: a child process *)
(* whose JSON frames the coordinator reads.  A command that is dispatched  *)
(* becomes a turn/start call; the provider answers it, and reports that    *)
(* the turn started and that it ended.  No order is promised between these *)
(* frames, so they are a set.  A turn is known by the command that really  *)
(* started it; which command the adapter takes it for is turnCommands.     *)
(*                                                                         *)
(* What follows a frame within the same job (a promise's continuations) is *)
(* part of its step.  Every command allows one attempt, as the coordinator *)
(* asks.  The rows of commands are modelled in full by CommandDelivery.    *)
(***************************************************************************)
EXTENDS Integers, FiniteSets

CONSTANTS
    MaxSessions,  \* bound: how often the worker's session is started
    MaxCommands,  \* bound: how many commands are queued
    MaxTimeouts   \* bound: how many calls and sends run out of time

ASSUME CodexAssumption ==
    MaxSessions \in Nat \ {0} /\ MaxCommands \in Nat \ {0} /\ MaxTimeouts \in Nat

VARIABLES
    object,    \* the adapter's session objects, in the order of their starts
    process,   \* whether each one's child runs
    wire,      \* frames the provider wrote and the adapter has not read
    recorded,  \* events.db: the session that is running, 0 if none
    cmd,       \* events.db commands: state and recipient session
    at,        \* the command whose send the dispatcher awaits, 0 if none
    turn,      \* what the provider made of the turn each command started
    expired    \* the commands whose turn/start ran out of time, and whether the send did

codex == <<object, process, wire, recorded, cmd, at, turn, expired>>

Starts == 1 .. MaxSessions
Commands == 1 .. MaxCommands

\* The calls of the handshake, before the session is live.
Handshake == {"initialize", "account/read", "thread/start"}

\* In the adapter's map; stop() takes it out before the child is gone.
Mapped == Handshake \cup {"live", "exited"}

SessionObjects ==
    [phase : Mapped \cup {"none", "stopping", "hung", "gone"},
     activeTurnId : Commands \cup {0}, submitting : Commands \cup {0},
     pending : Commands \cup {0}, turnCommands : [Commands -> Commands \cup {0}],
     finishedTurns : SUBSET Commands]

NewSession ==
    [phase |-> "initialize", activeTurnId |-> 0, submitting |-> 0, pending |-> 0,
     turnCommands |-> [t \in Commands |-> 0], finishedTurns |-> {}]

Frames == [kind : {"answer", "error", "started", "ended"}, turn : Commands]
Frame(kind, t) == [kind |-> kind, turn |-> t]

Final == {"completed", "failed"}
CommandStates == Final \cup {"none", "queued", "dispatching", "accepted", "running", "outcome_unknown"}

\* The provider is at work on the turn, or has ended it; a turn that failed
\* is treated like one that was interrupted.
Ended == {"completed", "interrupted"}
Working == {"asked", "running"}

CodexTypeOK ==
    /\ object \in [Starts -> SessionObjects]
    /\ process \in [Starts -> {"none", "up", "down"}]
    /\ wire \in [Starts -> SUBSET Frames]
    /\ recorded \in Starts \cup {0}
    /\ cmd \in [Commands -> [state : CommandStates, home : Starts \cup {0}]]
    /\ at \in Commands \cup {0}
    /\ turn \in [Commands -> Ended \cup Working \cup {"none", "refused", "cut"}]
    /\ expired \in [call : SUBSET Commands, send : SUBSET Commands]

CodexInit ==
    /\ object = [s \in Starts |-> [NewSession EXCEPT !.phase = "none"]]
    /\ process = [s \in Starts |-> "none"]
    /\ wire = [s \in Starts |-> {}]
    /\ recorded = 0
    /\ cmd = [c \in Commands |-> [state |-> "none", home |-> 0]]
    /\ at = 0
    /\ turn = [c \in Commands |-> "none"]
    /\ expired = [call |-> {}, send |-> {}]

-----------------------------------------------------------------------------
(* The rows of commands, as far as this transport moves them.              *)

ACK_RANK ==
    [queued |-> 0, dispatching |-> 0, outcome_unknown |-> 0, accepted |-> 1, running |-> 2,
     completed |-> 3, failed |-> 3]

\* Acknowledgements only move a command on, and pass over what they imply.
acknowledgeFromRuntime(c, state) ==
    IF cmd[c].state = "queued" \/ ACK_RANK[cmd[c].state] >= ACK_RANK[state] THEN cmd
    ELSE [cmd EXCEPT ![c].state = state]

\* The attempt was counted and was the only one: what was not yet handed
\* over has failed, of the rest the outcome is unknown.
failTransport(c, sending) ==
    IF cmd[c].state # "dispatching" THEN cmd
    ELSE [cmd EXCEPT ![c].state = IF sending THEN "outcome_unknown" ELSE "failed"]

\* The listener of turn events: the command must be the current session's.
onRuntimeEvent(c, state) ==
    IF c = 0 \/ recorded = 0 THEN cmd
    ELSE IF cmd[c].home # recorded THEN cmd
    ELSE acknowledgeFromRuntime(c, state)

-----------------------------------------------------------------------------
(* The adapter's session object.                                           *)

\* The first time a turn is heard of it goes to the submission in flight.
claimTurn(o, t) ==
    IF o.turnCommands[t] = 0 THEN [o EXCEPT !.turnCommands[t] = o.submitting] ELSE o

\* Mutant: a late turn/started reopens a turn that has ended.
ReopensTurn(o, t) == [o EXCEPT !.activeTurnId = t]

\* A turn that has ended is not made the active one again.
Opens(o, t) == IF t \in o.finishedTurns THEN o ELSE [o EXCEPT !.activeTurnId = t]

Ends(o, t) ==
    [o EXCEPT !.finishedTurns = @ \cup {t},
              !.activeTurnId = IF @ = t THEN 0 ELSE @]

turnActive(o) == o.phase = "live" /\ (o.activeTurnId # 0 \/ o.submitting # 0)

\* inspectSession: a session that was taken out of the map is looked for by
\* the process its record names.
heartbeatProbe(s) ==
    IF object[s].phase \in Mapped THEN object[s].phase # "exited" ELSE process[s] = "up"

\* A start first stops what the handle still names, and waits for its exit.
\* What the coordinator awaits is over: no other start is under way.
start(s) ==
    /\ object[s].phase = "none"
    /\ \A r \in Starts : r < s => object[r].phase \in {"exited", "gone"}
    /\ recorded = 0
    /\ object' = [object EXCEPT ![s] = NewSession]
    /\ process' = [process EXCEPT ![s] = "up"]
    /\ UNCHANGED <<wire, recorded, cmd, at, turn, expired>>

\* The binary cannot be run.  The handshake fails with the spawn's error, and
\* stop() waits for an exit event that a child without a process never emits.
SpawnFails(s) ==
    /\ object[s].phase = "initialize"
    /\ object' = [object EXCEPT ![s].phase = "hung"]
    /\ process' = [process EXCEPT ![s] = "down"]
    /\ UNCHANGED <<wire, recorded, cmd, at, turn, expired>>

\* initialize, then the account must be a subscription's, then the thread.
HandshakeCall(s) ==
    /\ process[s] = "up"
    /\ \/ /\ object[s].phase = "initialize"
          /\ object' = [object EXCEPT ![s].phase = "account/read"]
       \/ /\ object[s].phase = "account/read"
          /\ object' = [object EXCEPT ![s].phase = "thread/start"]
    /\ UNCHANGED <<process, wire, recorded, cmd, at, turn, expired>>

\* The thread is there and start() returns; the launch records the session,
\* unless its run was cancelled meanwhile.
recordProviderSession(s) ==
    /\ process[s] = "up"
    /\ object[s].phase = "thread/start"
    /\ object' = [object EXCEPT ![s].phase = "live"]
    /\ recorded' \in {s, recorded}
    /\ UNCHANGED <<process, wire, cmd, at, turn, expired>>

\* An error, a timeout, no subscription, no thread id; or the session is no
\* longer needed.  The object leaves the map and the child is told to end.
stop(s) ==
    /\ object[s].phase \in Handshake \cup {"live"}
    /\ object' = [object EXCEPT ![s].phase = "stopping"]
    /\ UNCHANGED <<process, wire, recorded, cmd, at, turn, expired>>

\* The child ends, asked to or not: what it was working on is cut off.
ProcessEnds(s) ==
    /\ process[s] = "up"
    /\ process' = [process EXCEPT ![s] = "down"]
    /\ turn' = [t \in Commands |->
                  IF cmd[t].home = s /\ turn[t] \in Working THEN "cut" ELSE turn[t]]
    /\ UNCHANGED <<object, wire, recorded, cmd, at, expired>>

\* The exit event: the calls in flight are rejected, and with them the send
\* that waits for one.  Frames that were written before can still be read.
onExit(s) ==
    LET o == object[s]
        c == o.pending
    IN
    /\ process[s] = "down"
    /\ o.phase \in Handshake \cup {"live", "stopping"}
    /\ object' = [object EXCEPT ![s] = [o EXCEPT !.phase = "exited", !.activeTurnId = 0,
                                                   !.pending = 0, !.submitting = 0]]
    /\ IF c # 0 /\ at = c
       THEN /\ cmd' = failTransport(c, TRUE)
            /\ at' = 0
       ELSE UNCHANGED <<cmd, at>>
    /\ UNCHANGED <<process, wire, recorded, turn, expired>>

\* The coordinator finds the session gone, or closes it once it is stopped.
SessionLost(s) ==
    /\ recorded = s
    /\ ~heartbeatProbe(s)
    /\ recorded' = 0
    /\ UNCHANGED <<object, process, wire, cmd, at, turn, expired>>

\* The coordinator dies: its objects are lost, nobody reads the frames, and
\* the child's closed stdin ends it.  The next coordinator takes the session
\* for recoverable or offline before it dispatches.
Crash ==
    /\ recorded # 0
    /\ object' = [s \in Starts |->
                     IF object[s].phase = "none" THEN object[s]
                     ELSE [NewSession EXCEPT !.phase = "gone"]]
    /\ process' = [s \in Starts |-> IF process[s] = "up" THEN "down" ELSE process[s]]
    /\ wire' = [s \in Starts |-> {}]
    /\ recorded' = 0
    /\ at' = 0
    /\ turn' = [t \in Commands |-> IF turn[t] \in Working THEN "cut" ELSE turn[t]]
    /\ UNCHANGED <<cmd, expired>>

-----------------------------------------------------------------------------
(* Commands.                                                               *)

\* A message for the session's run is queued.
deliverStructured(c) ==
    /\ recorded # 0
    /\ cmd[c].state = "none"
    /\ \A b \in Commands : b < c => cmd[b].state # "none"
    /\ cmd' = [cmd EXCEPT ![c] = [state |-> "queued", home |-> recorded]]
    /\ UNCHANGED <<object, process, wire, recorded, at, turn, expired>>

\* The sweep: the recipient's session is no longer the running one.
reconcileCommands(c) ==
    /\ cmd[c].state \in {"queued", "dispatching", "accepted", "running"}
    /\ cmd[c].home # recorded
    /\ cmd' = [cmd EXCEPT ![c].state = IF @ = "queued" THEN "failed" ELSE "outcome_unknown"]
    /\ UNCHANGED <<object, process, wire, recorded, at, turn, expired>>

\* What submit() does to the object and to the provider's input.
submit(s, c) ==
    /\ object' = [object EXCEPT ![s].submitting = c, ![s].pending = c]
    /\ turn' = [turn EXCEPT ![c] = IF process[s] = "up" THEN "asked" ELSE "cut"]

\* Only the session that is recorded as running is written to.
assertSessionWritable(s) == s = recorded

\* A command whose recipient is in the middle of a turn goes back to the
\* queue.  Otherwise it is sent, if the session is alive; a session that is
\* being stopped still looks alive and refuses the submission.
tick(c) ==
    LET s == cmd[c].home IN
    /\ at = 0
    /\ cmd[c].state = "queued"
    /\ assertSessionWritable(s)
    /\ ~turnActive(object[s])
    /\ IF ~heartbeatProbe(s)
       THEN /\ cmd' = [cmd EXCEPT ![c].state = "failed"]
            /\ UNCHANGED <<object, at, turn>>
       ELSE IF object[s].phase # "live"
       THEN /\ cmd' = [cmd EXCEPT ![c].state = "outcome_unknown"]
            /\ UNCHANGED <<object, at, turn>>
       ELSE /\ cmd' = [cmd EXCEPT ![c].state = "dispatching"]
            /\ at' = c
            /\ submit(s, c)
    /\ UNCHANGED <<process, wire, recorded, expired>>

\* bounded() gives the send up; the call goes on.
SendExpires ==
    /\ at # 0
    /\ Cardinality(expired.send) + Cardinality(expired.call) < MaxTimeouts
    /\ expired' = [expired EXCEPT !.send = @ \cup {at}]
    /\ cmd' = failTransport(at, TRUE)
    /\ at' = 0
    /\ UNCHANGED <<object, process, wire, recorded, turn>>

\* rpc() gives the call up: submit() returns with its error.
CallExpires(s) ==
    LET c == object[s].pending IN
    /\ c # 0
    /\ Cardinality(expired.send) + Cardinality(expired.call) < MaxTimeouts
    /\ expired' = [expired EXCEPT !.call = @ \cup {c}]
    /\ object' = [object EXCEPT ![s].pending = 0, ![s].submitting = 0]
    /\ IF at = c
       THEN /\ cmd' = failTransport(c, TRUE)
            /\ at' = 0
       ELSE UNCHANGED <<cmd, at>>
    /\ UNCHANGED <<process, wire, recorded, turn>>

-----------------------------------------------------------------------------
(* Frames the adapter reads.                                               *)

Reads(s, f) ==
    /\ f \in wire[s]
    /\ wire' = [wire EXCEPT ![s] = @ \ {f}]

\* Mutant: the turn that was answered is not the active one until it starts.
AwaitsStart(o, t) == [claimTurn(o, t) EXCEPT !.submitting = 0, !.pending = 0]

\* submit() goes on: the turn is the command's, and active unless it ended.
Submitted(o, t) == [Opens(claimTurn(o, t), t) EXCEPT !.submitting = 0, !.pending = 0]

\* The answer to turn/start; one nobody waits for is dropped.
onAnswer(s, t) ==
    /\ Reads(s, Frame("answer", t))
    /\ IF object[s].pending # t
       THEN UNCHANGED <<object, cmd, at>>
       ELSE /\ object' = [object EXCEPT ![s] = Submitted(object[s], t)]
            /\ cmd' = acknowledgeFromRuntime(t, "accepted")
            /\ at' = IF at = t THEN 0 ELSE at
    /\ UNCHANGED <<process, recorded, turn, expired>>

\* The provider refused the call.
onError(s, t) ==
    /\ Reads(s, Frame("error", t))
    /\ IF object[s].pending # t
       THEN UNCHANGED <<object, cmd, at>>
       ELSE /\ object' = [object EXCEPT ![s].submitting = 0, ![s].pending = 0]
            /\ cmd' = IF at = t THEN failTransport(t, TRUE) ELSE cmd
            /\ at' = IF at = t THEN 0 ELSE at
    /\ UNCHANGED <<process, recorded, turn, expired>>

onTurnStarted(s, t) ==
    LET o == claimTurn(object[s], t) IN
    /\ Reads(s, Frame("started", t))
    /\ object' = [object EXCEPT ![s] = Opens(o, t)]
    /\ cmd' = onRuntimeEvent(o.turnCommands[t], "running")
    /\ UNCHANGED <<process, recorded, at, turn, expired>>

\* Mutant: a turn that ended is a turn that completed.
EndedIsCompleted(status) == "completed"

\* RUNTIME_ACK_STATES: an interrupted turn fails its command too.
AckOf(status) == IF status = "completed" THEN "completed" ELSE "failed"

onTurnCompleted(s, t) ==
    LET o == claimTurn(object[s], t) IN
    /\ Reads(s, Frame("ended", t))
    /\ object' = [object EXCEPT ![s] = Ends(o, t)]
    /\ cmd' = onRuntimeEvent(o.turnCommands[t], AckOf(turn[t]))
    /\ UNCHANGED <<process, recorded, at, turn, expired>>

onFrame(s, t) ==
    \/ onAnswer(s, t)
    \/ onError(s, t)
    \/ onTurnStarted(s, t)
    \/ onTurnCompleted(s, t)

-----------------------------------------------------------------------------
(* The provider.                                                           *)

Writes(s, frames) == wire' = [wire EXCEPT ![s] = @ \cup frames]

\* It takes the input and starts a turn, or refuses it.
TurnBegins(t) ==
    /\ turn[t] = "asked"
    /\ \/ /\ turn' = [turn EXCEPT ![t] = "running"]
          /\ Writes(cmd[t].home, {Frame("answer", t), Frame("started", t)})
       \/ /\ turn' = [turn EXCEPT ![t] = "refused"]
          /\ Writes(cmd[t].home, {Frame("error", t)})
    /\ UNCHANGED <<object, process, recorded, cmd, at, expired>>

TurnEnds(t) ==
    /\ turn[t] = "running"
    /\ \E status \in Ended : turn' = [turn EXCEPT ![t] = status]
    /\ Writes(cmd[t].home, {Frame("ended", t)})
    /\ UNCHANGED <<object, process, recorded, cmd, at, expired>>

CodexNext ==
    \/ \E s \in Starts :
         \/ start(s) \/ SpawnFails(s) \/ HandshakeCall(s) \/ recordProviderSession(s)
         \/ stop(s) \/ ProcessEnds(s) \/ onExit(s) \/ SessionLost(s) \/ CallExpires(s)
         \/ \E t \in Commands : onFrame(s, t)
    \/ \E c \in Commands :
         \/ deliverStructured(c) \/ reconcileCommands(c) \/ tick(c)
         \/ TurnBegins(c) \/ TurnEnds(c)
    \/ SendExpires
    \/ Crash

CodexSpec == CodexInit /\ [][CodexNext]_codex

\* What is written to a pipe is read; an exit is reported.  The provider, the
\* operator and the clock owe nothing.
CodexFairSpec ==
    /\ CodexSpec
    /\ \A s \in Starts :
         /\ WF_codex(onExit(s))
         /\ \A t \in Commands : WF_codex(onFrame(s, t))

-----------------------------------------------------------------------------
(* Properties.                                                             *)

\* "Input reaches the provider only between turns" (docs/configuration.md),
\* whatever order the frames come in and across restarts of the session: the
\* provider never works on two turns at once, unless a turn/start of the
\* session went unanswered until the adapter gave it up.  Such a turn, heard
\* of late, takes the place of the active one.
InputBetweenTurns ==
    \A c, d \in Commands :
        c # d /\ turn[c] \in Working /\ turn[d] \in Working
            => \E t \in expired.call : cmd[t].home \in {cmd[c].home, cmd[d].home}

\* A command is completed on the provider's word about the turn that this
\* command started.  The one exception: the adapter gave up another call of
\* the session, and takes the turn that call started for this command's.
CompletedIsProven ==
    \A c \in Commands :
        cmd[c].state = "completed"
            => \/ turn[c] = "completed"
               \/ \E t \in expired.call : t # c /\ cmd[t].home = cmd[c].home

\* A turn that is over does not keep its session busy, even if the report
\* that it started comes last.
SessionsComeFree ==
    \A t \in Commands :
        turn[t] \in Ended ~> \A s \in Starts : object[s].activeTurnId # t

=============================================================================
