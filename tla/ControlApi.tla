------------------------------ MODULE ControlApi ------------------------------
(***************************************************************************)
(* What master, workers and operators do through the coordinator's control *)
(* API (lib/controlServer.ts): ask for input and answer it                 *)
(* (lib/runCommands.ts, lib/messageBridge.ts, respondInput of              *)
(* lib/operatorMutations.ts), and write to terminals under a lease         *)
(* (lib/terminalBroker.ts, the send of adapters/tmux.ts).                  *)
(*                                                                         *)
(* One agent works one run after another.  Every request is applied by     *)
(* the coordinator, one thread, so a handler without an await is a step;   *)
(* only a send, which waits 200 ms between its text and its Enter, and a   *)
(* worker, which polls for its answer, are spread over several.  A crash   *)
(* may cut a handler between two of its writes.                            *)
(***************************************************************************)
EXTENDS Integers, Sequences, FiniteSets, SequencesExt

CONSTANTS
    Operators,   \* clients that open terminals
    Answers,     \* what the master may answer
    MaxRuns,     \* bound: runs the agent works
    MaxAsks,     \* bound: questions, the worker's and the coordinator's
    MaxAnswers,  \* bound: answers recorded
    MaxCrashes,  \* bound: coordinator crashes
    NoOne,
    NoAnswer

Senders == {"tick", "dispatcher"}  \* the coordinator's loop and its command dispatcher

ASSUME BoundsAssumption ==
    /\ MaxRuns \in Nat /\ MaxAsks \in Nat /\ MaxAnswers \in Nat /\ MaxCrashes \in Nat
    /\ Operators \cap (Senders \cup {NoOne}) = {} /\ NoOne \notin Senders
    /\ NoAnswer \notin Answers

VARIABLES
    up,       \* whether the coordinator runs
    crashes,
    run,      \* state of each run
    session,  \* state of the session of each run
    pane,     \* the run whose provider runs in the agent's tmux session, 0 if none
    shell,    \* runs whose worktree shell runs
    term,     \* terminals: the record of each terminal
    lease,    \* control_leases: the writer of each terminal, and whether it has time left
    send,     \* the run each sender has typed its text for, 0 if none
    mixed,    \* whether an operator's keys went between a send's text and its Enter
    log,      \* input events
    cursor,   \* events the coordinator has handled
    input,    \* input_state of each run's claim
    asked,    \* input_requests: the requests of the workers
    worker,   \* what each run's worker is doing about its request
    reads     \* the answer a worker has read to each request

vars == <<up, crashes, run, session, pane, shell, term, lease, send, mixed,
          log, cursor, input, asked, worker, reads>>
runs == <<run, session, pane>>
terminals == <<shell, term, lease, send, mixed>>
questions == <<log, cursor, input, asked, worker, reads>>

Runs == 1 .. MaxRuns
Terminals == {"provider", "shell"} \X Runs
Requests == 1 .. MaxAsks

Free == [by |-> NoOne, live |-> FALSE]

Init ==
    /\ up = TRUE /\ crashes = 0
    /\ run = [r \in Runs |-> "none"]
    /\ session = [r \in Runs |-> "none"]
    /\ pane = 0
    /\ shell = {}
    /\ term = [t \in Terminals |-> "none"]
    /\ lease = [t \in Terminals |-> Free]
    /\ send = [k \in Senders |-> 0]
    /\ mixed = FALSE
    /\ log = <<>> /\ cursor = 0
    /\ input = [r \in Runs |-> "none"]
    /\ asked = <<>>
    /\ worker = [r \in Runs |-> [at |-> "working", request |-> 0]]
    /\ reads = [q \in Requests |-> NoAnswer]

-----------------------------------------------------------------------------
(* Runs and sessions, as far as terminals and questions depend on them.    *)

latest == Cardinality({r \in Runs : run[r] # "none"})

\* The coordinator launches the next run's session under the same agent;
\* tmux start kills what ran there.
launchWorkerSession(r) ==
    /\ up /\ send["tick"] = 0
    /\ run[r] = "none" /\ \A p \in 1 .. r - 1 : run[p] = "ended" /\ session[p] = "offline"
    /\ run' = [run EXCEPT ![r] = "active"]
    /\ session' = [session EXCEPT ![r] = "running"]
    /\ pane' = r
    /\ UNCHANGED <<up, crashes, terminals, questions>>

\* finishRun, an expired lease or a cancelled task.
Ends(r) ==
    /\ run' = [run EXCEPT ![r] = "ended"]
    /\ input' = [input EXCEPT ![r] = "none"]

finishRun(r) ==
    /\ up /\ run[r] = "active"
    /\ Ends(r)
    /\ UNCHANGED <<up, crashes, session, pane, terminals, log, cursor, asked, worker, reads>>

\* cleanupRunCapacity.
closeSession(r) ==
    /\ up /\ send["tick"] = 0
    /\ run[r] = "ended" /\ session[r] = "running"
    /\ session' = [session EXCEPT ![r] = "offline"]
    /\ pane' = IF pane = r THEN 0 ELSE pane
    /\ UNCHANGED <<up, crashes, run, terminals, questions>>

ProviderDies ==
    /\ pane # 0
    /\ pane' = 0
    /\ UNCHANGED <<up, crashes, run, session, terminals, questions>>

-----------------------------------------------------------------------------
(* Terminals.                                                              *)

\* TerminalDriver.alive.
alive(t) == IF t[1] = "shell" THEN t[2] \in shell ELSE pane # 0

\* Mutant: whoever runs in the agent's tmux session is taken for the run.
AnySession(t) == latest # 0 /\ session[latest] = "running"

\* The agent's newest session must be the run's: the name outlives the run.
isCurrent(t) ==
    /\ run[t[2]] = "active"
    /\ t[1] = "shell" \/ (latest = t[2] /\ session[t[2]] = "running")

available(t) == term[t] = "running" /\ isCurrent(t) /\ alive(t)

markOffline(t) ==
    /\ term' = [term EXCEPT ![t] = "offline"]
    /\ lease' = [lease EXCEPT ![t] = Free]

provider(r) ==
    /\ up /\ isCurrent(<<"provider", r>>) /\ alive(<<"provider", r>>)
    /\ term' = [term EXCEPT ![<<"provider", r>>] = "running"]
    /\ UNCHANGED <<up, crashes, runs, shell, lease, send, mixed, questions>>

\* A shell that had died is marked offline, and its writer with it.
openShell(r) ==
    /\ up /\ run[r] = "active"
    /\ shell' = shell \cup {r}
    /\ term' = [term EXCEPT ![<<"shell", r>>] = "running"]
    /\ lease' = IF r \in shell THEN lease ELSE [lease EXCEPT ![<<"shell", r>>] = Free]
    /\ UNCHANGED <<up, crashes, runs, send, mixed, questions>>

ShellDies(r) ==
    /\ r \in shell
    /\ shell' = shell \ {r}
    /\ UNCHANGED <<up, crashes, runs, term, lease, send, mixed, questions>>

\* observe, and any request that finds the terminal gone.
observe(t) ==
    /\ up /\ term[t] = "running" /\ ~available(t)
    /\ markOffline(t)
    /\ UNCHANGED <<up, crashes, runs, shell, send, mixed, questions>>

acquire(o, t) ==
    /\ up /\ available(t)
    /\ ~lease[t].live
    /\ lease' = [lease EXCEPT ![t] = [by |-> o, live |-> TRUE]]
    /\ UNCHANGED <<up, crashes, runs, shell, term, send, mixed, questions>>

\* withLease: the check, the keys and the renewal are one transaction.
write(o, t) ==
    /\ up /\ available(t)
    /\ lease[t] = [by |-> o, live |-> TRUE]
    /\ mixed' = (mixed \/ (t[1] = "provider" /\ \E k \in Senders : send[k] = pane))
    /\ UNCHANGED <<up, crashes, runs, shell, term, lease, send, questions>>

\* Mutant: the lease is deleted by its terminal alone.
AnyLease(o, t) == lease[t] # Free

OwnLease(o, t) == lease[t].by = o

release(o, t) ==
    /\ up /\ OwnLease(o, t)
    /\ lease' = [lease EXCEPT ![t] = Free]
    /\ UNCHANGED <<up, crashes, runs, shell, term, send, mixed, questions>>

\* 30 s without a key; a send is over long before.
LeaseExpires(t) ==
    /\ lease[t].live /\ lease[t].by \in Operators
    /\ lease' = [lease EXCEPT ![t].live = FALSE]
    /\ UNCHANGED <<up, crashes, runs, shell, term, send, mixed, questions>>

\* Stops the shells of runs that ended, marks what is gone, drops what expired.
reconcile ==
    /\ up
    /\ shell' = {r \in shell : term[<<"shell", r>>] = "running" => run[r] = "active"}
    /\ LET gone == {t \in Terminals : term[t] = "running" /\ ~available(t)}
       IN  /\ term' = [t \in Terminals |-> IF t \in gone THEN "offline" ELSE term[t]]
           /\ lease' = [t \in Terminals |-> IF t \in gone \/ ~lease[t].live THEN Free ELSE lease[t]]
    /\ shell' # shell \/ term' # term \/ lease' # lease
    /\ UNCHANGED <<up, crashes, runs, send, mixed, questions>>

\* The text of a send, under a lease on the terminal of the agent's newest
\* running session, which a live pane always has; a live lease of anyone
\* refuses it.
sendText(k) ==
    /\ up /\ send[k] = 0 /\ pane # 0
    /\ ~lease[<<"provider", pane>>].live
    /\ lease' = [lease EXCEPT ![<<"provider", pane>>] = [by |-> k, live |-> TRUE]]
    /\ send' = [send EXCEPT ![k] = pane]
    /\ UNCHANGED <<up, crashes, runs, shell, term, mixed, questions>>

\* Its Enter, or the failure to write it; the lease goes either way.
sendEnter(k) ==
    /\ up /\ send[k] # 0
    /\ lease' = IF lease[<<"provider", send[k]>>].by = k
                THEN [lease EXCEPT ![<<"provider", send[k]>>] = Free] ELSE lease
    /\ send' = [send EXCEPT ![k] = 0]
    /\ UNCHANGED <<up, crashes, runs, shell, term, mixed, questions>>

-----------------------------------------------------------------------------
(* Questions.                                                              *)

Event(kind, r, q, a) == [kind |-> kind, run |-> r, request |-> q, answer |-> a]
Questions == {i \in DOMAIN log : log[i].kind \in {"asked", "prompt"}}
OfRun(r) == {i \in DOMAIN log : log[i].run = r}

\* The run's newest question, 0 if it has none.
Newest(r) == CHOOSE i \in (OfRun(r) \cap Questions) \cup {0} : \A j \in OfRun(r) \cap Questions : j <= i

CanAsk == Cardinality(Questions) < MaxAsks

\* input-request: the event, then the durable row; a crash may lose the row,
\* and the worker's command fails.
requestInput(r) ==
    /\ up /\ run[r] = "active" /\ session[r] = "running"
    /\ worker[r].at = "working" /\ CanAsk
    /\ \E cut \in BOOLEAN :
          /\ cut => crashes < MaxCrashes
          /\ up' = ~cut /\ crashes' = IF cut THEN crashes + 1 ELSE crashes
          /\ asked' = Append(asked, [run |-> r, state |-> IF cut THEN "lost" ELSE "pending",
                                     answer |-> NoAnswer])
          /\ worker' = IF cut THEN worker
                       ELSE [worker EXCEPT ![r] = [at |-> "waiting", request |-> Len(asked')]]
          /\ send' = IF cut THEN [k \in Senders |-> 0] ELSE send
    /\ log' = Append(log, Event("asked", r, Len(asked'), NoAnswer))
    /\ UNCHANGED <<runs, shell, term, lease, mixed, cursor, input, reads>>

\* recordCoordinatorInputRequest: the provider shows a prompt, or a policy asks.
askFromCoordinator(r) ==
    /\ up /\ run[r] = "active" /\ input[r] = "none" /\ CanAsk
    /\ input' = [input EXCEPT ![r] = "awaiting"]
    /\ log' = Append(log, Event("prompt", r, 0, NoAnswer))
    /\ UNCHANGED <<up, crashes, runs, terminals, cursor, asked, worker, reads>>

\* Mutant: an answer does not clear what its question set.
NeverClears(e) ==
    IF e.kind = "asked" /\ run[e.run] = "active" THEN [input EXCEPT ![e.run] = "awaiting"] ELSE input

\* reduceLifecycleEvent: set_input_state, clear_input_state, or nothing for
\* what the coordinator asked itself.
reduceLifecycleEvent(e) ==
    IF run[e.run] # "active" \/ e.kind = "prompt" THEN input
    ELSE [input EXCEPT ![e.run] = IF e.kind = "asked" THEN "awaiting" ELSE "none"]

processEvent ==
    /\ up /\ cursor < Len(log)
    /\ cursor' = cursor + 1
    /\ input' = reduceLifecycleEvent(log[cursor'])
    /\ UNCHANGED <<up, crashes, runs, terminals, log, asked, worker, reads>>

RowsOf(r) == {q \in DOMAIN asked : asked[q].run = r /\ asked[q].state # "lost"}

\* The row an answer is bound to: of the request named by the newest question,
\* or, if that names none, the run's newest row; 0 if there is no row.
Row(r, q) ==
    IF q = 0 THEN CHOOSE i \in RowsOf(r) \cup {0} : \A j \in RowsOf(r) : j <= i
    ELSE IF asked[q].state = "lost" THEN 0 ELSE q

\* bridgeInputResponse: an answered row takes no other answer; a request
\* without a row is refused if the run has rows.
Refuses(r, q, a) ==
    IF Row(r, q) = 0 THEN q # 0 /\ RowsOf(r) # {}
    ELSE asked[Row(r, q)].state = "answered" /\ asked[Row(r, q)].answer # a

\* respondInput without a request id, as the master is told to call it: it
\* answers the run's newest question.  An ended run keeps only the event.
\* The crash, if any, comes after the row and before the rest.
respondInput(r, a) ==
    /\ Newest(r) # 0
    /\ Cardinality({i \in DOMAIN log : log[i].kind = "answered"}) < MaxAnswers
    /\ LET q == log[Newest(r)].request
           row == IF run[r] = "active" THEN Row(r, q) ELSE 0
       IN  /\ run[r] = "active" => ~Refuses(r, q, a)
           /\ asked' = IF row = 0 THEN asked
                       ELSE [asked EXCEPT ![row] = [run |-> @.run, state |-> "answered", answer |-> a]]
           /\ \/ /\ input' = [input EXCEPT ![r] = "none"]
                 /\ log' = Append(log, Event("answered", r, q, a))
                 /\ UNCHANGED <<up, crashes, send>>
              \/ /\ up /\ crashes < MaxCrashes /\ asked' # asked
                 /\ up' = FALSE /\ crashes' = crashes + 1 /\ send' = [k \in Senders |-> 0]
                 /\ UNCHANGED <<input, log>>
    /\ UNCHANGED <<runs, shell, term, lease, mixed, cursor, worker, reads>>

\* latestInputResponse: the row's answer, else the event of an answer to this request.
latestInputResponse(q) ==
    IF asked[q].state = "answered" THEN {asked[q].answer}
    ELSE {a \in Answers : \E i \in DOMAIN log :
             /\ log[i] = Event("answered", asked[q].run, q, a)
             /\ \A j \in i + 1 .. Len(log) : log[j].kind = "answered" => log[j].request # q}

\* input-poll: answered, over, still waiting, or past the deadline and its grace.
poll(r) ==
    /\ up /\ worker[r].at = "waiting"
    /\ LET q == worker[r].request
       IN  \/ \E a \in latestInputResponse(q) :
                 /\ reads' = [reads EXCEPT ![q] = a]
                 /\ worker' = [worker EXCEPT ![r] = [at |-> "working", request |-> 0]]
           \/ /\ latestInputResponse(q) = {} /\ run[r] = "active"
              /\ worker' = [worker EXCEPT ![r].at = "giving up"] /\ UNCHANGED reads
           \/ /\ latestInputResponse(q) = {} /\ run[r] # "active"
              /\ worker' = [worker EXCEPT ![r] = [at |-> "gone", request |-> 0]] /\ UNCHANGED reads
    /\ UNCHANGED <<up, crashes, runs, terminals, log, cursor, input, asked>>

\* input-timeout fails a run that is still active, whatever was answered since.
timeoutInput(r) ==
    /\ up /\ worker[r].at = "giving up"
    /\ IF run[r] = "active" /\ session[r] = "running" THEN Ends(r) ELSE UNCHANGED <<run, input>>
    /\ worker' = [worker EXCEPT ![r] = [at |-> "gone", request |-> 0]]
    /\ UNCHANGED <<up, crashes, session, pane, terminals, log, cursor, asked, reads>>

\* _expireLeasesCore: the wait is hours old, its events long handled.
expireInputWait(r) ==
    /\ up /\ run[r] = "active" /\ input[r] = "awaiting" /\ cursor = Len(log)
    /\ Ends(r)
    /\ UNCHANGED <<up, crashes, session, pane, terminals, log, cursor, asked, worker, reads>>

-----------------------------------------------------------------------------
\* A send dies with the coordinator; its lease stays and expires.
Crash ==
    /\ up /\ crashes < MaxCrashes
    /\ up' = FALSE /\ crashes' = crashes + 1
    /\ send' = [k \in Senders |-> 0]
    /\ UNCHANGED <<runs, shell, term, lease, mixed, questions>>

SendLeaseExpires(t) ==
    /\ lease[t].live /\ lease[t].by \in Senders /\ send[lease[t].by] # t[2]
    /\ lease' = [lease EXCEPT ![t].live = FALSE]
    /\ UNCHANGED <<up, crashes, runs, shell, term, send, mixed, questions>>

startControlServer ==
    /\ ~up /\ up' = TRUE
    /\ UNCHANGED <<crashes, runs, terminals, questions>>

Next ==
    \/ \E r \in Runs :
          \/ launchWorkerSession(r) \/ finishRun(r) \/ closeSession(r)
          \/ provider(r) \/ openShell(r) \/ ShellDies(r)
          \/ requestInput(r) \/ askFromCoordinator(r) \/ poll(r) \/ timeoutInput(r) \/ expireInputWait(r)
          \/ \E a \in Answers : respondInput(r, a)
    \/ \E t \in Terminals :
          \/ observe(t) \/ LeaseExpires(t) \/ SendLeaseExpires(t)
          \/ \E o \in Operators : acquire(o, t) \/ write(o, t) \/ release(o, t)
    \/ \E k \in Senders : sendText(k) \/ sendEnter(k)
    \/ processEvent \/ reconcile \/ ProviderDies \/ Crash \/ startControlServer

Spec == Init /\ [][Next]_vars

FairSpec == Spec /\ WF_vars(reconcile) /\ WF_vars(startControlServer)

-----------------------------------------------------------------------------
(* Properties.                                                             *)

TypeOK ==
    /\ up \in BOOLEAN /\ mixed \in BOOLEAN /\ crashes \in 0 .. MaxCrashes
    /\ run \in [Runs -> {"none", "active", "ended"}]
    /\ session \in [Runs -> {"none", "running", "offline"}]
    /\ pane \in 0 .. MaxRuns /\ shell \subseteq Runs
    /\ term \in [Terminals -> {"none", "running", "offline"}]
    /\ lease \in [Terminals -> [by : Operators \cup Senders \cup {NoOne}, live : BOOLEAN]]
    /\ send \in [Senders -> 0 .. MaxRuns]
    /\ log \in Seq([kind : {"asked", "prompt", "answered"}, run : Runs, request : 0 .. MaxAsks,
                  answer : Answers \cup {NoAnswer}])
    /\ cursor \in 0 .. Len(log)
    /\ input \in [Runs -> {"none", "awaiting"}]
    /\ asked \in Seq([run : Runs, state : {"lost", "pending", "answered"}, answer : Answers \cup {NoAnswer}])
    /\ worker \in [Runs -> [at : {"working", "waiting", "giving up", "gone"}, request : 0 .. MaxAsks]]
    /\ reads \in [Requests -> Answers \cup {NoAnswer}]

\* Nobody's keys get between the text of a coordinator message and its Enter.
TextIsSubmittedAlone == ~mixed

\* What an operator types under a lease reaches the run it was leased for,
\* although the next run of the agent has the same tmux session name.
KeysReachTheirRun ==
    [][\A o \in Operators, r \in Runs : write(o, <<"provider", r>>) => pane = r]_vars

Unanswered(r) == Newest(r) # 0 /\ \A i \in OfRun(r) : i <= Newest(r)

\* A run waits for input, which suspends its lease and its nudges and fails
\* it in the end, only while its newest question is unanswered: the answer
\* and the question are handled again as events, after the fact.
AwaitingIsUnanswered ==
    cursor = Len(log) => \A r \in Runs : input[r] = "awaiting" => Unanswered(r)

\* "input_requested: ... Once the user answers, call respond_input(run_id,
\* agent_id, response)": a run's unanswered question can be answered, with
\* any text.
QuestionsCanBeAnswered ==
    \A r \in Runs, a \in Answers :
        run[r] = "active" /\ Unanswered(r) => ~Refuses(r, log[Newest(r)].request, a)

\* reconcile is "called by the daemon to clear expired owners and shells
\* whose run ended".
ShellsEnd == \A r \in Runs : run[r] = "ended" /\ r \in shell ~> r \notin shell

=============================================================================
