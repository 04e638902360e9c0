-------------------------------- MODULE Scouts --------------------------------
(***************************************************************************)
(* Investigation scouts: request_scout and remove_scout of the master's    *)
(* MCP server (mcp/handlers.ts).  A request takes the first free scout     *)
(* number, registers it, starts a provider session under its name, waits   *)
(* until the session reports for duty, and types the brief into it.        *)
(*                                                                         *)
(* Calls of one server interleave where they await: in the startup         *)
(* dialogs, between two looks at the registry, and before the Enter that   *)
(* submits the brief.  A number that is removed meanwhile is free for the  *)
(* next request, so two calls may hold the same number, and with it the    *)
(* same session handle.                                                    *)
(***************************************************************************)
EXTENDS Integers, FiniteSets

CONSTANTS
    Transports,  \* how sessions may be run: "pty", "tmux"
    MaxCalls,    \* bound: request_scout calls
    MaxScouts,   \* bound: scout numbers
    MaxExits     \* bound: MCP servers that exit

ASSUME ScoutBounds == MaxCalls \in Nat /\ MaxScouts \in Nat /\ MaxExits \in Nat

VARIABLES
    wire,    \* the transport in use
    scout,   \* agents.json: the session (the call that recorded it) of each scout
    call,    \* where each call is, and its scout number
    cli,     \* the provider process each call started
    named,   \* the process behind each session name: tmux session or pid file, 0 if none
    briefs,  \* <<call, process>>: whose brief was typed into which process
    exits    \* MCP servers that exited so far

scouts == <<wire, scout, call, cli, named, briefs, exits>>

Calls == 1 .. MaxCalls
Scout == 1 .. MaxScouts

NoScout == [registered |-> FALSE, session |-> 0, ready |-> FALSE]
NewScout == [NoScout EXCEPT !.registered = TRUE]

ScoutsInit ==
    /\ wire \in Transports
    /\ scout = [i \in Scout |-> NoScout]
    /\ call = [r \in Calls |-> [at |-> "idle", number |-> 0]]
    /\ cli = [r \in Calls |-> "none"]
    /\ named = [i \in Scout |-> 0]
    /\ briefs = {}
    /\ exits = 0

CallAt(r, place) == call[r].at = place
CallGoes(r, place) == call' = [call EXCEPT ![r].at = place]

-----------------------------------------------------------------------------
(* request_scout.                                                          *)

FreeNumbers == {i \in Scout : ~scout[i].registered}

nextAvailableScoutId(i) == i \in FreeNumbers /\ \A j \in FreeNumbers : i <= j

\* Registered and started in one stretch.  tmux kills a session of the same
\* name first; a PTY's adapter is the call's own and knows of none.
handleRequestScout(r) ==
    /\ CallAt(r, "idle") /\ \A q \in 1 .. r - 1 : ~CallAt(q, "idle")
    /\ \E i \in Scout :
          /\ nextAvailableScoutId(i)
          /\ scout' = [scout EXCEPT ![i] = NewScout]
          /\ call' = [call EXCEPT ![r] = [at |-> "starting", number |-> i]]
          /\ cli' = [q \in Calls |->
                       IF q = r THEN "live"
                       ELSE IF wire = "tmux" /\ q = named[i] THEN "dead" ELSE cli[q]]
          /\ named' = [named EXCEPT ![i] = r]
    /\ UNCHANGED <<wire, briefs, exits>>

\* The session is recorded under the scout's name.  For one that is no longer
\* registered that throws, and the process is left.
SessionRecorded(r) ==
    /\ CallAt(r, "starting")
    /\ LET i == call[r].number IN
          /\ wire = "tmux" => named[i] # 0
          /\ IF scout[i].registered
             THEN /\ scout' = [scout EXCEPT ![i] = [NewScout EXCEPT !.session = r]]
                  /\ CallGoes(r, "waiting")
             ELSE UNCHANGED scout /\ CallGoes(r, "failed")
    /\ UNCHANGED <<wire, cli, named, briefs, exits>>

\* No binary, no sandbox: nothing is started, and the number is given up.
ScoutNotStarted(r) ==
    /\ CallAt(r, "idle") /\ \A q \in 1 .. r - 1 : ~CallAt(q, "idle")
    /\ CallGoes(r, "failed")
    /\ UNCHANGED <<wire, scout, cli, named, briefs, exits>>

\* The startup dialogs throw: the number is given up, and the process left.
ScoutLaunchFails(r) ==
    /\ CallAt(r, "starting")
    /\ scout' = [scout EXCEPT ![call[r].number] = NoScout]
    /\ CallGoes(r, "failed")
    /\ UNCHANGED <<wire, cli, named, briefs, exits>>

\* orc report-for-duty, with the session token the process was started with.
ReportsForDuty(r) ==
    LET i == call[r].number IN
    /\ cli[r] = "live"
    /\ scout[i].session = r /\ ~scout[i].ready
    /\ scout' = [scout EXCEPT ![i].ready = TRUE]
    /\ UNCHANGED <<wire, call, cli, named, briefs, exits>>

\* Mutant: any session of that name that is ready will do.
AnyReady(r) == scout[call[r].number].ready

\* The scout's row carries this call's session token, and is ready.
waitForScoutReportedForDuty(r) ==
    scout[call[r].number].session = r /\ scout[call[r].number].ready

\* adapter.send: a tmux session is reached by its name, a PTY in the call's
\* own adapter.
Recipient(r) == IF wire = "tmux" THEN named[call[r].number] ELSE r

BriefTyped(r) ==
    /\ CallAt(r, "waiting") /\ waitForScoutReportedForDuty(r)
    /\ wire = "tmux" => Recipient(r) # 0
    /\ briefs' = briefs \cup {<<r, Recipient(r)>>}
    /\ CallGoes(r, "briefing")
    /\ UNCHANGED <<wire, scout, cli, named, exits>>

BriefSubmitted(r) ==
    /\ CallAt(r, "briefing")
    /\ CallGoes(r, "done")
    /\ UNCHANGED <<wire, scout, cli, named, briefs, exits>>

\* adapter.stop: whatever goes by the name is killed, and what this adapter
\* started itself.
StopScout(i, own) ==
    /\ cli' = [q \in Calls |-> IF q \in own \cup {named[i]} /\ cli[q] = "live" THEN "dead" ELSE cli[q]]
    /\ named' = [named EXCEPT ![i] = 0]

\* Not ready in time, or the brief cannot be typed or submitted.
BriefingFails(r) ==
    /\ \/ CallAt(r, "waiting") /\ (~waitForScoutReportedForDuty(r) \/ (wire = "tmux" /\ Recipient(r) = 0))
       \/ CallAt(r, "briefing")
    /\ StopScout(call[r].number, IF wire = "pty" THEN {r} ELSE {})
    /\ scout' = [scout EXCEPT ![call[r].number] = NoScout]
    /\ CallGoes(r, "failed")
    /\ UNCHANGED <<wire, briefs, exits>>

-----------------------------------------------------------------------------
\* remove_scout, whoever is still busy with the number; a scout without a
\* recorded session has none to stop.
handleRemoveScout(i) ==
    /\ scout[i].registered
    /\ IF scout[i].session # 0 THEN StopScout(i, {}) ELSE UNCHANGED <<cli, named>>
    /\ scout' = [scout EXCEPT ![i] = NoScout]
    /\ UNCHANGED <<wire, call, briefs, exits>>

\* A tmux session ends with its process; a pid file stays.
ScoutExits(r) ==
    /\ cli[r] = "live"
    /\ cli' = [cli EXCEPT ![r] = "dead"]
    /\ named' = [i \in Scout |-> IF wire = "tmux" /\ named[i] = r THEN 0 ELSE named[i]]
    /\ UNCHANGED <<wire, scout, call, briefs, exits>>

\* The master's session ends, and its calls with it.  A PTY is hung up, which
\* its process may survive.
ServerExits ==
    /\ exits < MaxExits
    /\ exits' = exits + 1
    /\ call' = [r \in Calls |-> IF CallAt(r, "idle") THEN call[r] ELSE [call[r] EXCEPT !.at = "gone"]]
    /\ \E hung \in SUBSET {r \in Calls : wire = "pty" /\ cli[r] = "live"} :
          cli' = [r \in Calls |-> IF r \in hung THEN "dead" ELSE cli[r]]
    /\ UNCHANGED <<wire, scout, named, briefs>>

ScoutsNext ==
    \/ \E r \in Calls :
          \/ handleRequestScout(r) \/ ScoutNotStarted(r) \/ SessionRecorded(r) \/ ScoutLaunchFails(r)
          \/ ReportsForDuty(r) \/ BriefTyped(r) \/ BriefSubmitted(r) \/ BriefingFails(r)
          \/ ScoutExits(r)
    \/ \E i \in Scout : handleRemoveScout(i)
    \/ ServerExits

ScoutsSpec == ScoutsInit /\ [][ScoutsNext]_scouts

-----------------------------------------------------------------------------
(* Properties.                                                             *)

ScoutsTypeOK ==
    /\ wire \in Transports
    /\ scout \in [Scout -> [registered : BOOLEAN, session : Calls \cup {0}, ready : BOOLEAN]]
    /\ call \in [Calls -> [at : {"idle", "starting", "waiting", "briefing", "done", "failed", "gone"},
                           number : Scout \cup {0}]]
    /\ cli \in [Calls -> {"none", "live", "dead"}]
    /\ named \in [Scout -> Calls \cup {0}]
    /\ briefs \subseteq Calls \X (Calls \cup {0})
    /\ exits \in 0 .. MaxExits

\* A brief is typed into the session its own request started, although the
\* scout's number may have been removed and given away while the request
\* waited, and a handle says no more than the number.
BriefReachesItsScout == \A b \in briefs : b[1] = b[2]

\* A scout that was handed out stays until it is removed: no other request
\* takes it down.  It does not hold of this code, see the README.
HandedOutScoutStays ==
    [][\A r \in Calls, i \in Scout :
          CallAt(r, "done") /\ scout[i].session = r /\ scout'[i] = NoScout
             => \A q \in Calls : call'[q] = call[q]]_scouts

=============================================================================
