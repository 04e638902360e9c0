----------------------------- MODULE ControlProofs -----------------------------
(***************************************************************************)
(* Theorems about what masters, workers, operators and scouts do through   *)
(* the coordinator's API: ControlApi, ControlServer and Scouts, which do   *)
(* not read each other's state.  They hold for every number of runs,       *)
(* operators, questions, clients, messages, sessions, scouts and crashes.  *)
(*                                                                         *)
(* Terminals: an operator writes under a lease only to the pane of the     *)
(* agent's newest run, and a send holds that lease from its text to its    *)
(* Enter (RunsOrdered, SendHolds).                                         *)
(*                                                                         *)
(* Questions: a run that waits has a question as its last event, or the    *)
(* event of an answer is still to be handled (AwaitingOpen).               *)
(*                                                                         *)
(* Server: its three protocols share only its process, so the invariant    *)
(* has a part for each, and a step of one leaves the parts of the others   *)
(* alone but for a stop or a crash.                                        *)
(*                                                                         *)
(* Scouts: a brief goes to whatever has the scout's name.  It reaches its  *)
(* own session because a session that is ready has its name                *)
(* (NamedWhenReady), and it has it when it reports because a live tmux     *)
(* session keeps its name until it is stopped (LiveIsNamed).               *)
(***************************************************************************)
EXTENDS ControlApi, ControlServer, Scouts, SequenceTheorems, FiniteSetTheorems, TLAPS

-----------------------------------------------------------------------------
(* The control API: terminals.                                             *)

Leases == [by : Operators \cup Senders \cup {NoOne}, live : BOOLEAN]

TerminalTypes ==
    /\ up \in BOOLEAN /\ crashes \in 0 .. MaxCrashes
    /\ run \in [Runs -> {"none", "active", "ended"}]
    /\ session \in [Runs -> {"none", "running", "offline"}]
    /\ pane \in 0 .. MaxRuns /\ shell \subseteq Runs
    /\ term \in [Terminals -> {"none", "running", "offline"}]
    /\ lease \in [Terminals -> Leases]
    /\ send \in [Senders -> 0 .. MaxRuns]

\* Runs are launched in the order of their numbers, and what runs in the pane
\* is the newest of them.
RunsOrdered ==
    /\ \A r, q \in Runs : run[r] = "none" /\ q > r => run[q] = "none"
    /\ pane # 0 => run[pane] # "none" /\ \A q \in Runs : q > pane => run[q] = "none"

Serving(r) == run[r] = "active" /\ session[r] = "running"

\* A sender between its text and its Enter has the lease of its terminal, as
\* long as that terminal is the live one of an active run.
SendHolds ==
    \A k \in Senders : send[k] # 0 =>
        /\ run[send[k]] # "none"
        /\ send[k] = pane /\ Serving(pane) =>
              lease[<<"provider", pane>>] = [by |-> k, live |-> TRUE]

TerminalPart == TerminalTypes /\ RunsOrdered /\ SendHolds /\ mixed = FALSE

\* The newest launched run is the latest session's.
LEMMA LatestIs ==
    ASSUME TerminalTypes, RunsOrdered, NEW n \in Runs, run[n] # "none",
           \A q \in Runs : q > n => run[q] = "none"
    PROVE  latest = n
<1>1. Runs = 1 .. MaxRuns /\ MaxRuns \in Nat /\ n \in Nat /\ n >= 1 /\ n <= MaxRuns
  BY BoundsAssumption DEF Runs
<1>2. \A r \in Runs : run[r] # "none" <=> r <= n
  BY <1>1 DEF RunsOrdered
<1>3. {r \in Runs : run[r] # "none"} = 1 .. n
  BY <1>1, <1>2
<1>4. Cardinality(1 .. n) = n
  BY <1>1, FS_Interval
<1> QED BY <1>3, <1>4 DEF latest

\* A terminal an operator may use is the live one of the run it is for.
LEMMA AvailableIsPane ==
    ASSUME TerminalTypes, RunsOrdered, NEW r \in Runs, isCurrent(<<"provider", r>>), pane # 0
    PROVE  pane = r /\ Serving(r)
<1>1. latest = r /\ run[r] = "active" /\ session[r] = "running"
  BY DEF isCurrent
<1>2. pane \in Runs
  BY BoundsAssumption DEF TerminalTypes, Runs
<1>3. latest = pane
  BY <1>2, LatestIs DEF RunsOrdered
<1> QED BY <1>1, <1>3 DEF Serving

\* Conversely the live terminal of an active run may be used.
LEMMA PaneIsCurrent ==
    ASSUME TerminalTypes, RunsOrdered, pane # 0, Serving(pane)
    PROVE  pane \in Runs /\ isCurrent(<<"provider", pane>>) /\ alive(<<"provider", pane>>)
<1>1. pane \in Runs
  BY BoundsAssumption DEF TerminalTypes, Runs
<1>2. latest = pane
  BY <1>1, LatestIs DEF RunsOrdered
<1> QED BY <1>1, <1>2 DEF isCurrent, alive, Serving

\* A step that leaves runs, sends and the pane alone keeps the lease of a
\* sender if it keeps the live lease of the pane.
LEMMA HoldFrame ==
    ASSUME SendHolds, UNCHANGED <<run, session, pane, send>>,
           \A k \in Senders :
               pane # 0 /\ send[k] = pane /\ Serving(pane)
                   /\ lease[<<"provider", pane>>] = [by |-> k, live |-> TRUE]
               => lease'[<<"provider", pane>>] = lease[<<"provider", pane>>]
    PROVE  SendHolds'
BY DEF SendHolds, Serving

\* The steps of a question leave the terminals alone, but for the sends a crash
\* ends and the runs a timeout ends.
LEMMA EndingKeeps ==
    ASSUME TerminalPart, NEW r \in Runs, run[r] # "none",
           run' = [run EXCEPT ![r] = "ended"],
           UNCHANGED <<up, crashes, session, pane, shell, term, lease, send, mixed>>
    PROVE  TerminalPart'
<1>1. run' \in [Runs -> {"none", "active", "ended"}]
      /\ \A q \in Runs : /\ run'[q] = "none" <=> run[q] = "none"
                         /\ run'[q] = "active" => run[q] = "active"
  BY DEF TerminalPart, TerminalTypes
<1>2. TerminalTypes'
  BY <1>1 DEF TerminalPart, TerminalTypes
<1>3. pane # 0 => pane \in Runs
  BY BoundsAssumption DEF TerminalPart, TerminalTypes, Runs
<1>4. RunsOrdered'
  BY <1>1, <1>3 DEF TerminalPart, RunsOrdered
<1>5. \A k \in Senders : send[k] # 0 => send[k] \in Runs
  BY BoundsAssumption DEF TerminalPart, TerminalTypes, Runs
<1>6. SendHolds'
  BY <1>1, <1>3, <1>5 DEF TerminalPart, SendHolds, Serving
<1> QED BY <1>2, <1>4, <1>6 DEF TerminalPart

\* A crash ends every send.
LEMMA CrashKeeps ==
    ASSUME TerminalPart, crashes < MaxCrashes, up' = FALSE, crashes' = crashes + 1,
           send' = [k \in Senders |-> 0],
           UNCHANGED <<run, session, pane, shell, term, lease, mixed>>
    PROVE  TerminalPart'
<1>1. crashes' \in 0 .. MaxCrashes
  BY BoundsAssumption DEF TerminalPart, TerminalTypes
<1>2. send' \in [Senders -> 0 .. MaxRuns]
  BY BoundsAssumption
<1> QED BY <1>1, <1>2 DEF TerminalPart, TerminalTypes, RunsOrdered, SendHolds

\* Launching a run's session keeps the order of the runs.
LEMMA NextRunKeeps ==
    ASSUME TerminalPart, NEW r \in Runs, launchWorkerSession(r)
    PROVE  TerminalPart'
<1> USE DEF TerminalPart
<1>1. /\ run[r] = "none" /\ run' = [run EXCEPT ![r] = "active"]
      /\ session' = [session EXCEPT ![r] = "running"] /\ pane' = r
      /\ UNCHANGED <<up, crashes, shell, term, lease, send, mixed>>
      /\ \A p \in 1 .. r - 1 : run[p] = "ended"
  BY DEF launchWorkerSession, terminals
<1>2. r \in 0 .. MaxRuns /\ \A q \in Runs : q < r => q \in 1 .. r - 1
  BY BoundsAssumption DEF Runs
<1>3. TerminalTypes'
  BY <1>1, <1>2 DEF TerminalTypes
<1>4. RunsOrdered'
  <2>1. \A q \in Runs : q > r => run[q] = "none"
    BY <1>1 DEF RunsOrdered
  <2>2. ASSUME NEW p \in Runs, NEW q \in Runs, run'[p] = "none", q > p PROVE run'[q] = "none"
    <3>1. p # r /\ run[p] = "none"
      BY <1>1, <2>2 DEF TerminalTypes
    <3>2. ~(p < r)
      BY <1>1, <1>2, <3>1
    <3>3. q # r /\ run[q] = "none"
      BY <2>2, <3>1, <3>2, BoundsAssumption DEF RunsOrdered, Runs
    <3> QED BY <1>1, <3>3 DEF TerminalTypes
  <2>3. run'[r] # "none" /\ \A q \in Runs : q > r => run'[q] = "none"
    BY <1>1, <2>1, BoundsAssumption DEF TerminalTypes, Runs
  <2> QED BY <1>1, <2>2, <2>3 DEF RunsOrdered
<1>5. SendHolds'
  <2>0. \A k \in Senders : send[k] # 0 => send[k] \in Runs
    BY BoundsAssumption DEF TerminalTypes, Runs
  <2>1. \A k \in Senders : send[k] # 0 => send[k] \in Runs /\ send[k] # r
    BY <1>1, <2>0 DEF SendHolds
  <2>2. \A k \in Senders : send[k] # 0 => run'[send[k]] # "none"
    BY <1>1, <2>1 DEF SendHolds, TerminalTypes
  <2> QED BY <1>1, <2>1, <2>2 DEF SendHolds
<1> QED BY <1>1, <1>3, <1>4, <1>5

\* Every step keeps the terminals in order.
LEMMA TerminalStep == TerminalPart /\ [Next]_vars => TerminalPart'
<1> SUFFICES ASSUME TerminalPart, [Next]_vars PROVE TerminalPart'
  OBVIOUS
<1> USE DEF TerminalPart
<1>0. (pane # 0 => pane \in Runs) /\ \A t \in Terminals : t = <<t[1], t[2]>> /\ t[2] \in Runs
  BY BoundsAssumption DEF TerminalTypes, Runs, Terminals
<1>1. ASSUME NEW r \in Runs, launchWorkerSession(r) PROVE TerminalPart'
  BY <1>1, NextRunKeeps
<1>2. ASSUME NEW r \in Runs, finishRun(r) PROVE TerminalPart'
  BY <1>2, EndingKeeps DEF finishRun, Ends, terminals
<1>3. ASSUME NEW r \in Runs, closeSession(r) PROVE TerminalPart'
  <2>1. /\ session' = [session EXCEPT ![r] = "offline"] /\ pane' \in {pane, 0}
        /\ UNCHANGED <<up, crashes, run, shell, term, lease, send, mixed>>
    BY <1>3 DEF closeSession, terminals
  <2>2. TerminalTypes'
    BY <2>1, BoundsAssumption DEF TerminalTypes
  <2>3. \A q \in Runs : session'[q] = "running" => session[q] = "running"
    BY <2>1 DEF TerminalTypes
  <2> QED BY <1>0, <2>1, <2>2, <2>3 DEF RunsOrdered, SendHolds, Serving
<1>4. CASE ProviderDies
  <2>1. pane' = 0 /\ UNCHANGED <<up, crashes, run, session, shell, term, lease, send, mixed>>
    BY <1>4 DEF ProviderDies, terminals
  <2>2. TerminalTypes'
    BY <2>1, BoundsAssumption DEF TerminalTypes
  <2> QED BY <2>1, <2>2 DEF RunsOrdered, SendHolds
<1>5. ASSUME NEW r \in Runs, provider(r) PROVE TerminalPart'
  <2>1. TerminalTypes'
    BY <1>5 DEF provider, TerminalTypes, runs, Terminals
  <2> QED BY <1>5, <2>1 DEF provider, runs, RunsOrdered, SendHolds, Serving
<1>6. ASSUME NEW r \in Runs, openShell(r) PROVE TerminalPart'
  <2>1. /\ lease' = lease \/ lease' = [lease EXCEPT ![<<"shell", r>>] = Free]
        /\ shell' = shell \cup {r} /\ term' = [term EXCEPT ![<<"shell", r>>] = "running"]
        /\ UNCHANGED <<up, crashes, run, session, pane, send, mixed>>
    <3>1. CASE r \in shell
      BY <1>6, <3>1 DEF openShell, runs
    <3>2. CASE r \notin shell
      BY <1>6, <3>2 DEF openShell, runs
    <3> QED BY <3>1, <3>2
  <2>2. lease' \in [Terminals -> Leases]
    <3>1. Free \in Leases
      BY DEF Free, Leases
    <3> QED BY <2>1, <3>1 DEF TerminalTypes
  <2>3. TerminalTypes'
    BY <2>1, <2>2 DEF TerminalTypes, Terminals
  <2>4. \A q \in Runs : lease'[<<"provider", q>>] = lease[<<"provider", q>>]
    BY <2>1 DEF TerminalTypes, Terminals
  <2>5. SendHolds'
    BY <1>0, <2>1, <2>4, HoldFrame
  <2> QED BY <2>1, <2>3, <2>5 DEF RunsOrdered
<1>7. ASSUME NEW r \in Runs, ShellDies(r) PROVE TerminalPart'
  <2>1. TerminalTypes'
    BY <1>7 DEF ShellDies, TerminalTypes, runs
  <2> QED BY <1>7, <2>1 DEF ShellDies, runs, RunsOrdered, SendHolds, Serving
<1>8. ASSUME NEW t \in Terminals, observe(t) PROVE TerminalPart'
  <2>1. /\ term' = [term EXCEPT ![t] = "offline"] /\ lease' = [lease EXCEPT ![t] = Free]
        /\ ~available(t) /\ term[t] = "running"
        /\ UNCHANGED <<up, crashes, run, session, pane, shell, send, mixed>>
    BY <1>8 DEF observe, markOffline, runs
  <2>2. TerminalTypes'
    BY <2>1 DEF TerminalTypes, Leases, Free
  <2>3. pane # 0 /\ Serving(pane) => t # <<"provider", pane>>
    BY <2>1, PaneIsCurrent DEF available
  <2>4. pane # 0 /\ Serving(pane) => lease'[<<"provider", pane>>] = lease[<<"provider", pane>>]
    BY <1>0, <2>1, <2>3 DEF TerminalTypes, Terminals
  <2>5. SendHolds'
    BY <2>1, <2>4, HoldFrame
  <2> QED BY <2>1, <2>2, <2>5 DEF RunsOrdered
<1>9. ASSUME NEW t \in Terminals, NEW o \in Operators, acquire(o, t) PROVE TerminalPart'
  <2>1. /\ ~lease[t].live /\ lease' = [lease EXCEPT ![t] = [by |-> o, live |-> TRUE]]
        /\ UNCHANGED <<up, crashes, run, session, pane, shell, term, send, mixed>>
    BY <1>9 DEF acquire, runs
  <2>2. TerminalTypes'
    BY <2>1 DEF TerminalTypes, Leases
  <2>3. \A u \in Terminals : lease[u].live => lease'[u] = lease[u]
    BY <2>1 DEF TerminalTypes
  <2>4. SendHolds'
    BY <1>0, <2>1, <2>3, HoldFrame DEF Terminals
  <2> QED BY <2>1, <2>2, <2>4 DEF RunsOrdered
<1>10. ASSUME NEW t \in Terminals, NEW o \in Operators, write(o, t) PROVE TerminalPart'
  <2>1. /\ available(t) /\ lease[t] = [by |-> o, live |-> TRUE]
        /\ mixed' = (mixed \/ (t[1] = "provider" /\ \E k \in Senders : send[k] = pane))
        /\ UNCHANGED <<up, crashes, run, session, pane, shell, term, lease, send>>
    BY <1>10 DEF write, runs
  <2>2. ASSUME t[1] = "provider", NEW k \in Senders, send[k] = pane PROVE FALSE
    <3>1. t = <<"provider", t[2]>> /\ t[2] \in Runs
      BY <1>0, <2>2
    <3>2. pane # 0 /\ isCurrent(t)
      BY <2>1, <2>2 DEF available, alive
    <3>3. pane = t[2] /\ Serving(pane)
      BY <3>1, <3>2, AvailableIsPane
    <3>4. lease[t] = [by |-> k, live |-> TRUE]
      BY <2>2, <3>1, <3>2, <3>3 DEF SendHolds
    <3>5. k = o
      BY <2>1, <3>4
    <3> QED BY <3>5, BoundsAssumption
  <2>3. mixed' = FALSE
    BY <2>1, <2>2
  <2>4. TerminalTypes'
    BY <2>1 DEF TerminalTypes
  <2> QED BY <2>1, <2>3, <2>4 DEF RunsOrdered, SendHolds, Serving
<1>11. ASSUME NEW t \in Terminals, NEW o \in Operators, release(o, t) PROVE TerminalPart'
  <2>1. /\ lease[t].by = o /\ lease' = [lease EXCEPT ![t] = Free]
        /\ UNCHANGED <<up, crashes, run, session, pane, shell, term, send, mixed>>
    BY <1>11 DEF release, runs, OwnLease
  <2>2. TerminalTypes'
    BY <2>1 DEF TerminalTypes, Leases, Free
  <2>3. \A u \in Terminals : lease[u].by \in Senders => lease'[u] = lease[u]
    BY <2>1, BoundsAssumption DEF TerminalTypes
  <2>4. SendHolds'
    BY <1>0, <2>1, <2>3, HoldFrame DEF Terminals
  <2> QED BY <2>1, <2>2, <2>4 DEF RunsOrdered
<1>12. ASSUME NEW t \in Terminals, LeaseExpires(t) PROVE TerminalPart'
  <2>1. /\ lease[t].by \in Operators /\ lease' = [lease EXCEPT ![t].live = FALSE]
        /\ UNCHANGED <<up, crashes, run, session, pane, shell, term, send, mixed>>
    BY <1>12 DEF LeaseExpires, runs
  <2>2. TerminalTypes'
    <3>1. \A l \in Leases : [l EXCEPT !.live = FALSE] \in Leases
      BY DEF Leases
    <3>2. lease' \in [Terminals -> Leases]
      BY <2>1, <3>1 DEF TerminalTypes
    <3> QED BY <2>1, <3>2 DEF TerminalTypes
  <2>3. \A u \in Terminals : lease[u].by \in Senders => lease'[u] = lease[u]
    BY <2>1, BoundsAssumption DEF TerminalTypes
  <2>4. SendHolds'
    BY <1>0, <2>1, <2>3, HoldFrame DEF Terminals
  <2> QED BY <2>1, <2>2, <2>4 DEF RunsOrdered
<1>13. CASE reconcile
  <2> DEFINE gone == {t \in Terminals : term[t] = "running" /\ ~available(t)}
  <2>1. /\ term' = [t \in Terminals |-> IF t \in gone THEN "offline" ELSE term[t]]
        /\ lease' = [t \in Terminals |-> IF t \in gone \/ ~lease[t].live THEN Free ELSE lease[t]]
        /\ shell' \subseteq shell
        /\ UNCHANGED <<up, crashes, run, session, pane, send, mixed>>
    BY <1>13 DEF reconcile, runs
  <2>2. TerminalTypes'
    BY <2>1 DEF TerminalTypes, Leases, Free
  <2>3. pane # 0 /\ Serving(pane) => <<"provider", pane>> \notin gone /\ <<"provider", pane>> \in Terminals
    BY <1>0, PaneIsCurrent DEF available, Terminals
  <2>4. ASSUME NEW k \in Senders, pane # 0, Serving(pane),
               lease[<<"provider", pane>>] = [by |-> k, live |-> TRUE]
        PROVE  lease'[<<"provider", pane>>] = lease[<<"provider", pane>>]
    BY <2>1, <2>3, <2>4
  <2>5. SendHolds'
    BY <2>1, <2>4, HoldFrame
  <2> QED BY <2>1, <2>2, <2>5 DEF RunsOrdered
<1>14. ASSUME NEW k \in Senders, sendText(k) PROVE TerminalPart'
  <2> DEFINE t == <<"provider", pane>>
  <2>1. /\ send[k] = 0 /\ pane # 0 /\ ~lease[t].live
        /\ lease' = [lease EXCEPT ![t] = [by |-> k, live |-> TRUE]]
        /\ send' = [send EXCEPT ![k] = pane]
        /\ UNCHANGED <<up, crashes, run, session, pane, shell, term, mixed>>
    BY <1>14 DEF sendText, runs
  <2>2. t \in Terminals
    BY <1>0, <2>1 DEF Terminals
  <2>3. TerminalTypes'
    BY <2>1 DEF TerminalTypes, Leases
  <2>4. \A u \in Terminals : lease[u].live => lease'[u] = lease[u]
    BY <2>1 DEF TerminalTypes
  <2>5. lease'[t] = [by |-> k, live |-> TRUE]
    BY <2>1, <2>2 DEF TerminalTypes
  <2>6. SendHolds'
    <3> SUFFICES ASSUME NEW j \in Senders, send'[j] # 0
                 PROVE  /\ run[send'[j]] # "none"
                        /\ send'[j] = pane /\ Serving(pane) =>
                              lease'[<<"provider", pane>>] = [by |-> j, live |-> TRUE]
      BY <2>1 DEF SendHolds, Serving
    <3>1. CASE j = k
      BY <2>1, <2>5, <3>1 DEF RunsOrdered, TerminalTypes
    <3>2. CASE j # k
      <4>1. send'[j] = send[j]
        BY <2>1, <3>2 DEF TerminalTypes
      <4>2. ASSUME send[j] = pane, Serving(pane) PROVE lease'[t] = [by |-> j, live |-> TRUE]
        <5>1. lease[t] = [by |-> j, live |-> TRUE]
          BY <2>1, <4>2 DEF SendHolds
        <5> QED BY <2>1, <5>1
      <4> QED BY <4>1, <4>2 DEF SendHolds
    <3> QED BY <3>1, <3>2
  <2> QED BY <2>1, <2>3, <2>6 DEF RunsOrdered
<1>15. ASSUME NEW k \in Senders, sendEnter(k) PROVE TerminalPart'
  <2>1. /\ lease' = IF lease[<<"provider", send[k]>>].by = k
                    THEN [lease EXCEPT ![<<"provider", send[k]>>] = Free] ELSE lease
        /\ send' = [send EXCEPT ![k] = 0]
        /\ UNCHANGED <<up, crashes, run, session, pane, shell, term, mixed>>
    BY <1>15 DEF sendEnter, runs
  <2>2. lease' \in [Terminals -> Leases]
    BY <2>1 DEF TerminalTypes, Leases, Free
  <2>3. send' \in [Senders -> 0 .. MaxRuns] /\ send'[k] = 0 /\ \A j \in Senders : j # k => send'[j] = send[j]
    BY <2>1, BoundsAssumption DEF TerminalTypes
  <2>4. \A u \in Terminals : lease[u].by # k => lease'[u] = lease[u]
    BY <2>1 DEF TerminalTypes
  <2>5. TerminalTypes'
    BY <2>1, <2>2, <2>3 DEF TerminalTypes
  <2>6. ASSUME NEW j \in Senders, send'[j] # 0, send'[j] = pane, Serving(pane)
        PROVE  lease'[<<"provider", pane>>] = [by |-> j, live |-> TRUE]
    <3>1. j # k /\ send[j] = pane /\ <<"provider", pane>> \in Terminals
      BY <1>0, <2>3, <2>6 DEF Terminals
    <3>2. lease[<<"provider", pane>>] = [by |-> j, live |-> TRUE]
      BY <2>3, <2>6, <3>1 DEF SendHolds
    <3> QED BY <2>4, <3>1, <3>2
  <2>7. SendHolds'
    BY <2>1, <2>3, <2>6 DEF SendHolds, Serving
  <2> QED BY <2>1, <2>5, <2>7 DEF RunsOrdered
<1>16. ASSUME NEW t \in Terminals, SendLeaseExpires(t) PROVE TerminalPart'
  <2>1. /\ send[lease[t].by] # t[2] /\ lease' = [lease EXCEPT ![t].live = FALSE]
        /\ UNCHANGED <<up, crashes, run, session, pane, shell, term, send, mixed>>
    BY <1>16 DEF SendLeaseExpires, runs
  <2>2. TerminalTypes'
    <3>1. \A l \in Leases : [l EXCEPT !.live = FALSE] \in Leases
      BY DEF Leases
    <3>2. lease' \in [Terminals -> Leases]
      BY <2>1, <3>1 DEF TerminalTypes
    <3> QED BY <2>1, <3>2 DEF TerminalTypes
  <2>3. ASSUME NEW k \in Senders, pane # 0, send[k] = pane,
               lease[<<"provider", pane>>] = [by |-> k, live |-> TRUE]
        PROVE  lease'[<<"provider", pane>>] = lease[<<"provider", pane>>]
    <3>1. t # <<"provider", pane>>
      BY <2>1, <2>3
    <3> QED BY <1>0, <2>1, <2>3, <3>1 DEF TerminalTypes, Terminals
  <2>4. SendHolds'
    BY <2>1, <2>3, HoldFrame
  <2> QED BY <2>1, <2>2, <2>4 DEF RunsOrdered
<1>17. ASSUME NEW r \in Runs, requestInput(r) PROVE TerminalPart'
  <2>1. PICK cut \in BOOLEAN :
            /\ cut => crashes < MaxCrashes
            /\ up' = ~cut /\ crashes' = IF cut THEN crashes + 1 ELSE crashes
            /\ send' = IF cut THEN [k \in Senders |-> 0] ELSE send
    BY <1>17 DEF requestInput
  <2>2. UNCHANGED <<run, session, pane, shell, term, lease, mixed>>
    BY <1>17 DEF requestInput, runs
  <2>3. CASE cut
    BY <2>1, <2>2, <2>3, CrashKeeps
  <2>4. CASE ~cut
    BY <2>1, <2>2, <2>4 DEF TerminalTypes, RunsOrdered, SendHolds, Serving
  <2> QED BY <2>3, <2>4
<1>18. ASSUME NEW r \in Runs, NEW a \in Answers, respondInput(r, a) PROVE TerminalPart'
  <2>1. UNCHANGED <<run, session, pane, shell, term, lease, mixed>>
    BY <1>18 DEF respondInput, runs
  <2>2. \/ UNCHANGED <<up, crashes, send>>
        \/ /\ crashes < MaxCrashes
           /\ up' = FALSE /\ crashes' = crashes + 1 /\ send' = [k \in Senders |-> 0]
    BY <1>18 DEF respondInput
  <2>3. CASE UNCHANGED <<up, crashes, send>>
    BY <2>1, <2>3 DEF TerminalTypes, RunsOrdered, SendHolds, Serving
  <2> QED BY <2>1, <2>2, <2>3, CrashKeeps
<1>19. CASE Crash
  BY <1>19, CrashKeeps DEF Crash, runs
<1>20. ASSUME NEW r \in Runs, timeoutInput(r) PROVE TerminalPart'
  <2>1. UNCHANGED <<up, crashes, session, pane, shell, term, lease, send, mixed>>
    BY <1>20 DEF timeoutInput, terminals
  <2>2. CASE run[r] = "active" /\ run' = [run EXCEPT ![r] = "ended"]
    BY <2>1, <2>2, EndingKeeps
  <2>3. CASE UNCHANGED run
    BY <2>1, <2>3 DEF TerminalTypes, RunsOrdered, SendHolds, Serving
  <2> QED BY <1>20, <2>2, <2>3 DEF timeoutInput, Ends
<1>21. ASSUME NEW r \in Runs, expireInputWait(r) PROVE TerminalPart'
  BY <1>21, EndingKeeps DEF expireInputWait, Ends, terminals
<1>22. CASE UNCHANGED <<crashes, run, session, pane, shell, term, lease, send, mixed>> /\ up' \in BOOLEAN
  BY <1>22 DEF TerminalTypes, RunsOrdered, SendHolds, Serving
<1>23. CASE \/ \E r \in Runs : askFromCoordinator(r) \/ poll(r)
            \/ processEvent \/ startControlServer \/ UNCHANGED vars
  <2>1. UNCHANGED <<crashes, run, session, pane, shell, term, lease, send, mixed>> /\ up' \in BOOLEAN
    BY <1>23 DEF askFromCoordinator, poll, processEvent, startControlServer, vars, runs, terminals, TerminalTypes
  <2> QED BY <1>22, <2>1
<1> QED BY <1>1, <1>2, <1>3, <1>4, <1>5, <1>6, <1>7, <1>8, <1>9, <1>10, <1>11, <1>12, <1>13,
           <1>14, <1>15, <1>16, <1>17, <1>18, <1>19, <1>20, <1>21, <1>23
        DEF Next

-----------------------------------------------------------------------------
(* The control API: questions.                                             *)

LogRows == [kind : {"asked", "prompt", "answered"}, run : Runs, request : 0 .. MaxAsks,
            answer : Answers \cup {NoAnswer}]
AskRows == [run : Runs, state : {"lost", "pending", "answered"}, answer : Answers \cup {NoAnswer}]
WorkerRows == [at : {"working", "waiting", "giving up", "gone"}, request : 0 .. MaxAsks]

QuestionTypes ==
    /\ log \in Seq(LogRows)
    /\ cursor \in 0 .. Len(log)
    /\ input \in [Runs -> {"none", "awaiting"}]
    /\ asked \in Seq(AskRows)
    /\ worker \in [Runs -> WorkerRows]
    /\ reads \in [Requests -> Answers \cup {NoAnswer}]

\* A request has an event, and there are at most MaxAsks questions.
AskedBounded ==
    /\ IsFiniteSet(Questions)
    /\ Cardinality(Questions) \in 0 .. MaxAsks
    /\ Len(asked) <= Cardinality(Questions)

\* A worker waits for a request there is a row for.
WorkersAsk ==
    \A r \in Runs : worker[r].at \in {"waiting", "giving up"} => worker[r].request \in 1 .. Len(asked)

HasLast(S) == S = {} \/ \E m \in S : \A i \in S : i <= m

LastEvents == \A r \in Runs : HasLast(OfRun(r)) /\ HasLast(OfRun(r) \cap Questions)

\* A run that waits is active, and either its last event is a question or the
\* coordinator has yet to handle the event of an answer.
Open(r) ==
    \/ \E m \in OfRun(r) \cap Questions : \A i \in OfRun(r) : i <= m
    \/ \E i \in OfRun(r) : i > cursor /\ log[i].kind = "answered"

AwaitingOpen == \A r \in Runs : input[r] = "awaiting" => run[r] = "active" /\ Open(r)

QuestionPart == QuestionTypes /\ AskedBounded /\ WorkersAsk /\ LastEvents /\ AwaitingOpen

ApiInv == TerminalPart /\ QuestionPart

\* What an appended event changes.
LEMMA LogGrows ==
    ASSUME QuestionTypes, NEW e \in LogRows, log' = Append(log, e)
    PROVE  /\ log' \in Seq(LogRows) /\ Len(log') = Len(log) + 1 /\ Len(log) \in Nat
           /\ log'[Len(log) + 1] = e /\ \A i \in 1 .. Len(log) : log'[i] = log[i]
           /\ \A r \in Runs : r # e.run => OfRun(r)' = OfRun(r)
           /\ \A r \in Runs : r = e.run => OfRun(r)' = OfRun(r) \cup {Len(log) + 1}
           /\ e.kind = "answered" => Questions' = Questions
           /\ e.kind # "answered" => Questions' = Questions \cup {Len(log) + 1}
<1>1. log \in Seq(LogRows) /\ Len(log) \in Nat /\ DOMAIN log = 1 .. Len(log)
  BY DEF QuestionTypes
<1>2. /\ log' \in Seq(LogRows) /\ Len(log') = Len(log) + 1
      /\ log'[Len(log) + 1] = e /\ \A i \in 1 .. Len(log) : log'[i] = log[i]
  BY <1>1, AppendProperties
<1>3. DOMAIN log' = 1 .. Len(log) + 1
  BY <1>2
<1>4. DOMAIN log' = DOMAIN log \cup {Len(log) + 1} /\ Len(log) + 1 \notin DOMAIN log
  BY <1>1, <1>3
<1>5. \A i \in DOMAIN log : log'[i] = log[i]
  BY <1>1, <1>2
<1>6. e.kind \in {"asked", "prompt", "answered"}
  BY DEF LogRows
<1>7. \A r \in Runs : r # e.run => OfRun(r)' = OfRun(r)
  BY <1>2, <1>4, <1>5 DEF OfRun
<1>8. \A r \in Runs : r = e.run => OfRun(r)' = OfRun(r) \cup {Len(log) + 1}
  BY <1>2, <1>4, <1>5 DEF OfRun
<1>9. e.kind = "answered" => Questions' = Questions
  BY <1>2, <1>4, <1>5 DEF Questions
<1>10. e.kind # "answered" => Questions' = Questions \cup {Len(log) + 1}
  BY <1>2, <1>4, <1>5, <1>6 DEF Questions
<1> QED BY <1>1, <1>2, <1>7, <1>8, <1>9, <1>10

\* The last of a set of positions is there after the set grew at its end.
LEMMA LastGrows ==
    ASSUME NEW n \in Nat, NEW S \in SUBSET (1 .. n), HasLast(S)
    PROVE  HasLast(S \cup {n + 1})
BY DEF HasLast

\* Events have positions in the log.
LEMMA Positions ==
    ASSUME QuestionTypes
    PROVE  /\ Len(log) \in Nat /\ Questions \in SUBSET (1 .. Len(log))
           /\ \A r \in Runs : OfRun(r) \in SUBSET (1 .. Len(log))
                              /\ OfRun(r) \cap Questions \in SUBSET (1 .. Len(log))
BY DEF QuestionTypes, Questions, OfRun

\* Every run has its last event and its last question after an append.
LEMMA LastEventsGrow ==
    ASSUME QuestionTypes, LastEvents, NEW e \in LogRows, log' = Append(log, e)
    PROVE  LastEvents'
<1> DEFINE n == Len(log)
<1>1. /\ \A r \in Runs : r # e.run => OfRun(r)' = OfRun(r)
      /\ \A r \in Runs : r = e.run => OfRun(r)' = OfRun(r) \cup {n + 1}
      /\ e.kind = "answered" => Questions' = Questions
      /\ e.kind # "answered" => Questions' = Questions \cup {n + 1}
  BY LogGrows
<1>2. n \in Nat /\ n + 1 \notin Questions /\ \A r \in Runs : n + 1 \notin OfRun(r)
  BY Positions
<1>3. ASSUME NEW r \in Runs PROVE (HasLast(OfRun(r)) /\ HasLast(OfRun(r) \cap Questions))'
  <2> DEFINE S == OfRun(r)
             Q == OfRun(r) \cap Questions
  <2>1. HasLast(S) /\ HasLast(Q) /\ S \in SUBSET (1 .. n) /\ Q \in SUBSET (1 .. n)
    BY Positions DEF LastEvents
  <2>2. HasLast(S \cup {n + 1}) /\ HasLast(Q \cup {n + 1})
    <3> HIDE DEF S, Q, n
    <3> QED BY <1>2, <2>1, LastGrows
  <2>3. OfRun(r)' = S \/ OfRun(r)' = S \cup {n + 1}
    BY <1>1
  <2>4. (OfRun(r) \cap Questions)' = Q \/ (OfRun(r) \cap Questions)' = Q \cup {n + 1}
    BY <1>1, <1>2
  <2> HIDE DEF S, Q, n
  <2> QED BY <2>1, <2>2, <2>3, <2>4 DEF HasLast
<1> QED BY <1>3 DEF LastEvents

\* What is open for a run stays open after an event of another run, and after
\* a question of its own.
LEMMA OpenGrows ==
    ASSUME QuestionTypes, NEW e \in LogRows, log' = Append(log, e), UNCHANGED cursor,
           NEW r \in Runs, Open(r), r # e.run \/ e.kind # "answered"
    PROVE  Open(r)'
<1> DEFINE n == Len(log)
<1>1. /\ n \in Nat /\ OfRun(r) \in SUBSET (1 .. n) /\ Questions \in SUBSET (1 .. n)
      /\ cursor' = cursor /\ \A i \in 1 .. n : log'[i] = log[i]
      /\ r # e.run => OfRun(r)' = OfRun(r)
      /\ r = e.run => OfRun(r)' = OfRun(r) \cup {n + 1}
      /\ e.kind = "answered" => Questions' = Questions
      /\ e.kind # "answered" => Questions' = Questions \cup {n + 1}
  BY LogGrows, Positions
<1>2. CASE r = e.run
  <2>1. n + 1 \in OfRun(r)' \cap Questions' /\ \A i \in OfRun(r)' : i <= n + 1
    BY <1>1, <1>2
  <2> QED BY <2>1 DEF Open
<1>3. CASE r # e.run
  <2>1. OfRun(r)' = OfRun(r) /\ Questions \subseteq Questions'
    BY <1>1, <1>3
  <2>2. \A i \in OfRun(r) : log'[i] = log[i]
    BY <1>1
  <2> HIDE DEF n
  <2> QED BY <1>1, <2>1, <2>2 DEF Open
<1> QED BY <1>2, <1>3

\* A question of run r opens it.
LEMMA QuestionOpens ==
    ASSUME QuestionTypes, NEW e \in LogRows, log' = Append(log, e), e.kind # "answered"
    PROVE  Open(e.run)'
<1>0. e.run \in Runs
  BY DEF LogRows
<1> DEFINE n == Len(log)
<1>1. /\ n \in Nat /\ OfRun(e.run) \in SUBSET (1 .. n)
      /\ OfRun(e.run)' = OfRun(e.run) \cup {n + 1} /\ Questions' = Questions \cup {n + 1}
  BY <1>0, LogGrows, Positions
<1>2. n + 1 \in OfRun(e.run)' \cap Questions' /\ \A i \in OfRun(e.run)' : i <= n + 1
  BY <1>1
<1> QED BY <1>2 DEF Open

\* A question more is counted, and stays within the bound.
LEMMA QuestionCounted ==
    ASSUME QuestionTypes, AskedBounded, CanAsk, NEW e \in LogRows, log' = Append(log, e),
           e.kind # "answered"
    PROVE  /\ IsFiniteSet(Questions') /\ Cardinality(Questions') = Cardinality(Questions) + 1
           /\ Cardinality(Questions') \in 0 .. MaxAsks
<1> DEFINE n == Len(log)
           Q == Questions
           c == Cardinality(Q)
<1>1. Questions' = Q \cup {n + 1} /\ n + 1 \notin Q
  BY LogGrows, Positions
<1>2. IsFiniteSet(Q) /\ c \in 0 .. MaxAsks /\ c < MaxAsks /\ MaxAsks \in Nat
  BY BoundsAssumption DEF AskedBounded, CanAsk
<1>3. IsFiniteSet(Q \cup {n + 1}) /\ Cardinality(Q \cup {n + 1}) = c + 1
  <2> HIDE DEF n, Q
  <2> QED BY <1>1, <1>2, FS_AddElement
<1> HIDE DEF Q, c, n
<1>4. Cardinality(Questions') = c + 1 /\ IsFiniteSet(Questions')
  BY <1>1, <1>3
<1>5. c + 1 \in 0 .. MaxAsks
  BY <1>2
<1> QED BY <1>4, <1>5 DEF c, Q

\* The end of a run ends its wait.
LEMMA EndKeepsQuestions ==
    ASSUME QuestionPart, NEW r \in Runs,
           run' = [run EXCEPT ![r] = "ended"], run \in [Runs -> {"none", "active", "ended"}],
           input' = [input EXCEPT ![r] = "none"],
           worker' = worker \/ worker' = [worker EXCEPT ![r] = [at |-> "gone", request |-> 0]],
           UNCHANGED <<log, cursor, asked, reads>>
    PROVE  QuestionPart'
<1> USE DEF QuestionPart
<1>1. worker' \in [Runs -> WorkerRows]
  <2>1. [at |-> "gone", request |-> 0] \in WorkerRows
    BY BoundsAssumption DEF WorkerRows
  <2> QED BY <2>1 DEF QuestionTypes
<1>2. QuestionTypes'
  BY <1>1 DEF QuestionTypes
<1>3. WorkersAsk'
  <2>1. \A q \in Runs : worker'[q] = worker[q] \/ worker'[q] = [at |-> "gone", request |-> 0]
    BY DEF QuestionTypes
  <2>2. ASSUME NEW q \in Runs, worker'[q].at \in {"waiting", "giving up"} PROVE worker'[q] = worker[q]
    <3>1. CASE worker'[q] = [at |-> "gone", request |-> 0]
      <4>1. worker'[q].at = "gone"
        BY <3>1
      <4> QED BY <2>2, <4>1
    <3> QED BY <2>1, <3>1
  <2> QED BY <2>2 DEF WorkersAsk
<1>4. AwaitingOpen'
  <2> SUFFICES ASSUME NEW q \in Runs, input'[q] = "awaiting" PROVE run'[q] = "active" /\ Open(q)'
    BY DEF AwaitingOpen
  <2>1. q # r /\ input[q] = "awaiting" /\ run'[q] = run[q]
    BY DEF QuestionTypes
  <2> QED BY <2>1 DEF AwaitingOpen, Open, OfRun, Questions
<1>5. AskedBounded' /\ LastEvents'
  BY DEF AskedBounded, LastEvents, OfRun, Questions
<1> QED BY <1>2, <1>3, <1>4, <1>5

\* So does a step of a worker that keeps to the rows there are.
LEMMA WorkerKeepsQuestions ==
    ASSUME QuestionPart, UNCHANGED <<run, log, cursor, input, asked>>,
           worker' \in [Runs -> WorkerRows], WorkersAsk',
           reads' \in [Requests -> Answers \cup {NoAnswer}]
    PROVE  QuestionPart'
<1> USE DEF QuestionPart
<1>1. Questions' = Questions /\ \A r \in Runs : OfRun(r)' = OfRun(r)
  BY DEF OfRun, Questions
<1>2. QuestionTypes'
  BY DEF QuestionTypes
<1>3. AskedBounded'
  BY <1>1 DEF AskedBounded
<1>4. LastEvents'
  BY <1>1 DEF LastEvents
<1>5. AwaitingOpen'
  BY <1>1 DEF AwaitingOpen, Open
<1> QED BY <1>2, <1>3, <1>4, <1>5

\* requestInput: the event and the row of a worker's question.
LEMMA RequestInputKeeps ==
    ASSUME QuestionPart, NEW r \in Runs, requestInput(r)
    PROVE  QuestionPart'
<1> USE DEF QuestionPart
<1>1. PICK cut \in BOOLEAN :
          /\ asked' = Append(asked, [run |-> r, state |-> IF cut THEN "lost" ELSE "pending",
                                     answer |-> NoAnswer])
          /\ worker' = IF cut THEN worker
                       ELSE [worker EXCEPT ![r] = [at |-> "waiting", request |-> Len(asked')]]
  BY DEF requestInput
<1>2. /\ CanAsk /\ log' = Append(log, Event("asked", r, Len(asked'), NoAnswer))
      /\ UNCHANGED <<run, cursor, input, reads>>
  BY DEF requestInput, runs
<1> DEFINE row == [run |-> r, state |-> IF cut THEN "lost" ELSE "pending", answer |-> NoAnswer]
<1>3. row \in AskRows
  BY DEF AskRows
<1>4. asked \in Seq(AskRows) /\ asked' = Append(asked, row)
  BY <1>1 DEF QuestionTypes
<1>5. asked' \in Seq(AskRows) /\ Len(asked') = Len(asked) + 1 /\ Len(asked) \in Nat
  <2> HIDE DEF row
  <2> QED BY <1>3, <1>4, AppendProperties
<1>6. PICK n \in Nat : n = Len(asked')
  BY <1>5
<1>7. n = Len(asked) + 1 /\ n \in 1 .. MaxAsks
  BY <1>2, <1>5, <1>6, BoundsAssumption DEF AskedBounded, CanAsk
<1>8. PICK e \in LogRows : e = Event("asked", r, n, NoAnswer)
  <2>1. n \in 0 .. MaxAsks
    BY <1>7
  <2>2. Event("asked", r, n, NoAnswer) \in LogRows
    BY <2>1 DEF LogRows, Event
  <2> QED BY <2>2
<1>9. log' = Append(log, e) /\ e.kind = "asked" /\ e.run = r
  BY <1>2, <1>6, <1>8 DEF Event
<1>10. worker' \in [Runs -> WorkerRows]
  <2>1. [at |-> "waiting", request |-> n] \in WorkerRows
    BY <1>7, BoundsAssumption DEF WorkerRows
  <2>2. CASE cut
    BY <1>1, <2>2 DEF QuestionTypes
  <2>3. CASE ~cut
    BY <1>1, <1>6, <2>1, <2>3 DEF QuestionTypes
  <2> QED BY <2>2, <2>3
<1>11. QuestionTypes'
  <2>1. log' \in Seq(LogRows) /\ Len(log') = Len(log) + 1 /\ Len(log) \in Nat
    BY <1>9, LogGrows
  <2>2. cursor' \in 0 .. Len(log')
    BY <1>2, <2>1 DEF QuestionTypes
  <2> QED BY <1>2, <1>5, <1>10, <2>1, <2>2 DEF QuestionTypes
<1>12. AskedBounded'
  <2>1. /\ IsFiniteSet(Questions') /\ Cardinality(Questions') = Cardinality(Questions) + 1
        /\ Cardinality(Questions') \in 0 .. MaxAsks
    BY <1>2, <1>9, QuestionCounted
  <2>2. Len(asked') <= Cardinality(Questions')
    BY <1>6, <1>7, <2>1, BoundsAssumption DEF AskedBounded
  <2> QED BY <2>1, <2>2 DEF AskedBounded
<1>13. WorkersAsk'
  <2>1. ASSUME NEW q \in Runs, worker'[q].at \in {"waiting", "giving up"}
        PROVE  worker'[q].request \in 1 .. Len(asked')
    <3>1. CASE cut \/ q # r
      <4>1. worker'[q] = worker[q]
        BY <1>1, <3>1 DEF QuestionTypes
      <4>2. worker[q].request \in 1 .. Len(asked)
        BY <2>1, <4>1 DEF WorkersAsk
      <4> QED BY <1>5, <4>1, <4>2
    <3>2. CASE ~cut /\ q = r
      <4>1. worker'[q] = [at |-> "waiting", request |-> n]
        BY <1>1, <1>6, <3>2 DEF QuestionTypes
      <4> QED BY <1>6, <1>7, <4>1
    <3> QED BY <3>1, <3>2
  <2> QED BY <2>1 DEF WorkersAsk
<1>14. LastEvents'
  BY <1>9, LastEventsGrow
<1>15. AwaitingOpen'
  <2> SUFFICES ASSUME NEW q \in Runs, input'[q] = "awaiting" PROVE run'[q] = "active" /\ Open(q)'
    BY DEF AwaitingOpen
  <2>1. run[q] = "active" /\ Open(q)
    BY <1>2 DEF AwaitingOpen
  <2> QED BY <1>2, <1>9, <2>1, OpenGrows
<1> QED BY <1>11, <1>12, <1>13, <1>14, <1>15

\* askFromCoordinator: the question the coordinator asks itself.
LEMMA PromptKeeps ==
    ASSUME QuestionPart, NEW r \in Runs, askFromCoordinator(r)
    PROVE  QuestionPart'
<1> USE DEF QuestionPart
<1>1. /\ run[r] = "active" /\ CanAsk
      /\ input' = [input EXCEPT ![r] = "awaiting"]
      /\ log' = Append(log, Event("prompt", r, 0, NoAnswer))
      /\ UNCHANGED <<run, cursor, asked, worker, reads>>
  BY DEF askFromCoordinator, runs
<1>2. PICK e \in LogRows : e = Event("prompt", r, 0, NoAnswer)
  <2>1. Event("prompt", r, 0, NoAnswer) \in LogRows
    BY BoundsAssumption DEF LogRows, Event
  <2> QED BY <2>1
<1>3. log' = Append(log, e) /\ e.kind = "prompt" /\ e.run = r
  BY <1>1, <1>2 DEF Event
<1>4. QuestionTypes'
  <2>1. log' \in Seq(LogRows) /\ Len(log') = Len(log) + 1 /\ Len(log) \in Nat
    BY <1>3, LogGrows
  <2>2. cursor' \in 0 .. Len(log')
    BY <1>1, <2>1 DEF QuestionTypes
  <2> QED BY <1>1, <2>1, <2>2 DEF QuestionTypes
<1>5. AskedBounded'
  <2>1. /\ IsFiniteSet(Questions') /\ Cardinality(Questions') = Cardinality(Questions) + 1
        /\ Cardinality(Questions') \in 0 .. MaxAsks
    BY <1>1, <1>3, QuestionCounted
  <2>2. Len(asked) \in Nat
    BY DEF QuestionTypes
  <2>3. Len(asked') <= Cardinality(Questions')
    BY <1>1, <2>1, <2>2, BoundsAssumption DEF AskedBounded
  <2> QED BY <2>1, <2>3 DEF AskedBounded
<1>6. WorkersAsk'
  BY <1>1 DEF WorkersAsk
<1>7. LastEvents'
  BY <1>3, LastEventsGrow
<1>8. AwaitingOpen'
  <2> SUFFICES ASSUME NEW q \in Runs, input'[q] = "awaiting" PROVE run'[q] = "active" /\ Open(q)'
    BY DEF AwaitingOpen
  <2>1. CASE q = r
    BY <1>1, <1>3, <2>1, QuestionOpens
  <2>2. CASE q # r
    <3>1. run[q] = "active" /\ Open(q)
      BY <1>1, <2>2 DEF AwaitingOpen, QuestionTypes
    <3> QED BY <1>1, <1>3, <3>1, OpenGrows
  <2> QED BY <2>1, <2>2
<1> QED BY <1>4, <1>5, <1>6, <1>7, <1>8

\* processEvent: an event of a question or of an answer, after the fact.
LEMMA ProcessEventKeeps ==
    ASSUME QuestionPart, processEvent
    PROVE  QuestionPart'
<1> USE DEF QuestionPart
<1>1. /\ cursor < Len(log) /\ cursor' = cursor + 1
      /\ input' = reduceLifecycleEvent(log[cursor'])
      /\ UNCHANGED <<run, log, asked, worker, reads>>
  BY DEF processEvent, runs
<1>2. PICK c \in 1 .. Len(log) : c = cursor + 1
  BY <1>1 DEF QuestionTypes
<1>3. PICK e \in LogRows : e = log[c]
  BY <1>2 DEF QuestionTypes
<1>4. e.run \in Runs /\ e.kind \in {"asked", "prompt", "answered"} /\ input' = reduceLifecycleEvent(e)
  BY <1>1, <1>2, <1>3 DEF LogRows
<1>5. /\ run[e.run] # "active" => input' = input
      /\ run[e.run] = "active" /\ e.kind = "asked" => input' = [input EXCEPT ![e.run] = "awaiting"]
      /\ run[e.run] = "active" /\ e.kind = "answered" => input' = [input EXCEPT ![e.run] = "none"]
      /\ run[e.run] = "active" /\ e.kind = "prompt" => input' = input
  BY <1>4 DEF reduceLifecycleEvent
<1>6. Questions' = Questions /\ \A r \in Runs : OfRun(r)' = OfRun(r)
  BY <1>1 DEF OfRun, Questions
<1>7. QuestionTypes'
  <2>1. input' \in [Runs -> {"none", "awaiting"}]
    BY <1>4, <1>5 DEF QuestionTypes
  <2>2. cursor' \in 0 .. Len(log')
    BY <1>1, <1>2
  <2> QED BY <1>1, <2>1, <2>2 DEF QuestionTypes
<1>8. AskedBounded' /\ WorkersAsk' /\ LastEvents'
  BY <1>1, <1>6 DEF AskedBounded, WorkersAsk, LastEvents
<1>9. AwaitingOpen'
  <2> SUFFICES ASSUME NEW r \in Runs, input'[r] = "awaiting" PROVE run'[r] = "active" /\ Open(r)'
    BY DEF AwaitingOpen
  <2>1. CASE input[r] = "awaiting"
    <3>1. run[r] = "active" /\ Open(r)
      BY <2>1 DEF AwaitingOpen
    <3>2. ~(e.run = r /\ e.kind = "answered")
      BY <1>5, <3>1 DEF QuestionTypes
    <3>3. CASE \E m \in OfRun(r) \cap Questions : \A i \in OfRun(r) : i <= m
      BY <1>1, <1>6, <3>1, <3>3 DEF Open
    <3>4. CASE \E i \in OfRun(r) : i > cursor /\ log[i].kind = "answered"
      <4>1. PICK i \in OfRun(r) : i > cursor /\ log[i].kind = "answered"
        BY <3>4
      <4>2. i \in Nat /\ cursor \in Nat /\ log[i].run = r
        BY Positions DEF OfRun, QuestionTypes
      <4>3. i # c
        BY <1>3, <3>2, <4>1, <4>2
      <4>4. i > cursor' /\ i \in OfRun(r)' /\ log'[i].kind = "answered"
        BY <1>1, <1>2, <1>6, <4>1, <4>2, <4>3
      <4> QED BY <1>1, <3>1, <4>4 DEF Open
    <3> QED BY <3>1, <3>3, <3>4 DEF Open
  <2>2. CASE input[r] # "awaiting"
    <3>1. e.run = r /\ e.kind = "asked" /\ run[r] = "active"
      BY <1>4, <1>5, <2>2 DEF QuestionTypes
    <3>2. c \in OfRun(r)
      BY <1>2, <1>3, <3>1 DEF OfRun, QuestionTypes
    <3>3. PICK m \in OfRun(r) : \A i \in OfRun(r) : i <= m
      BY <3>2 DEF LastEvents, HasLast
    <3>4. m \in 1 .. Len(log) /\ m \in DOMAIN log
      BY Positions DEF OfRun
    <3>5. log[m] \in LogRows
      BY <3>4 DEF QuestionTypes
    <3>6. log[m].kind \in {"asked", "prompt", "answered"}
      BY <3>5 DEF LogRows
    <3>7. CASE log[m].kind = "answered"
      <4>1. m # c /\ c <= m
        BY <1>3, <3>1, <3>2, <3>3, <3>7
      <4>2. m > cursor' /\ m \in OfRun(r)' /\ log'[m].kind = "answered"
        BY <1>1, <1>2, <1>6, <3>4, <3>7, <4>1
      <4> QED BY <1>1, <3>1, <4>2 DEF Open
    <3>8. CASE log[m].kind # "answered"
      <4>1. m \in Questions
        BY <3>4, <3>6, <3>8 DEF Questions
      <4> QED BY <1>1, <1>6, <3>1, <3>3, <4>1 DEF Open
    <3> QED BY <3>7, <3>8
  <2> QED BY <2>1, <2>2
<1> QED BY <1>7, <1>8, <1>9

\* The newest question of a run, if there is one, is the last of its questions.
LEMMA NewestIsLast ==
    ASSUME QuestionTypes, LastEvents, NEW r \in Runs
    PROVE  /\ Newest(r) \in (OfRun(r) \cap Questions) \cup {0}
           /\ \A j \in OfRun(r) \cap Questions : j <= Newest(r)
<1> DEFINE Q == OfRun(r) \cap Questions
<1>1. HasLast(Q) /\ Q \in SUBSET (1 .. Len(log))
  BY Positions DEF LastEvents
<1>2. \E i \in Q \cup {0} : \A j \in Q : j <= i
  BY <1>1 DEF HasLast
<1>3. Newest(r) = CHOOSE i \in Q \cup {0} : \A j \in Q : j <= i
  BY DEF Newest
<1> HIDE DEF Q
<1>4. Newest(r) \in Q \cup {0} /\ \A j \in Q : j <= Newest(r)
  BY <1>2, <1>3
<1> QED BY <1>4 DEF Q

\* respondInput: the row, the answer's event, and the wait it ends.
LEMMA RespondKeeps ==
    ASSUME QuestionPart, NEW r \in Runs, NEW a \in Answers, respondInput(r, a)
    PROVE  QuestionPart'
<1> USE DEF QuestionPart
<1> DEFINE q == log[Newest(r)].request
           row == IF run[r] = "active" THEN Row(r, q) ELSE 0
<1>1. /\ Newest(r) # 0
      /\ asked' = IF row = 0 THEN asked
                  ELSE [asked EXCEPT ![row] = [run |-> @.run, state |-> "answered", answer |-> a]]
      /\ UNCHANGED <<run, cursor, worker, reads>>
      /\ \/ /\ input' = [input EXCEPT ![r] = "none"]
            /\ log' = Append(log, Event("answered", r, q, a))
         \/ UNCHANGED <<input, log>>
  BY DEF respondInput, runs
<1>2. Newest(r) \in DOMAIN log
  BY <1>1, NewestIsLast DEF OfRun
<1>3. log[Newest(r)] \in LogRows
  BY <1>2 DEF QuestionTypes
<1>4. q \in 0 .. MaxAsks
  BY <1>3 DEF LogRows
<1>5. asked' \in Seq(AskRows) /\ Len(asked') = Len(asked)
  <2> HIDE DEF row
  <2>1. CASE row = 0
    BY <1>1, <2>1 DEF QuestionTypes
  <2>2. CASE row # 0
    <3>1. \A i \in DOMAIN asked : [run |-> asked[i].run, state |-> "answered", answer |-> a] \in AskRows
      <4>1. \A i \in DOMAIN asked : asked[i] \in AskRows
        BY DEF QuestionTypes
      <4> QED BY <4>1 DEF AskRows
    <3>2. asked' = [asked EXCEPT ![row] = [run |-> asked[row].run, state |-> "answered", answer |-> a]]
      BY <1>1, <2>2
    <3>3. PICK n \in Nat : n = Len(asked) /\ DOMAIN asked = 1 .. n /\ asked \in [1 .. n -> AskRows]
      BY DEF QuestionTypes
    <3>4. asked' \in [1 .. n -> AskRows]
      BY <3>1, <3>2, <3>3
    <3> QED BY <3>3, <3>4
  <2> QED BY <2>1, <2>2
<1>6. WorkersAsk'
  BY <1>1, <1>5 DEF WorkersAsk
<1>7. CASE UNCHANGED <<input, log>>
  <2>1. Questions' = Questions /\ \A p \in Runs : OfRun(p)' = OfRun(p)
    BY <1>7 DEF OfRun, Questions
  <2>2. QuestionTypes'
    BY <1>1, <1>5, <1>7 DEF QuestionTypes
  <2>3. AskedBounded' /\ LastEvents'
    BY <1>5, <2>1 DEF AskedBounded, LastEvents
  <2>4. AwaitingOpen'
    BY <1>1, <1>7, <2>1 DEF AwaitingOpen, Open
  <2> QED BY <1>6, <2>2, <2>3, <2>4
<1>8. CASE input' = [input EXCEPT ![r] = "none"] /\ log' = Append(log, Event("answered", r, q, a))
  <2>1. PICK e \in LogRows : e = Event("answered", r, q, a)
    <3>1. Event("answered", r, q, a) \in LogRows
      BY <1>4 DEF LogRows, Event
    <3> QED BY <3>1
  <2>2. log' = Append(log, e) /\ e.kind = "answered" /\ e.run = r
    BY <1>8, <2>1 DEF Event
  <2>3. QuestionTypes'
    <3>1. log' \in Seq(LogRows) /\ Len(log') = Len(log) + 1 /\ Len(log) \in Nat
      BY <2>2, LogGrows
    <3>2. cursor' \in 0 .. Len(log')
      BY <1>1, <3>1 DEF QuestionTypes
    <3>3. input' \in [Runs -> {"none", "awaiting"}]
      BY <1>8 DEF QuestionTypes
    <3> QED BY <1>1, <1>5, <3>1, <3>2, <3>3 DEF QuestionTypes
  <2>4. AskedBounded'
    <3>1. Questions' = Questions
      BY <2>2, LogGrows
    <3> QED BY <1>5, <3>1 DEF AskedBounded
  <2>5. LastEvents'
    BY <2>2, LastEventsGrow
  <2>6. AwaitingOpen'
    <3> SUFFICES ASSUME NEW p \in Runs, input'[p] = "awaiting" PROVE run'[p] = "active" /\ Open(p)'
      BY DEF AwaitingOpen
    <3>1. p # r /\ input[p] = "awaiting"
      BY <1>8 DEF QuestionTypes
    <3>2. run[p] = "active" /\ Open(p)
      BY <3>1 DEF AwaitingOpen
    <3> QED BY <1>1, <2>2, <3>1, <3>2, OpenGrows
  <2> QED BY <1>6, <2>3, <2>4, <2>5, <2>6
<1> QED BY <1>1, <1>7, <1>8

\* poll: a worker reads its answer, gives up or goes.
LEMMA PollKeeps ==
    ASSUME QuestionPart, NEW r \in Runs, poll(r)
    PROVE  QuestionPart'
<1> USE DEF QuestionPart
<1> DEFINE q == worker[r].request
<1>1. /\ worker[r].at = "waiting" /\ UNCHANGED <<run, log, cursor, input, asked>>
      /\ \/ \E a \in latestInputResponse(q) :
                /\ reads' = [reads EXCEPT ![q] = a]
                /\ worker' = [worker EXCEPT ![r] = [at |-> "working", request |-> 0]]
         \/ worker' = [worker EXCEPT ![r].at = "giving up"] /\ UNCHANGED reads
         \/ worker' = [worker EXCEPT ![r] = [at |-> "gone", request |-> 0]] /\ UNCHANGED reads
  BY DEF poll, runs
<1>2. q \in 1 .. Len(asked) /\ worker[r] \in WorkerRows
  BY <1>1 DEF WorkersAsk, QuestionTypes
<1>3. asked[q] \in AskRows
  BY <1>2 DEF QuestionTypes
<1>4. \A a \in latestInputResponse(q) : a \in Answers \cup {NoAnswer}
  BY <1>3 DEF latestInputResponse, AskRows
<1>5. reads' \in [Requests -> Answers \cup {NoAnswer}]
  <2> HIDE DEF q
  <2> QED BY <1>1, <1>4 DEF QuestionTypes
<1>6. PICK w \in WorkerRows : /\ worker' = [worker EXCEPT ![r] = w]
                              /\ w.at = "giving up" => w.request = q
                              /\ w.at # "waiting"
  <2>1. /\ [at |-> "working", request |-> 0] \in WorkerRows
        /\ [at |-> "gone", request |-> 0] \in WorkerRows
    BY BoundsAssumption DEF WorkerRows
  <2>2. [worker[r] EXCEPT !.at = "giving up"] \in WorkerRows
        /\ [worker[r] EXCEPT !.at = "giving up"].request = q
        /\ [worker[r] EXCEPT !.at = "giving up"].at = "giving up"
    BY <1>2 DEF WorkerRows
  <2>3. CASE worker' = [worker EXCEPT ![r].at = "giving up"]
    <3>1. worker' = [worker EXCEPT ![r] = [worker[r] EXCEPT !.at = "giving up"]]
      BY <2>3
    <3> QED BY <2>2, <3>1
  <2>4. CASE worker' = [worker EXCEPT ![r] = [at |-> "working", request |-> 0]]
    BY <2>1, <2>4
  <2>5. CASE worker' = [worker EXCEPT ![r] = [at |-> "gone", request |-> 0]]
    BY <2>1, <2>5
  <2> QED BY <1>1, <2>3, <2>4, <2>5
<1>7. worker' \in [Runs -> WorkerRows] /\ worker'[r] = w /\ \A p \in Runs : p # r => worker'[p] = worker[p]
  BY <1>6 DEF QuestionTypes
<1>8. WorkersAsk'
  <2> SUFFICES ASSUME NEW p \in Runs, worker'[p].at \in {"waiting", "giving up"}
               PROVE  worker'[p].request \in 1 .. Len(asked')
    BY DEF WorkersAsk
  <2>1. CASE p = r
    BY <1>1, <1>2, <1>6, <1>7, <2>1
  <2>2. CASE p # r
    BY <1>1, <1>7, <2>2 DEF WorkersAsk
  <2> QED BY <2>1, <2>2
<1> QED BY <1>1, <1>5, <1>7, <1>8, WorkerKeepsQuestions

\* Every step keeps the questions in order.
LEMMA QuestionStep == TerminalPart /\ QuestionPart /\ [Next]_vars => QuestionPart'
<1> SUFFICES ASSUME TerminalPart, QuestionPart, [Next]_vars PROVE QuestionPart'
  OBVIOUS
<1>0. run \in [Runs -> {"none", "active", "ended"}]
  BY DEF TerminalPart, TerminalTypes
<1>1. ASSUME NEW r \in Runs, requestInput(r) PROVE QuestionPart'
  BY <1>1, RequestInputKeeps
<1>2. ASSUME NEW r \in Runs, askFromCoordinator(r) PROVE QuestionPart'
  BY <1>2, PromptKeeps
<1>3. CASE processEvent
  BY <1>3, ProcessEventKeeps
<1>4. ASSUME NEW r \in Runs, NEW a \in Answers, respondInput(r, a) PROVE QuestionPart'
  BY <1>4, RespondKeeps
<1>5. ASSUME NEW r \in Runs, poll(r) PROVE QuestionPart'
  BY <1>5, PollKeeps
<1>6. ASSUME NEW r \in Runs, finishRun(r) \/ expireInputWait(r) PROVE QuestionPart'
  <2>1. /\ run' = [run EXCEPT ![r] = "ended"] /\ input' = [input EXCEPT ![r] = "none"]
        /\ UNCHANGED <<log, cursor, asked, worker, reads>>
    BY <1>6 DEF finishRun, expireInputWait, Ends
  <2> QED BY <1>0, <2>1, EndKeepsQuestions
<1>7. ASSUME NEW r \in Runs, timeoutInput(r) PROVE QuestionPart'
  <2>1. /\ worker' = [worker EXCEPT ![r] = [at |-> "gone", request |-> 0]]
        /\ UNCHANGED <<log, cursor, asked, reads>>
    BY <1>7 DEF timeoutInput
  <2>2. CASE Ends(r)
    BY <1>0, <2>1, <2>2, EndKeepsQuestions DEF Ends
  <2>3. CASE UNCHANGED <<run, input>>
    <3> DEFINE w == [at |-> "gone", request |-> 0]
    <3>1. w \in WorkerRows /\ w.at = "gone"
      BY BoundsAssumption DEF WorkerRows
    <3> HIDE DEF w
    <3>2. /\ worker' \in [Runs -> WorkerRows] /\ worker'[r] = w
          /\ \A p \in Runs : p # r => worker'[p] = worker[p]
      BY <2>1, <3>1 DEF QuestionPart, QuestionTypes, w
    <3>3. WorkersAsk'
      BY <2>1, <3>1, <3>2 DEF QuestionPart, WorkersAsk
    <3>4. reads' \in [Requests -> Answers \cup {NoAnswer}]
      BY <2>1 DEF QuestionPart, QuestionTypes
    <3> QED BY <2>1, <2>3, <3>2, <3>3, <3>4, WorkerKeepsQuestions
  <2> QED BY <1>7, <2>2, <2>3 DEF timeoutInput
<1>8. ASSUME NEW r \in Runs, launchWorkerSession(r) PROVE QuestionPart'
  <2>1. run' = [run EXCEPT ![r] = "active"] /\ UNCHANGED questions
    BY <1>8 DEF launchWorkerSession
  <2>2. \A q \in Runs : run[q] = "active" => run'[q] = "active"
    BY <1>0, <2>1
  <2>3. Questions' = Questions /\ \A q \in Runs : OfRun(q)' = OfRun(q)
    BY <2>1 DEF questions, OfRun, Questions
  <2>4. QuestionTypes' /\ AskedBounded' /\ WorkersAsk' /\ LastEvents'
    BY <2>1, <2>3 DEF questions, QuestionPart, QuestionTypes, AskedBounded, WorkersAsk, LastEvents
  <2>5. AwaitingOpen'
    BY <2>1, <2>2, <2>3 DEF questions, QuestionPart, AwaitingOpen, Open
  <2> QED BY <2>4, <2>5 DEF QuestionPart
<1>9. CASE UNCHANGED <<run, log, cursor, input, asked, worker, reads>>
  <2>1. /\ worker' \in [Runs -> WorkerRows] /\ WorkersAsk'
        /\ reads' \in [Requests -> Answers \cup {NoAnswer}]
    BY <1>9 DEF QuestionPart, QuestionTypes, WorkersAsk
  <2> QED BY <1>9, <2>1, WorkerKeepsQuestions
<1>10. CASE \/ \E r \in Runs : closeSession(r) \/ provider(r) \/ openShell(r) \/ ShellDies(r)
            \/ \E t \in Terminals :
                  \/ observe(t) \/ LeaseExpires(t) \/ SendLeaseExpires(t)
                  \/ \E o \in Operators : acquire(o, t) \/ write(o, t) \/ release(o, t)
            \/ \E k \in Senders : sendText(k) \/ sendEnter(k)
            \/ reconcile \/ ProviderDies \/ Crash \/ startControlServer \/ UNCHANGED vars
  <2>1. UNCHANGED <<run, log, cursor, input, asked, worker, reads>>
    BY <1>10 DEF closeSession, provider, openShell, ShellDies, observe, LeaseExpires, SendLeaseExpires, acquire,
                 write, release, sendText, sendEnter, reconcile, ProviderDies, Crash, startControlServer, vars,
                 runs, questions
  <2> QED BY <1>9, <2>1
<1> QED BY <1>1, <1>2, <1>3, <1>4, <1>5, <1>6, <1>7, <1>8, <1>10 DEF Next

\* The agent starts without runs, and the installation without questions.
LEMMA ApiInitially == Init => ApiInv
<1> SUFFICES ASSUME Init PROVE ApiInv
  OBVIOUS
<1>1. TerminalPart
  <2>1. Free \in Leases /\ 0 \in 0 .. MaxRuns /\ 0 \in 0 .. MaxCrashes
    BY BoundsAssumption DEF Free, Leases
  <2> QED BY <2>1 DEF Init, TerminalPart, TerminalTypes, RunsOrdered, SendHolds
<1>2. Questions = {} /\ \A r \in Runs : OfRun(r) = {}
  BY DEF Init, Questions, OfRun
<1>3. QuestionTypes
  <2>1. [at |-> "working", request |-> 0] \in WorkerRows
    BY BoundsAssumption DEF WorkerRows
  <2> QED BY <2>1 DEF Init, QuestionTypes
<1>4. AskedBounded
  <2>1. IsFiniteSet({}) /\ Cardinality({}) = 0
    BY FS_EmptySet
  <2>2. Len(asked) = 0
    BY DEF Init
  <2> QED BY <1>2, <2>1, <2>2, BoundsAssumption DEF AskedBounded
<1>5. WorkersAsk /\ LastEvents /\ AwaitingOpen
  BY <1>2 DEF Init, WorkersAsk, LastEvents, HasLast, AwaitingOpen
<1> QED BY <1>1, <1>3, <1>4, <1>5 DEF ApiInv, QuestionPart

\* Every reachable state satisfies both parts.
THEOREM ApiInvariant == Spec => []ApiInv
<1>1. ApiInv /\ [Next]_vars => ApiInv'
  BY TerminalStep, QuestionStep DEF ApiInv
<1> QED BY <1>1, ApiInitially, PTL DEF Spec

\* Runs, terminals, leases, sends and questions keep their types.
THEOREM ApiTyped == Spec => []TypeOK
<1>1. ApiInv => TypeOK
  BY DEF ApiInv, TerminalPart, TerminalTypes, Leases, QuestionPart, QuestionTypes, LogRows, AskRows, WorkerRows, TypeOK
<1> QED BY <1>1, ApiInvariant, PTL

\* sendInputToAgent and write: the lease a send takes keeps every operator's
\* keys from between its text and its Enter.
THEOREM TextGoesAlone == Spec => []TextIsSubmittedAlone
<1>1. ApiInv => TextIsSubmittedAlone
  BY DEF ApiInv, TerminalPart, TextIsSubmittedAlone
<1> QED BY <1>1, ApiInvariant, PTL

\* isCurrent and write: keys typed under a lease reach the run of the lease,
\* although the agent's next run has the same tmux session name.
THEOREM KeysReachTheirLease == Spec => KeysReachTheirRun
<1>1. ApiInv /\ [Next]_vars => \A o \in Operators, r \in Runs : write(o, <<"provider", r>>) => pane = r
  <2> SUFFICES ASSUME ApiInv, NEW o \in Operators, NEW r \in Runs, write(o, <<"provider", r>>) PROVE pane = r
    OBVIOUS
  <2>1. isCurrent(<<"provider", r>>) /\ pane # 0
    BY DEF write, available, alive
  <2> QED BY <2>1, AvailableIsPane DEF ApiInv, TerminalPart
<1>2. Spec => [][\A o \in Operators, r \in Runs : write(o, <<"provider", r>>) => pane = r]_vars
  BY <1>1, ApiInvariant, PTL DEF Spec
<1> QED BY <1>2 DEF KeysReachTheirRun

\* respondInput and processEvent: once the coordinator has handled every
\* event, a run that waits for input has an unanswered question, in whatever
\* order questions, answers, crashes and the handling of their events came.
THEOREM WaitsAreUnanswered == Spec => []AwaitingIsUnanswered
<1>1. ApiInv => AwaitingIsUnanswered
  <2> SUFFICES ASSUME ApiInv, cursor = Len(log), NEW r \in Runs, input[r] = "awaiting" PROVE Unanswered(r)
    BY DEF AwaitingIsUnanswered
  <2> USE DEF ApiInv, QuestionPart
  <2>1. OfRun(r) \in SUBSET (1 .. Len(log)) /\ Len(log) \in Nat
    BY Positions
  <2>2. PICK m \in OfRun(r) \cap Questions : \A i \in OfRun(r) : i <= m
    BY <2>1 DEF AwaitingOpen, Open
  <2>3. /\ Newest(r) \in (OfRun(r) \cap Questions) \cup {0}
        /\ \A j \in OfRun(r) \cap Questions : j <= Newest(r)
    BY NewestIsLast
  <2>4. m >= 1 /\ m <= Newest(r) /\ m \in Nat /\ Newest(r) \in Nat
    BY <2>1, <2>2, <2>3
  <2>5. \A i \in OfRun(r) : i <= Newest(r)
    BY <2>1, <2>2, <2>4
  <2> QED BY <2>4, <2>5 DEF Unanswered
<1> QED BY <1>1, ApiInvariant, PTL

-----------------------------------------------------------------------------
(* The control server.                                                     *)

\* The server: its state, its start, and the start on disk.
ServerPart ==
    /\ daemon \in {"down", "listening", "open", "closing"}
    /\ starts \in 0 .. MaxStarts /\ endpoint \in 0 .. MaxStarts

\* A client that will try again left nothing at the server, and a request the
\* server still holds was not applied: only "unavailable" is tried again, and
\* that answer takes the request away.
RequestOK(c) ==
    /\ client[c].at \in {"new", "found"} => pending[c] = "none"
    /\ client[c].at \in {"new", "found", "sent"} => applied[c] = 0
    /\ pending[c] # "none" => applied[c] = 0
    /\ client[c].at = "done" => applied[c] = 1
    /\ applied[c] \in {0, 1}

ClientRows == [at : {"new", "found", "sent", "done", "failed"}, token : 0 .. MaxStarts]

RequestPart ==
    /\ client \in [Clients -> ClientRows]
    /\ pending \in [Clients -> {"none", "arrived", "reading"}]
    /\ applied \in [Clients -> Nat]
    /\ \A c \in Clients : RequestOK(c)

\* What was seen and what is on the way are the first events, in order, and
\* an open stream goes on after them.
StreamPart ==
    /\ rows \in 0 .. MaxEvents /\ seen \in Seq(1 .. MaxEvents)
    /\ stream \in [open : BOOLEAN, cursor : 0 .. MaxEvents, wire : Seq(1 .. MaxEvents), draining : BOOLEAN]
    /\ StreamHasNoGaps
    /\ \A i \in 1 .. Len(stream.wire) : stream.wire[i] = Len(seen) + i
    /\ stream.open => stream.cursor = Len(seen) + Len(stream.wire)

MessageRows == [state : {"none", "queued", "consumed"}, to : 0 .. MaxSessions, command : 0 .. MaxSessions]

\* A queued message with a command was announced to the session it is for.
MessagePart ==
    /\ current \in 1 .. MaxSessions
    /\ message \in [Keys -> MessageRows]
    /\ commands \subseteq Keys \X (1 .. MaxSessions)
    /\ told \in [Keys -> 0 .. MaxSessions]
    /\ \A k \in Keys : message[k].state = "queued" /\ message[k].command # 0 => <<k, message[k].to>> \in commands
    /\ MessagesAreAnnounced

ServerInv == ServerPart /\ RequestPart /\ StreamPart /\ MessagePart

\* Before the first start nothing was sent, read or announced.
LEMMA ServerInitially == SInit => ServerInv
<1> SUFFICES ASSUME SInit PROVE ServerInv
  OBVIOUS
<1> USE ServerBounds DEF SInit
<1>1. ServerPart BY DEF ServerPart
<1>2. RequestPart BY DEF RequestPart, RequestOK, ClientRows
<1>3. StreamPart
  <2>1. seen = <<>> /\ stream.wire = <<>> BY DEF Closed
  <2>2. Len(seen) = 0 /\ Len(stream.wire) = 0 BY <2>1
  <2>3. StreamHasNoGaps BY <2>1 DEF StreamHasNoGaps
  <2> QED BY <2>1, <2>2, <2>3 DEF StreamPart, Closed
<1>4. MessagePart BY DEF MessagePart, MessagesAreAnnounced, MessageRows, NoMessage
<1> QED BY <1>1, <1>2, <1>3, <1>4 DEF ServerInv

-----------------------------------------------------------------------------
(* The server and the requests.                                            *)

\* The start on disk is one that happened.
LEMMA ServerPartKept == ServerPart /\ [SNext]_svars => ServerPart'
<1> SUFFICES ASSUME ServerPart, [SNext]_svars PROVE ServerPart'
  OBVIOUS
<1> USE DEF ServerPart, server
<1>1. CASE listen BY <1>1, ServerBounds DEF listen
<1>2. CASE writeEndpoint BY <1>2 DEF writeEndpoint
<1>3. CASE close BY <1>3, ServerBounds DEF close
<1>4. CASE ProcessEnds BY <1>4 DEF ProcessEnds, Gone
<1>5. CASE \E k \in Keys : sendMessage(k) BY <1>5 DEF sendMessage, Gone
<1>6. CASE UNCHANGED server BY <1>6
<1> QED BY <1>1, <1>2, <1>3, <1>4, <1>5, <1>6
     DEF SNext, svars, discover, connect, route, applyLifecycle, TimesOut, appendEvent, subscribe, pump, Receives,
         Disconnects, SessionReplaced, consumeMessage

\* A failed attempt of a request that is not at the server any more.
LEMMA FailsKeeps ==
    ASSUME RequestPart, NEW c \in Clients, NEW code, Fails(c, code),
           client[c].at \in {"new", "found", "sent"},
           \/ UNCHANGED pending
           \/ pending' = [pending EXCEPT ![c] = "none"],
           Retries(code) => pending'[c] = "none", UNCHANGED applied
    PROVE  RequestPart'
<1> USE DEF RequestPart, RequestOK, ClientRows, Fails
<1>1. 0 \in 0 .. MaxStarts BY ServerBounds
<1>2. CASE Retries(code) /\ client' = [client EXCEPT ![c] = [at |-> "new", token |-> 0]] BY <1>1, <1>2
<1>3. CASE client' = [client EXCEPT ![c].at = "failed"] BY <1>3
<1> QED BY <1>2, <1>3

\* An answer: its request is gone from the server.
LEMMA RepliesKeeps ==
    ASSUME RequestPart, NEW c \in Clients, NEW code, Replies(c, code), code # "ok", UNCHANGED applied
    PROVE  RequestPart'
<1>1. pending' = [pending EXCEPT ![c] = "none"] BY DEF Replies
<1>2. CASE ~Is(c, "sent")
  <2>1. UNCHANGED client BY <1>2 DEF Replies
  <2> QED BY <1>1, <2>1 DEF RequestPart, RequestOK
<1>3. CASE Is(c, "sent")
  <2>1. Fails(c, code) /\ client[c].at = "sent" BY <1>3 DEF Replies, Is
  <2>2. pending'[c] = "none" BY <1>1 DEF RequestPart
  <2> QED BY <1>1, <2>1, <2>2, FailsKeeps
<1> QED BY <1>2, <1>3

\* The process ends: nothing is held any more, and who waited fails for good.
LEMMA GoneKeepsRequests ==
    ASSUME RequestPart, Gone, UNCHANGED applied
    PROVE  RequestPart'
<1> QED BY DEF RequestPart, RequestOK, ClientRows, Gone

\* No step makes a client try again what the server still holds or has applied.
LEMMA RequestPartKept == ServerPart /\ RequestPart /\ [SNext]_svars => RequestPart'
<1> SUFFICES ASSUME ServerPart, RequestPart, [SNext]_svars PROVE RequestPart'
  OBVIOUS
<1>1. ASSUME NEW c \in Clients, discover(c) PROVE RequestPart'
  <2>1. client[c].at = "new" /\ UNCHANGED <<pending, applied>> BY <1>1 DEF discover, Is
  <2>2. pending[c] = "none" BY <2>1 DEF RequestPart, RequestOK
  <2>3. CASE Fails(c, "unavailable") BY <2>1, <2>2, <2>3, FailsKeeps
  <2>4. CASE client' = [client EXCEPT ![c] = [at |-> "found", token |-> endpoint]]
    BY <2>1, <2>4 DEF RequestPart, RequestOK, ClientRows, ServerPart
  <2> QED BY <1>1, <2>3, <2>4 DEF discover
<1>2. ASSUME NEW c \in Clients, connect(c) PROVE RequestPart'
  <2>1. client[c].at = "found" /\ UNCHANGED applied BY <1>2 DEF connect, Is
  <2>2. pending[c] = "none" BY <2>1 DEF RequestPart, RequestOK
  <2>3. CASE Fails(c, "unavailable") /\ UNCHANGED pending BY <2>1, <2>2, <2>3, FailsKeeps
  <2>4. CASE /\ client' = [client EXCEPT ![c].at = "sent"]
             /\ pending' = [pending EXCEPT ![c] = "arrived"]
    BY <2>1, <2>4 DEF RequestPart, RequestOK, ClientRows
  <2> QED BY <1>2, <2>3, <2>4 DEF connect
<1>3. ASSUME NEW c \in Clients, route(c) PROVE RequestPart'
  <2>1. UNCHANGED applied /\ pending[c] = "arrived" BY <1>3 DEF route
  <2>2. CASE Replies(c, "unavailable") \/ Replies(c, "unauthenticated") BY <2>1, <2>2, RepliesKeeps
  <2>3. CASE pending' = [pending EXCEPT ![c] = "reading"] /\ UNCHANGED client
    BY <2>1, <2>3 DEF RequestPart, RequestOK
  <2> QED BY <1>3, <2>2, <2>3 DEF route
<1>4. ASSUME NEW c \in Clients, applyLifecycle(c) PROVE RequestPart'
  <2>1. CASE Replies(c, "unavailable") /\ UNCHANGED applied BY <2>1, RepliesKeeps
  <2>2. CASE Replies(c, "ok") /\ applied' = [applied EXCEPT ![c] = @ + 1]
    <3>1. pending[c] = "reading" BY <1>4 DEF applyLifecycle
    <3>2. applied[c] = 0 BY <3>1 DEF RequestPart, RequestOK
    <3>3. pending' = [pending EXCEPT ![c] = "none"]
          /\ (client[c].at = "sent" => client' = [client EXCEPT ![c].at = "done"])
          /\ (client[c].at # "sent" => client' = client)
      BY <2>2 DEF Replies, Is
    <3>4. client[c].at \in {"sent", "failed"} BY <3>1, <3>2 DEF RequestPart, RequestOK, ClientRows
    <3> QED BY <2>2, <3>2, <3>3, <3>4 DEF RequestPart, RequestOK, ClientRows
  <2> QED BY <1>4, <2>1, <2>2 DEF applyLifecycle
<1>5. ASSUME NEW c \in Clients, TimesOut(c) PROVE RequestPart'
  <2>1. /\ client[c].at = "sent" /\ Fails(c, "timed out") /\ UNCHANGED applied
        /\ pending' \in {pending, [pending EXCEPT ![c] = "none"]}
    BY <1>5 DEF TimesOut, Is
  <2>2. ~Retries("timed out") BY DEF Retries
  <2> QED BY <2>1, <2>2, FailsKeeps
<1>6. CASE ProcessEnds BY <1>6, GoneKeepsRequests DEF ProcessEnds
<1>7. ASSUME NEW k \in Keys, sendMessage(k) PROVE RequestPart'
  <2>1. CASE UNCHANGED requests BY <2>1 DEF requests, RequestPart, RequestOK
  <2>2. CASE Gone /\ UNCHANGED applied BY <2>2, GoneKeepsRequests
  <2> QED BY <1>7, <2>1, <2>2 DEF sendMessage
<1>8. CASE UNCHANGED requests BY <1>8 DEF requests, RequestPart, RequestOK
<1> QED BY <1>1, <1>2, <1>3, <1>4, <1>5, <1>6, <1>7, <1>8
     DEF SNext, svars, listen, writeEndpoint, close, appendEvent, subscribe, pump, Receives, Disconnects,
         SessionReplaced, consumeMessage

-----------------------------------------------------------------------------
(* The event stream.                                                       *)

\* A stream that breaks keeps what is on the way.
LEMMA BreakKeeps ==
    ASSUME StreamPart, stream' = [stream EXCEPT !.open = FALSE], UNCHANGED <<rows, seen>>
    PROVE  StreamPart'
<1> QED BY DEF StreamPart, StreamHasNoGaps

\* The subscriber resumes after the last event it was given.
LEMMA SubscribeKeeps ==
    ASSUME StreamPart, subscribe
    PROVE  StreamPart'
<1>1. /\ stream.wire = <<>> /\ UNCHANGED <<rows, seen>>
      /\ stream' = [open |-> TRUE, cursor |-> Resume, wire |-> <<>>, draining |-> FALSE]
  BY DEF subscribe, Closed
<1>2. Resume = Len(seen)
  <2>1. CASE seen = <<>> BY <2>1 DEF Resume
  <2>2. CASE seen # <<>>
    <3>1. seen \in Seq(1 .. MaxEvents) /\ Len(seen) \in Nat \ {0} BY <2>2 DEF StreamPart
    <3>2. Len(seen) \in DOMAIN seen BY <3>1
    <3> QED BY <2>2, <3>1, <3>2 DEF Resume, Last, StreamPart, StreamHasNoGaps
  <2> QED BY <2>1, <2>2
<1>3. Resume \in 0 .. MaxEvents
  <2>1. CASE seen = <<>> BY <2>1, ServerBounds DEF Resume
  <2>2. CASE seen # <<>>
    <3>1. seen \in Seq(1 .. MaxEvents) BY DEF StreamPart
    <3>2. Len(seen) \in 1 .. Len(seen) BY <2>2, <3>1, EmptySeq
    <3>3. seen[Len(seen)] \in 1 .. MaxEvents BY <3>1, <3>2, ElementOfSeq
    <3> QED BY <2>2, <3>3, ServerBounds DEF Resume, Last
  <2> QED BY <2>1, <2>2
<1>4. stream'.wire = <<>> /\ Len(stream'.wire) = 0 /\ stream'.cursor = Len(seen') + 0
  BY <1>1, <1>2 DEF StreamPart
<1>5. stream' \in [open : BOOLEAN, cursor : 0 .. MaxEvents, wire : Seq(1 .. MaxEvents), draining : BOOLEAN]
  BY <1>1, <1>3
<1> QED BY <1>1, <1>4, <1>5 DEF StreamPart, StreamHasNoGaps

\* What pump adds continues what is on the way.
LEMMA PumpKeeps ==
    ASSUME StreamPart, pump
    PROVE  StreamPart'
<1> DEFINE n == Len(seen)  w == stream.wire
           batch == readEventBatch(stream.cursor)
           room == HighWater - Len(w)
           k == IF Len(batch) < room THEN Len(batch) ELSE room
           sent == SubSeq(batch, 1, k)
<1>1. /\ stream.open /\ sent # <<>> /\ UNCHANGED <<rows, seen>>
      /\ stream' = [stream EXCEPT !.cursor = Last(sent), !.wire = w \o sent,
                                  !.draining = Len(w \o sent) >= HighWater]
  BY DEF pump
<1>2. /\ n \in Nat /\ w \in Seq(1 .. MaxEvents) /\ Len(w) \in Nat /\ rows \in 0 .. MaxEvents
      /\ stream.cursor = n + Len(w) /\ stream.cursor \in 0 .. MaxEvents
  BY <1>1 DEF StreamPart
<1>3. batch \in Seq(1 .. MaxEvents) /\ Len(batch) \in Nat /\ \A i \in 1 .. Len(batch) : batch[i] = stream.cursor + i
  <2>1. CASE rows > stream.cursor
    <3>1. rows - stream.cursor \in Nat BY <1>2, <2>1
    <3>2. \A i \in 1 .. rows - stream.cursor : stream.cursor + i \in 1 .. MaxEvents BY <1>2, <2>1, ServerBounds
    <3>3. batch \in [1 .. rows - stream.cursor -> 1 .. MaxEvents] BY <3>2 DEF readEventBatch
    <3>4. batch \in Seq(1 .. MaxEvents) BY <3>1, <3>3, SeqDef
    <3>5. DOMAIN batch = 1 .. rows - stream.cursor BY <3>3
    <3>6. Len(batch) \in Nat /\ DOMAIN batch = 1 .. Len(batch) BY <3>4, LenProperties
    <3>7. Len(batch) = rows - stream.cursor BY <3>1, <3>5, <3>6
    <3>8. \A i \in 1 .. rows - stream.cursor : batch[i] = stream.cursor + i BY DEF readEventBatch
    <3> HIDE DEF batch
    <3> QED BY <3>1, <3>4, <3>7, <3>8
  <2>2. CASE rows <= stream.cursor
    <3>0. rows - stream.cursor \in Int /\ rows - stream.cursor <= 0 BY <1>2, <2>2
    <3>1. 1 .. rows - stream.cursor = {} /\ 1 .. 0 = {} BY <3>0
    <3>2. batch \in [1 .. rows - stream.cursor -> 1 .. MaxEvents] BY <3>1 DEF readEventBatch
    <3>3. batch \in [1 .. 0 -> 1 .. MaxEvents] BY <3>1, <3>2
    <3> HIDE DEF batch
    <3>4. batch \in Seq(1 .. MaxEvents) BY <3>3, SeqDef
    <3>5. DOMAIN batch = {} BY <3>1, <3>3
    <3>6. Len(batch) \in Nat /\ DOMAIN batch = 1 .. Len(batch) BY <3>4, LenProperties
    <3>7. Len(batch) = 0
      <4>1. CASE Len(batch) > 0
        <5>1. 1 \in 1 .. Len(batch) BY <3>6, <4>1
        <5> QED BY <3>5, <3>6, <5>1
      <4> QED BY <3>6, <4>1
    <3> QED BY <3>1, <3>4, <3>7
  <2> QED BY <1>2, <2>1, <2>2
<1>4. k \in Int /\ k <= Len(batch) BY <1>2, <1>3, ServerBounds
<1> HIDE DEF batch, k
<1>5. k \in 1 .. Len(batch)
  <2>1. CASE k < 1
    <3>1. sent = <<>> BY <1>3, <1>4, <2>1
    <3> QED BY <1>1, <3>1
  <2> QED BY <1>3, <1>4, <2>1
<1>6. sent \in Seq(1 .. MaxEvents) /\ Len(sent) = k /\ \A i \in 1 .. k : sent[i] = stream.cursor + i
  <2>1. k \in Int /\ 1 \in Int /\ k - 1 + 1 = k /\ 1 <= k BY <1>3, <1>5
  <2>2. \A i \in 1 .. k : batch[i] \in 1 .. MaxEvents
    <3> TAKE i \in 1 .. k
    <3>1. i \in 1 .. Len(batch) BY <1>3, <1>5
    <3> QED BY <1>3, <3>1, ElementOfSeq
  <2>3. /\ sent \in Seq(1 .. MaxEvents) /\ Len(sent) = k
        /\ \A i \in 1 .. k : sent[i] = batch[1 + i - 1]
    BY <2>1, <2>2, SubSeqProperties
  <2>4. \A i \in 1 .. k : 1 + i - 1 = i /\ i \in 1 .. Len(batch) BY <1>3, <1>5
  <2> QED BY <1>3, <2>3, <2>4
<1> HIDE DEF sent
<1>7. Last(sent) = stream.cursor + k /\ Last(sent) \in 1 .. MaxEvents
  <2>1. k \in 1 .. Len(sent) BY <1>3, <1>5, <1>6
  <2>2. sent[k] \in 1 .. MaxEvents BY <1>6, <2>1, ElementOfSeq
  <2> QED BY <1>6, <2>1, <2>2 DEF Last
<1>8. /\ w \o sent \in Seq(1 .. MaxEvents) /\ Len(w \o sent) = Len(w) + k
      /\ \A i \in 1 .. Len(w) + k : (w \o sent)[i] = IF i <= Len(w) THEN w[i] ELSE sent[i - Len(w)]
  <2>1. /\ w \o sent \in Seq(1 .. MaxEvents) /\ Len(w \o sent) = Len(w) + Len(sent)
        /\ \A i \in 1 .. Len(w) + Len(sent) :
               (w \o sent)[i] = IF i <= Len(w) THEN w[i] ELSE sent[i - Len(w)]
    <3>1. w \in Seq(1 .. MaxEvents) /\ sent \in Seq(1 .. MaxEvents) BY <1>2, <1>6
    <3> HIDE DEF w
    <3> QED BY <3>1, ConcatProperties, Zenon
  <2>2. Len(sent) = k BY <1>6
  <2> QED BY <2>1, <2>2
<1>9. \A i \in 1 .. Len(w) + k : (w \o sent)[i] = n + i
  <2> SUFFICES ASSUME NEW i \in 1 .. Len(w) + k PROVE (w \o sent)[i] = n + i
    OBVIOUS
  <2>1. CASE i <= Len(w) BY <1>2, <1>8, <2>1 DEF StreamPart
  <2>2. CASE i > Len(w)
    <3>1. i - Len(w) \in 1 .. k BY <1>2, <1>3, <1>5, <2>2
    <3> QED BY <1>2, <1>6, <1>8, <2>2, <3>1
  <2>3. i \in Int /\ Len(w) \in Int BY <1>2, <1>3, <1>5
  <2>4. i <= Len(w) \/ i > Len(w) BY <2>3
  <2> QED BY <2>1, <2>2, <2>4
<1>10. /\ stream'.wire = w \o sent /\ stream'.cursor = Last(sent)
       /\ stream' \in [open : BOOLEAN, cursor : 0 .. MaxEvents, wire : Seq(1 .. MaxEvents), draining : BOOLEAN]
  <2>1. stream \in [open : BOOLEAN, cursor : 0 .. MaxEvents, wire : Seq(1 .. MaxEvents), draining : BOOLEAN]
    BY DEF StreamPart
  <2>2. Last(sent) \in 0 .. MaxEvents BY <1>7
  <2>3. (Len(w \o sent) >= HighWater) \in BOOLEAN OBVIOUS
  <2> QED BY <1>1, <1>8, <2>1, <2>2, <2>3
<1>11. Len(stream'.wire) = Len(w) + k /\ Last(sent) = n + (Len(w) + k)
  BY <1>2, <1>3, <1>5, <1>7, <1>8, <1>10
<1>12. \A i \in 1 .. Len(stream'.wire) : stream'.wire[i] = n + i BY <1>9, <1>10, <1>11
<1>13. n' = n /\ rows' \in 0 .. MaxEvents /\ seen' \in Seq(1 .. MaxEvents) /\ StreamHasNoGaps'
  BY <1>1 DEF StreamPart, StreamHasNoGaps
<1> QED BY <1>10, <1>11, <1>12, <1>13 DEF StreamPart

\* The next frame is the event after those that were seen.
LEMMA ReceivesKeeps ==
    ASSUME StreamPart, Receives
    PROVE  StreamPart'
<1> DEFINE n == Len(seen)  w == stream.wire
<1>1. /\ w # <<>> /\ UNCHANGED rows
      /\ seen' = Append(seen, Head(w)) /\ stream' = [stream EXCEPT !.wire = Tail(w)]
  BY DEF Receives
<1>2. /\ seen \in Seq(1 .. MaxEvents) /\ n \in Nat /\ w \in Seq(1 .. MaxEvents) /\ Len(w) \in Nat \ {0}
      /\ \A i \in 1 .. Len(w) : w[i] = n + i
      /\ \A i \in 1 .. n : seen[i] = i
  BY <1>1 DEF StreamPart, StreamHasNoGaps
<1>3. Head(w) = n + 1 /\ Head(w) \in 1 .. MaxEvents
  <2>1. 1 \in 1 .. Len(w) BY <1>2
  <2>2. Head(w) = w[1] BY <1>2
  <2>3. w[1] \in 1 .. MaxEvents BY <1>2, <2>1, ElementOfSeq
  <2>4. w[1] = n + 1 BY <1>2, <2>1
  <2> QED BY <2>2, <2>3, <2>4
<1>4. /\ Tail(w) \in Seq(1 .. MaxEvents) /\ Len(Tail(w)) = Len(w) - 1
      /\ \A i \in 1 .. Len(w) - 1 : Tail(w)[i] = w[i + 1]
  BY <1>1, <1>2, HeadTailProperties
<1>5. /\ seen' \in Seq(1 .. MaxEvents) /\ Len(seen') = n + 1
      /\ \A i \in 1 .. n + 1 : seen'[i] = i
  BY <1>1, <1>2, <1>3
<1>6. /\ stream' \in [open : BOOLEAN, cursor : 0 .. MaxEvents, wire : Seq(1 .. MaxEvents), draining : BOOLEAN]
      /\ stream'.wire = Tail(w) /\ stream'.open = stream.open /\ stream'.cursor = stream.cursor
  BY <1>1, <1>4 DEF StreamPart
<1>7. \A i \in 1 .. Len(stream'.wire) : stream'.wire[i] = Len(seen') + i
  <2>1. SUFFICES ASSUME NEW i \in 1 .. Len(w) - 1 PROVE Tail(w)[i] = n + 1 + i
    BY <1>4, <1>5, <1>6
  <2>2. i \in Int /\ i + 1 \in 1 .. Len(w) BY <1>2
  <2>3. Tail(w)[i] = w[i + 1] BY <1>4
  <2>4. w[i + 1] = n + (i + 1) BY <1>2, <2>2
  <2> QED BY <1>2, <2>2, <2>3, <2>4
<1>8. stream'.open => stream'.cursor = Len(seen') + Len(stream'.wire)
  BY <1>2, <1>4, <1>5, <1>6 DEF StreamPart
<1>9. StreamHasNoGaps' BY <1>5 DEF StreamHasNoGaps
<1> QED BY <1>1, <1>5, <1>6, <1>7, <1>8, <1>9 DEF StreamPart

\* No step loses, repeats or reorders an event of the stream.
LEMMA StreamPartKept == StreamPart /\ [SNext]_svars => StreamPart'
<1> SUFFICES ASSUME StreamPart, [SNext]_svars PROVE StreamPart'
  OBVIOUS
<1>1. CASE appendEvent
  <2>1. rows' \in 0 .. MaxEvents /\ UNCHANGED <<stream, seen>> BY <1>1, ServerBounds DEF appendEvent, StreamPart
  <2> QED BY <2>1 DEF StreamPart, StreamHasNoGaps
<1>2. CASE subscribe BY <1>2, SubscribeKeeps
<1>3. CASE pump BY <1>3, PumpKeeps
<1>4. CASE Receives BY <1>4, ReceivesKeeps
<1>5. CASE Disconnects
  <2>1. /\ UNCHANGED <<rows, seen>>
        /\ stream' = [open |-> FALSE, cursor |-> 0, wire |-> <<>>, draining |-> FALSE]
    BY <1>5 DEF Disconnects, Closed
  <2>2. /\ stream' \in [open : BOOLEAN, cursor : 0 .. MaxEvents, wire : Seq(1 .. MaxEvents), draining : BOOLEAN]
        /\ Len(stream'.wire) = 0 /\ ~stream'.open
    BY <2>1, ServerBounds
  <2> QED BY <2>1, <2>2 DEF StreamPart, StreamHasNoGaps
<1>6. CASE close BY <1>6, BreakKeeps DEF close
<1>7. CASE ProcessEnds BY <1>7, BreakKeeps DEF ProcessEnds, Gone
<1>8. CASE \E k \in Keys : sendMessage(k)
  <2>1. UNCHANGED <<rows, seen>> BY <1>8 DEF sendMessage
  <2>2. CASE UNCHANGED stream BY <2>1, <2>2 DEF StreamPart, StreamHasNoGaps
  <2>3. CASE Gone BY <2>1, <2>3, BreakKeeps DEF Gone
  <2> QED BY <1>8, <2>2, <2>3 DEF sendMessage
<1>9. CASE UNCHANGED events BY <1>9 DEF events, StreamPart, StreamHasNoGaps
<1> QED BY <1>1, <1>2, <1>3, <1>4, <1>5, <1>6, <1>7, <1>8, <1>9
     DEF SNext, svars, listen, writeEndpoint, discover, connect, route, applyLifecycle, TimesOut, SessionReplaced,
         consumeMessage

-----------------------------------------------------------------------------
(* Messages.                                                               *)

\* A row with another recipient and no command.
LEMMA ReboundRow ==
    ASSUME NEW row \in MessageRows, NEW to \in 0 .. MaxSessions
    PROVE  LET new == [row EXCEPT !.to = to, !.command = 0]
           IN  new \in MessageRows /\ new.state = row.state /\ new.to = to /\ new.command = 0
<1>1. 0 \in 0 .. MaxSessions BY ServerBounds
<1>2. [row EXCEPT !.to = to] \in MessageRows BY DEF MessageRows
<1>3. PICK mid \in MessageRows : mid = [row EXCEPT !.to = to] BY <1>2
<1>4. mid.state = row.state /\ mid.to = to BY <1>3 DEF MessageRows
<1>5. [mid EXCEPT !.command = 0] \in MessageRows BY <1>1 DEF MessageRows
<1>6. PICK new \in MessageRows : new = [mid EXCEPT !.command = 0] BY <1>5
<1>7. new.state = row.state /\ new.to = to /\ new.command = 0 BY <1>4, <1>6 DEF MessageRows
<1>8. new = [row EXCEPT !.to = to, !.command = 0] BY <1>3, <1>6
<1> QED BY <1>7, <1>8

\* The row a send leaves: a queued one is for the session of the day, and a
\* message that was read stays read.
LEMMA RecordedRow ==
    ASSUME MessagePart, NEW k \in Keys
    PROVE  /\ Recorded(k) \in MessageRows
           /\ Recorded(k).state = "queued" => Recorded(k).to = current
           /\ Recorded(k).state \in {"queued", "consumed"}
           /\ message[k].state = "consumed" => Recorded(k).state = "consumed"
           /\ Recorded(k).state = "queued" /\ Recorded(k).command # 0 => <<k, current>> \in commands
<1> USE DEF Recorded, Rebound, MessageRows
<1>1. message[k] \in MessageRows /\ current \in 1 .. MaxSessions /\ 0 \in 0 .. MaxSessions
  BY ServerBounds DEF MessagePart
<1>2. CASE message[k].state = "none" BY <1>1, <1>2
<1>3. CASE message[k].state = "queued" /\ message[k].to # current
  <2>1. Recorded(k) = [message[k] EXCEPT !.to = current, !.command = 0] BY <1>3
  <2> HIDE DEF Recorded
  <2>2. /\ Recorded(k) \in MessageRows
        /\ Recorded(k).state = "queued" /\ Recorded(k).to = current /\ Recorded(k).command = 0
    <3>1. current \in 0 .. MaxSessions BY <1>1
    <3> HIDE DEF MessageRows
    <3>2. PICK row \in MessageRows : row = message[k] BY <1>1
    <3>3. LET new == [row EXCEPT !.to = current, !.command = 0]
          IN  new \in MessageRows /\ new.state = row.state /\ new.to = current /\ new.command = 0
      BY <3>1, ReboundRow, Zenon
    <3>4. Recorded(k) = [row EXCEPT !.to = current, !.command = 0] BY <2>1, <3>2
    <3> QED BY <1>3, <3>2, <3>3, <3>4
  <2> QED BY <1>3, <2>2
<1>4. CASE message[k].state = "queued" /\ message[k].to = current BY <1>1, <1>4 DEF MessagePart
<1>5. CASE message[k].state = "consumed" BY <1>1, <1>5
<1> QED BY <1>1, <1>2, <1>3, <1>4, <1>5

\* A send that answers has announced the message or found it read; one cut
\* off by a crash leaves it without a command, to be announced the next time.
LEMMA SendKeeps ==
    ASSUME MessagePart, NEW k \in Keys, sendMessage(k)
    PROVE  MessagePart'
<1> DEFINE row == Recorded(k)
           announced == commands \cup {<<k, row.to>>}
<1>1. /\ row \in MessageRows
      /\ row.state = "queued" => row.to = current
      /\ row.state \in {"queued", "consumed"}
      /\ message[k].state = "consumed" => row.state = "consumed"
      /\ row.state = "queued" /\ row.command # 0 => <<k, current>> \in commands
  BY RecordedRow
<1>2. UNCHANGED current /\ current \in 1 .. MaxSessions /\ current \in 0 .. MaxSessions /\ current # 0
  BY ServerBounds DEF sendMessage, MessagePart
<1>3. \/ /\ row.command # 0
         /\ message' = [message EXCEPT ![k] = row]
         /\ told' = [told EXCEPT ![k] = current]
         /\ UNCHANGED commands
      \/ /\ row.command = 0 /\ row.to = current
         /\ commands' = announced
         /\ message' = [message EXCEPT ![k] = [row EXCEPT !.command = row.to]]
         /\ told' = [told EXCEPT ![k] = current]
      \/ /\ row.command = 0
         /\ message' = [message EXCEPT ![k] = row]
         /\ commands' \in {commands, IF row.to = current THEN announced ELSE commands}
         /\ UNCHANGED told
  BY DEF sendMessage
<1> HIDE DEF row
<1>4. CASE /\ row.command # 0
           /\ message' = [message EXCEPT ![k] = row]
           /\ told' = [told EXCEPT ![k] = current]
           /\ UNCHANGED commands
  BY <1>1, <1>2, <1>4 DEF MessagePart, MessagesAreAnnounced
<1>5. CASE /\ row.command = 0 /\ row.to = current
           /\ commands' = announced
           /\ message' = [message EXCEPT ![k] = [row EXCEPT !.command = row.to]]
           /\ told' = [told EXCEPT ![k] = current]
  <2>1. [row EXCEPT !.command = row.to] \in MessageRows BY <1>1 DEF MessageRows
  <2> QED BY <1>1, <1>2, <1>5, <2>1 DEF MessagePart, MessagesAreAnnounced, MessageRows
<1>6. CASE /\ row.command = 0
           /\ message' = [message EXCEPT ![k] = row]
           /\ commands' \in {commands, IF row.to = current THEN announced ELSE commands}
           /\ UNCHANGED told
  <2>1. commands \subseteq commands' /\ commands' \subseteq Keys \X (1 .. MaxSessions)
    BY <1>2, <1>6 DEF MessagePart
  <2> QED BY <1>1, <1>2, <1>6, <2>1 DEF MessagePart, MessagesAreAnnounced
<1> QED BY <1>3, <1>4, <1>5, <1>6

\* No step tells a sender of a message that was not announced.
LEMMA MessagePartKept == MessagePart /\ [SNext]_svars => MessagePart'
<1> SUFFICES ASSUME MessagePart, [SNext]_svars PROVE MessagePart'
  OBVIOUS
<1>1. CASE \E k \in Keys : sendMessage(k) BY <1>1, SendKeeps
<1>2. ASSUME NEW k \in Keys, consumeMessage(k) PROVE MessagePart'
  BY <1>2 DEF consumeMessage, MessagePart, MessagesAreAnnounced, MessageRows
<1>3. CASE SessionReplaced
  <2>1. current' \in 1 .. MaxSessions /\ UNCHANGED <<message, commands, told>>
    BY <1>3, ServerBounds DEF SessionReplaced, MessagePart
  <2> QED BY <2>1 DEF MessagePart, MessagesAreAnnounced
<1>4. CASE UNCHANGED messages BY <1>4 DEF messages, MessagePart, MessagesAreAnnounced
<1> QED BY <1>1, <1>2, <1>3, <1>4
     DEF SNext, svars, listen, writeEndpoint, close, ProcessEnds, Gone, discover, connect, route, applyLifecycle,
         TimesOut, appendEvent, subscribe, pump, Receives, Disconnects

-----------------------------------------------------------------------------
(* The theorems about the server.                                          *)

\* Every reachable state satisfies all four parts.
THEOREM ServerInvariant == ServerSpec => []ServerInv
<1>1. ServerInv /\ [SNext]_svars => ServerInv'
  BY ServerPartKept, RequestPartKept, StreamPartKept, MessagePartKept DEF ServerInv
<1> QED BY <1>1, ServerInitially, PTL DEF ServerSpec

\* Server, requests, stream and messages keep their types.
THEOREM ServerTyped == ServerSpec => []ServerTypeOK
<1>1. ServerInv => ServerTypeOK
  BY DEF ServerInv, ServerPart, RequestPart, StreamPart, MessagePart, ServerTypeOK, ClientRows, MessageRows
<1> QED BY <1>1, ServerInvariant, PTL

\* sendLifecycle: whatever the server does between the attempts, a worker's
\* request is applied at most once, and success is not reported without it.
THEOREM AppliedOnce == ServerSpec => []RequestsAppliedOnce
<1>1. ServerInv => RequestsAppliedOnce
  BY DEF ServerInv, RequestPart, RequestOK, RequestsAppliedOnce, Is
<1> QED BY <1>1, ServerInvariant, PTL

\* subscribe and pump: a subscriber that resumes after the last event it was
\* given gets every event once, in order.
THEOREM NoGaps == ServerSpec => []StreamHasNoGaps
<1>1. ServerInv => StreamHasNoGaps BY DEF ServerInv, StreamPart
<1> QED BY <1>1, ServerInvariant, PTL

\* sendMessage: a message whose sender was told it is queued was announced to
\* the session it went to, or read, through crashes and replaced sessions.
THEOREM QueuedIsAnnounced == ServerSpec => []MessagesAreAnnounced
<1>1. ServerInv => MessagesAreAnnounced BY DEF ServerInv, MessagePart
<1> QED BY <1>1, ServerInvariant, PTL

-----------------------------------------------------------------------------
(* Scouts.                                                                 *)

\* A call that went on from idle has a number as long as it is under way.
Numbered == \A r \in Calls : call[r].at \in {"starting", "waiting", "briefing"} => call[r].number \in Scout

\* A live process belongs to a number, and over tmux it has its name.
LiveIsNamed ==
    \A r \in Calls : cli[r] = "live" => call[r].number \in Scout /\ (wire = "tmux" => named[call[r].number] = r)

\* Over tmux the name of a scout that is ready is its own session's, if any.
NamedWhenReady ==
    \A i \in Scout : wire = "tmux" /\ scout[i].ready => named[i] \in {0, scout[i].session}

ScoutsInv == ScoutsTypeOK /\ Numbered /\ LiveIsNamed /\ NamedWhenReady /\ BriefReachesItsScout

\* The installation starts without scouts.
LEMMA ScoutsInitially == ScoutsInit => ScoutsInv
<1>1. ASSUME ScoutsInit PROVE 0 \in Calls \cup {0} /\ 0 \in Scout \cup {0} /\ 0 \in 0 .. MaxExits
  BY ScoutBounds
<1> QED BY <1>1 DEF ScoutsInit, ScoutsInv, ScoutsTypeOK, Numbered, LiveIsNamed, NamedWhenReady,
                  BriefReachesItsScout, NoScout

\* request_scout takes a free number: over tmux the session that had the
\* name is killed, so the new one is the only live one of that number.
LEMMA RequestKeeps ==
    ASSUME ScoutsInv, NEW r \in Calls, handleRequestScout(r)
    PROVE  ScoutsInv'
<1> USE DEF ScoutsInv, NoScout, NewScout
<1>1. PICK i \in Scout :
          /\ scout' = [scout EXCEPT ![i] = NewScout]
          /\ call' = [call EXCEPT ![r] = [at |-> "starting", number |-> i]]
          /\ cli' = [q \in Calls |->
                       IF q = r THEN "live"
                       ELSE IF wire = "tmux" /\ q = named[i] THEN "dead" ELSE cli[q]]
          /\ named' = [named EXCEPT ![i] = r]
  BY DEF handleRequestScout
<1>2. UNCHANGED <<wire, briefs, exits>> BY DEF handleRequestScout
<1>3. ScoutsTypeOK' BY <1>1, <1>2 DEF ScoutsTypeOK
<1>4. Numbered' BY <1>1 DEF ScoutsTypeOK, Numbered
<1>5. LiveIsNamed' BY <1>1, <1>2 DEF ScoutsTypeOK, LiveIsNamed
<1>6. NamedWhenReady' BY <1>1, <1>2 DEF ScoutsTypeOK, NamedWhenReady
<1>7. BriefReachesItsScout' BY <1>2 DEF BriefReachesItsScout
<1> QED BY <1>3, <1>4, <1>5, <1>6, <1>7

\* Recording or giving up a launch moves neither processes nor names, and
\* leaves no scout ready that was not.
LEMMA LaunchKeeps ==
    ASSUME ScoutsInv, NEW r \in Calls, SessionRecorded(r) \/ ScoutNotStarted(r) \/ ScoutLaunchFails(r)
    PROVE  ScoutsInv'
<1> USE DEF ScoutsInv, NoScout, NewScout, CallAt, CallGoes
<1>1. UNCHANGED <<wire, cli, named, briefs, exits>>
  BY DEF SessionRecorded, ScoutNotStarted, ScoutLaunchFails
<1>2. call' \in {[call EXCEPT ![r].at = "waiting"], [call EXCEPT ![r].at = "failed"]}
      /\ (call[r].at # "starting" => call' = [call EXCEPT ![r].at = "failed"])
  BY DEF SessionRecorded, ScoutNotStarted, ScoutLaunchFails
<1> DEFINE Rows == [registered : BOOLEAN, session : Calls \cup {0}, ready : BOOLEAN]
           Places == [at : {"idle", "starting", "waiting", "briefing", "done", "failed", "gone"},
                      number : Scout \cup {0}]
<1>3. scout' \in [Scout -> Rows] /\ \A i \in Scout : scout'[i].ready => scout'[i] = scout[i]
  <2>1. NoScout \in Rows /\ ~NoScout.ready
    OBVIOUS
  <2>2. [NewScout EXCEPT !.session = r] \in Rows /\ ~[NewScout EXCEPT !.session = r].ready
    OBVIOUS
  <2>3. scout \in [Scout -> Rows] BY DEF ScoutsTypeOK
  <2>4. CASE SessionRecorded(r)
    <3>1. call[r].number \in Scout BY <2>4 DEF SessionRecorded, Numbered
    <3>2. scout' \in {scout, [scout EXCEPT ![call[r].number] = [NewScout EXCEPT !.session = r]]}
      BY <2>4 DEF SessionRecorded
    <3> HIDE DEF NewScout, Rows
    <3> QED BY <2>2, <2>3, <3>1, <3>2
  <2>5. CASE ScoutNotStarted(r) BY <2>3, <2>5 DEF ScoutNotStarted
  <2>6. CASE ScoutLaunchFails(r)
    <3>1. call[r].number \in Scout BY <2>6 DEF ScoutLaunchFails, Numbered
    <3>2. scout' = [scout EXCEPT ![call[r].number] = NoScout] BY <2>6 DEF ScoutLaunchFails
    <3> HIDE DEF NoScout, Rows
    <3> QED BY <2>1, <2>3, <3>1, <3>2
  <2> QED BY <2>4, <2>5, <2>6
<1>4. call' \in [Calls -> Places]
  <2>1. call \in [Calls -> Places] BY DEF ScoutsTypeOK
  <2> QED BY <1>2, <2>1
<1>5. ScoutsTypeOK' BY <1>1, <1>3, <1>4 DEF ScoutsTypeOK
<1>6. Numbered' BY <1>2 DEF ScoutsTypeOK, Numbered
<1>7. LiveIsNamed' BY <1>1, <1>2 DEF ScoutsTypeOK, LiveIsNamed
<1>8. NamedWhenReady' BY <1>1, <1>3 DEF NamedWhenReady
<1>9. BriefReachesItsScout' BY <1>1 DEF BriefReachesItsScout
<1> QED BY <1>5, <1>6, <1>7, <1>8, <1>9

\* The process that reports is live, so it has the name of its number.
LEMMA ReportKeeps ==
    ASSUME ScoutsInv, NEW r \in Calls, ReportsForDuty(r)
    PROVE  ScoutsInv'
<1> USE DEF ScoutsInv
<1>1. /\ cli[r] = "live" /\ scout[call[r].number].session = r
      /\ scout' = [scout EXCEPT ![call[r].number].ready = TRUE]
      /\ UNCHANGED <<wire, call, cli, named, briefs, exits>>
  BY DEF ReportsForDuty
<1>2. call[r].number \in Scout /\ (wire = "tmux" => named[call[r].number] = r)
  BY <1>1 DEF LiveIsNamed
<1>3. ScoutsTypeOK' BY <1>1, <1>2 DEF ScoutsTypeOK
<1>4. Numbered' /\ LiveIsNamed' BY <1>1 DEF Numbered, LiveIsNamed
<1>5. NamedWhenReady' BY <1>1, <1>2 DEF ScoutsTypeOK, NamedWhenReady
<1>6. BriefReachesItsScout' BY <1>1 DEF BriefReachesItsScout
<1> QED BY <1>3, <1>4, <1>5, <1>6

\* The brief's recipient: over a PTY the call's own process, over tmux the
\* one with the name, which is this call's session since it is ready.
LEMMA BriefKeeps ==
    ASSUME ScoutsInv, NEW r \in Calls, BriefTyped(r) \/ BriefSubmitted(r)
    PROVE  ScoutsInv'
<1> USE DEF ScoutsInv, CallAt, CallGoes
<1>1. UNCHANGED <<wire, scout, cli, named, exits>> BY DEF BriefTyped, BriefSubmitted
<1>2. call' \in {[call EXCEPT ![r].at = "briefing"], [call EXCEPT ![r].at = "done"]}
      /\ call[r].at \in {"waiting", "briefing"}
  BY DEF BriefTyped, BriefSubmitted
<1>3. call[r].number \in Scout BY <1>2 DEF Numbered
<1>4. briefs' \in {briefs, briefs \cup {<<r, r>>}}
  <2>1. CASE BriefTyped(r)
    <3>1. /\ scout[call[r].number].session = r /\ scout[call[r].number].ready
          /\ wire = "tmux" => named[call[r].number] # 0
          /\ briefs' = briefs \cup {<<r, Recipient(r)>>}
      BY <2>1 DEF BriefTyped, waitForScoutReportedForDuty, Recipient
    <3>2. wire = "tmux" => named[call[r].number] = r
      BY <1>3, <3>1 DEF NamedWhenReady
    <3>3. Recipient(r) = r BY <3>2 DEF Recipient
    <3> QED BY <3>1, <3>3
  <2>2. CASE BriefSubmitted(r) BY <2>2 DEF BriefSubmitted
  <2> QED BY <2>1, <2>2
<1>5. ScoutsTypeOK' BY <1>1, <1>2, <1>4 DEF ScoutsTypeOK
<1>6. Numbered' BY <1>2, <1>3 DEF ScoutsTypeOK, Numbered
<1>7. LiveIsNamed' BY <1>1, <1>2 DEF ScoutsTypeOK, LiveIsNamed
<1>8. NamedWhenReady' BY <1>1 DEF NamedWhenReady
<1>9. BriefReachesItsScout' BY <1>4 DEF BriefReachesItsScout
<1> QED BY <1>5, <1>6, <1>7, <1>8, <1>9

\* Stopping a number kills the only process that has its name and gives the
\* name up: nobody live is left without one.
LEMMA StopKeeps ==
    ASSUME ScoutsInv, NEW i \in Scout, NEW own, StopScout(i, own),
           scout' = [scout EXCEPT ![i] = NoScout],
           \A q \in Calls : call'[q].number = call[q].number,
           call' \in [Calls -> [at : {"idle", "starting", "waiting", "briefing", "done", "failed", "gone"},
                                number : Scout \cup {0}]],
           Numbered', UNCHANGED <<wire, briefs, exits>>
    PROVE  ScoutsInv'
<1> USE DEF ScoutsInv, StopScout, NoScout
<1>1. ScoutsTypeOK' BY DEF ScoutsTypeOK
<1>2. LiveIsNamed' BY DEF ScoutsTypeOK, LiveIsNamed
<1>3. NamedWhenReady' BY DEF ScoutsTypeOK, NamedWhenReady
<1>4. BriefReachesItsScout' BY DEF BriefReachesItsScout
<1> QED BY <1>1, <1>2, <1>3, <1>4

\* A request that fails stops and unregisters its number.
LEMMA FailureKeeps ==
    ASSUME ScoutsInv, NEW r \in Calls, BriefingFails(r)
    PROVE  ScoutsInv'
<1> USE DEF CallAt, CallGoes
<1>1. call[r].number \in Scout BY DEF ScoutsInv, Numbered, BriefingFails
<1>2. call' = [call EXCEPT ![r].at = "failed"] BY DEF BriefingFails
<1>3. /\ StopScout(call[r].number, IF wire = "pty" THEN {r} ELSE {})
      /\ scout' = [scout EXCEPT ![call[r].number] = NoScout]
      /\ UNCHANGED <<wire, briefs, exits>>
  BY DEF BriefingFails
<1>4. /\ \A q \in Calls : call'[q].number = call[q].number
      /\ call' \in [Calls -> [at : {"idle", "starting", "waiting", "briefing", "done", "failed", "gone"},
                              number : Scout \cup {0}]]
      /\ Numbered'
  BY <1>2 DEF ScoutsInv, ScoutsTypeOK, Numbered
<1> QED BY <1>1, <1>3, <1>4, StopKeeps

\* remove_scout stops the number's session if one is recorded, and
\* unregisters it.
LEMMA RemovalKeeps ==
    ASSUME ScoutsInv, NEW i \in Scout, handleRemoveScout(i)
    PROVE  ScoutsInv'
<1>1. /\ scout' = [scout EXCEPT ![i] = NoScout]
      /\ UNCHANGED <<wire, call, briefs, exits>>
  BY DEF handleRemoveScout
<1>2. Numbered' BY <1>1 DEF ScoutsInv, Numbered
<1>3. CASE StopScout(i, {})
  <2>1. /\ \A q \in Calls : call'[q].number = call[q].number
        /\ call' \in [Calls -> [at : {"idle", "starting", "waiting", "briefing", "done", "failed", "gone"},
                                number : Scout \cup {0}]]
    BY <1>1 DEF ScoutsInv, ScoutsTypeOK
  <2> QED BY <1>1, <1>2, <1>3, <2>1, StopKeeps
<1>4. CASE UNCHANGED <<cli, named>>
  <2> USE <1>1, <1>4 DEF ScoutsInv, NoScout
  <2>1. ScoutsTypeOK' BY DEF ScoutsTypeOK
  <2>2. LiveIsNamed' BY DEF LiveIsNamed
  <2>3. NamedWhenReady' BY DEF ScoutsTypeOK, NamedWhenReady
  <2>4. BriefReachesItsScout' BY DEF BriefReachesItsScout
  <2> QED BY <1>2, <2>1, <2>2, <2>3, <2>4
<1> QED BY <1>3, <1>4 DEF handleRemoveScout

\* A process that exits takes its tmux session's name with it.
LEMMA ExitKeeps ==
    ASSUME ScoutsInv, NEW r \in Calls, ScoutExits(r)
    PROVE  ScoutsInv'
<1> USE DEF ScoutsInv, ScoutExits
<1>1. ScoutsTypeOK' BY DEF ScoutsTypeOK
<1>2. Numbered' BY DEF Numbered
<1>3. LiveIsNamed' BY DEF ScoutsTypeOK, LiveIsNamed
<1>4. NamedWhenReady' BY DEF ScoutsTypeOK, NamedWhenReady
<1>5. BriefReachesItsScout' BY DEF BriefReachesItsScout
<1> QED BY <1>1, <1>2, <1>3, <1>4, <1>5

\* A server that exits ends its calls; tmux sessions survive it.
LEMMA ServerExitKeeps ==
    ASSUME ScoutsInv, ServerExits
    PROVE  ScoutsInv'
<1> USE DEF ScoutsInv, CallAt
<1>1. PICK hung \in SUBSET {r \in Calls : wire = "pty" /\ cli[r] = "live"} :
          cli' = [r \in Calls |-> IF r \in hung THEN "dead" ELSE cli[r]]
  BY DEF ServerExits
<1>2. /\ call' = [r \in Calls |-> IF call[r].at = "idle" THEN call[r] ELSE [call[r] EXCEPT !.at = "gone"]]
      /\ exits < MaxExits /\ exits' = exits + 1
      /\ UNCHANGED <<wire, scout, named, briefs>>
  BY DEF ServerExits
<1>3. ScoutsTypeOK' BY <1>1, <1>2, ScoutBounds DEF ScoutsTypeOK
<1>4. Numbered' BY <1>2 DEF ScoutsTypeOK, Numbered
<1>5. LiveIsNamed' BY <1>1, <1>2 DEF ScoutsTypeOK, LiveIsNamed
<1>6. NamedWhenReady' /\ BriefReachesItsScout' BY <1>2 DEF NamedWhenReady, BriefReachesItsScout
<1> QED BY <1>3, <1>4, <1>5, <1>6

\* Every step keeps the invariant.
LEMMA ScoutsStep == ScoutsInv /\ [ScoutsNext]_scouts => ScoutsInv'
<1> SUFFICES ASSUME ScoutsInv, [ScoutsNext]_scouts PROVE ScoutsInv'
  OBVIOUS
<1>1. CASE UNCHANGED scouts
  BY <1>1 DEF scouts, ScoutsInv, ScoutsTypeOK, Numbered, LiveIsNamed, NamedWhenReady, BriefReachesItsScout
<1>2. CASE \E r \in Calls : handleRequestScout(r) BY <1>2, RequestKeeps
<1>3. CASE \E r \in Calls : SessionRecorded(r) \/ ScoutNotStarted(r) \/ ScoutLaunchFails(r) BY <1>3, LaunchKeeps
<1>4. CASE \E r \in Calls : ReportsForDuty(r) BY <1>4, ReportKeeps
<1>5. CASE \E r \in Calls : BriefTyped(r) \/ BriefSubmitted(r) BY <1>5, BriefKeeps
<1>6. CASE \E r \in Calls : BriefingFails(r) BY <1>6, FailureKeeps
<1>7. CASE \E r \in Calls : ScoutExits(r) BY <1>7, ExitKeeps
<1>8. CASE \E i \in Scout : handleRemoveScout(i) BY <1>8, RemovalKeeps
<1>9. CASE ServerExits BY <1>9, ServerExitKeeps
<1> QED BY <1>1, <1>2, <1>3, <1>4, <1>5, <1>6, <1>7, <1>8, <1>9 DEF ScoutsNext

\* Every reachable state satisfies the invariant.
THEOREM ScoutsInvariant == ScoutsSpec => []ScoutsInv
<1> QED BY ScoutsInitially, ScoutsStep, PTL DEF ScoutsSpec

\* The registry, the calls and the sessions keep their types.
THEOREM ScoutsTyped == ScoutsSpec => []ScoutsTypeOK
<1>1. ScoutsInv => ScoutsTypeOK BY DEF ScoutsInv
<1> QED BY <1>1, ScoutsInvariant, PTL

\* request_scout types a brief only into the session it started itself,
\* however its number is removed and given away while it waits.
THEOREM BriefsReachTheirScouts == ScoutsSpec => []BriefReachesItsScout
<1>1. ScoutsInv => BriefReachesItsScout BY DEF ScoutsInv
<1> QED BY <1>1, ScoutsInvariant, PTL

=============================================================================
