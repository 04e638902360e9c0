----------------------------- MODULE MCControlApi -----------------------------
(***************************************************************************)
(* The control API in one run: what its requests do (ControlApi) and how   *)
(* they reach it (ControlServer); and the scouts a master's MCP server     *)
(* starts by itself (Scouts).  None reads the others' state, so a          *)
(* behaviour takes the steps of one of the three and leaves the others     *)
(* alone.                                                                  *)
(*                                                                         *)
(* In ControlApi, terminals and questions have only the runs in common,    *)
(* which neither reads from the other: a behaviour that opens a terminal   *)
(* and one that asks a question are explored, one that does both is cut.   *)
(***************************************************************************)
EXTENDS ControlApi, ControlServer, Scouts

VARIABLE part  \* which of the three takes steps

MCInit == Init /\ SInit /\ ScoutsInit /\ part \in {"requests", "server", "scouts"}

MCNext ==
    /\ \/ part = "requests" /\ Next /\ UNCHANGED <<svars, scouts>>
       \/ part = "server" /\ SNext /\ UNCHANGED <<vars, scouts>>
       \/ part = "scouts" /\ ScoutsNext /\ UNCHANGED <<vars, svars>>
    /\ UNCHANGED part

MCSpec == MCInit /\ [][MCNext]_<<vars, svars, scouts, part>>

TerminalsOrQuestions ==
    \/ log = <<>>
    \/ shell = {} /\ \A t \in Terminals : term[t] = "none" /\ lease[t] = Free

=============================================================================
