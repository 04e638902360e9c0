---------------------------- MODULE ControlServer ----------------------------
(***************************************************************************)
(* How a request reaches the coordinator's control server and what happens *)
(* to it when the server is closed, crashes or is started again:           *)
(* lib/controlServer.ts with its clients (lib/controlClient.ts,            *)
(* lib/lifecycleDispatch.ts), the event stream, and the semantic messages  *)
(* of lib/messageRouter.ts.                                                *)
(*                                                                         *)
(* One coordinator runs at a time (module SessionStart).  Its event loop   *)
(* handles one request at a time and waits only for a request's body; a    *)
(* crash may come between two transactions of one handler.                 *)
(***************************************************************************)
EXTENDS Integers, Sequences, SequencesExt

CONSTANTS
    Clients,      \* workers, each sending one lifecycle request
    Keys,         \* idempotency keys of the messages sent to one worker run
    MaxStarts,    \* bound: times the server starts
    MaxEvents,    \* bound: events appended
    MaxSessions,  \* bound: sessions of the run that receives the messages
    HighWater     \* frames the stream's socket takes before it asks to wait

ASSUME ServerBounds ==
    /\ MaxStarts \in Nat \ {0} /\ MaxEvents \in Nat
    /\ MaxSessions \in Nat \ {0} /\ HighWater \in Nat \ {0}

VARIABLES
    daemon,    \* "down", "listening", "open" or "closing"
    starts,    \* times the server has started: the token of each start differs
    endpoint,  \* the start whose descriptor and token are on disk, 0 if none
    client,    \* where each client's request is, and the token it presents
    pending,   \* what the server holds of each client's request
    applied,   \* times each request was applied
    rows,      \* number of rows in the events table
    stream,    \* the subscriber's connection: its cursor, frames on the way, draining
    seen,      \* sequence numbers the subscriber was given
    current,   \* the session that works the run now
    message,   \* messages: the record of each key
    commands,  \* commands that announce a message to a session
    told       \* the session each message's sender was last told of, 0 if none

server == <<daemon, starts, endpoint>>
requests == <<client, pending, applied>>
events == <<rows, stream, seen>>
messages == <<current, message, commands, told>>
svars == <<server, requests, events, messages>>

Closed == [open |-> FALSE, cursor |-> 0, wire |-> <<>>, draining |-> FALSE]
NoMessage == [state |-> "none", to |-> 0, command |-> 0]

SInit ==
    /\ daemon = "down" /\ starts = 0 /\ endpoint = 0
    /\ client = [c \in Clients |-> [at |-> "new", token |-> 0]]
    /\ pending = [c \in Clients |-> "none"]
    /\ applied = [c \in Clients |-> 0]
    /\ rows = 0 /\ stream = Closed /\ seen = <<>>
    /\ current = 1
    /\ message = [k \in Keys |-> NoMessage]
    /\ commands = {} /\ told = [k \in Keys |-> 0]

-----------------------------------------------------------------------------
(* The server.                                                             *)

\* clearStaleSocket finds nobody listening, and the server takes the socket.
listen ==
    /\ daemon = "down" /\ starts < MaxStarts
    /\ daemon' = "listening" /\ starts' = starts + 1
    /\ UNCHANGED <<endpoint, requests, events, messages>>

\* The token and the descriptor, before the first request is read.
writeEndpoint ==
    /\ daemon = "listening"
    /\ daemon' = "open" /\ endpoint' = starts
    /\ UNCHANGED <<starts, requests, events, messages>>

\* Streams are destroyed, frames on the way may still arrive; requests that
\* were accepted go on.
close ==
    /\ daemon = "open"
    /\ daemon' = "closing"
    /\ endpoint' = IF endpoint = starts THEN 0 ELSE endpoint
    /\ stream' = [stream EXCEPT !.open = FALSE]
    /\ UNCHANGED <<starts, requests, rows, seen, messages>>

\* The process is gone: connections break, and a client whose request got no
\* answer sees a reset connection, which is not "unavailable".
Gone ==
    /\ daemon' = "down"
    /\ client' = [c \in Clients |->
                     IF client[c].at = "sent" THEN [client[c] EXCEPT !.at = "failed"] ELSE client[c]]
    /\ pending' = [c \in Clients |-> "none"]
    /\ stream' = [stream EXCEPT !.open = FALSE]

ProcessEnds ==
    /\ daemon # "down"
    /\ Gone
    /\ UNCHANGED <<starts, endpoint, applied, rows, seen, messages>>

-----------------------------------------------------------------------------
(* Requests.                                                               *)

Is(c, at) == client[c].at = at

\* Mutant: whatever goes wrong, the request is sent again.
Insists(code) == TRUE

\* sendLifecycle: what provably never reached the coordinator is sent again.
Retries(code) == code = "unavailable"

\* A failed attempt: the next one, if the window of 120 s allows it, or the end.
Fails(c, code) ==
    \/ Retries(code) /\ client' = [client EXCEPT ![c] = [at |-> "new", token |-> 0]]
    \/ client' = [client EXCEPT ![c].at = "failed"]

\* The descriptor and the token are read on every call.
discover(c) ==
    /\ Is(c, "new")
    /\ IF endpoint = 0 THEN Fails(c, "unavailable")
       ELSE client' = [client EXCEPT ![c] = [at |-> "found", token |-> endpoint]]
    /\ UNCHANGED <<server, pending, applied, events, messages>>

\* connectionError: nobody listens on the socket any more.
connect(c) ==
    /\ Is(c, "found")
    /\ IF daemon \in {"listening", "open"}
       THEN /\ client' = [client EXCEPT ![c].at = "sent"]
            /\ pending' = [pending EXCEPT ![c] = "arrived"]
       ELSE Fails(c, "unavailable") /\ UNCHANGED pending
    /\ UNCHANGED <<server, applied, events, messages>>

\* The answer to a client that still waits for one.
Replies(c, code) ==
    /\ pending' = [pending EXCEPT ![c] = "none"]
    /\ IF ~Is(c, "sent") THEN UNCHANGED client
       ELSE IF code = "ok" THEN client' = [client EXCEPT ![c].at = "done"] ELSE Fails(c, code)

\* The token is the one of this server.
authenticated(c) == client[c].token = starts

\* The checks before the body is read.
route(c) ==
    /\ daemon \in {"open", "closing"} /\ pending[c] = "arrived"
    /\ IF daemon = "closing" THEN Replies(c, "unavailable")
       ELSE IF ~authenticated(c) THEN Replies(c, "unauthenticated")
       ELSE pending' = [pending EXCEPT ![c] = "reading"] /\ UNCHANGED client
    /\ UNCHANGED <<server, applied, events, messages>>

\* The body is there: assertOpen again, then the request is applied in one go.
applyLifecycle(c) ==
    /\ daemon \in {"open", "closing"} /\ pending[c] = "reading"
    /\ IF daemon = "closing" THEN Replies(c, "unavailable") /\ UNCHANGED applied
       ELSE Replies(c, "ok") /\ applied' = [applied EXCEPT ![c] = @ + 1]
    /\ UNCHANGED <<server, events, messages>>

\* 120 s without an answer.  The server may hold the whole request already.
TimesOut(c) ==
    /\ Is(c, "sent")
    /\ Fails(c, "timed out")
    /\ pending' \in {pending, [pending EXCEPT ![c] = "none"]}
    /\ UNCHANGED <<server, applied, events, messages>>

-----------------------------------------------------------------------------
(* The event stream.                                                       *)

\* Any process of the project appends; the row gets the next number.
appendEvent ==
    /\ rows < MaxEvents
    /\ rows' = rows + 1
    /\ UNCHANGED <<server, requests, stream, seen, messages>>

\* Mutant: the subscriber counts what it was given and asks for the row after.
ResumesPast == IF seen = <<>> THEN 0 ELSE Last(seen) + 1

\* "Callers reconnect with the last seq they processed".
Resume == IF seen = <<>> THEN 0 ELSE Last(seen)

subscribe ==
    /\ daemon = "open" /\ ~stream.open /\ stream.wire = <<>>
    /\ stream' = [Closed EXCEPT !.open = TRUE, !.cursor = Resume]
    /\ UNCHANGED <<server, requests, rows, seen, messages>>

\* The rows after a cursor, in order.
readEventBatch(after) == [i \in 1 .. rows - after |-> after + i]

\* Writes rows until there are none or the socket asks to wait; then only
\* once it has drained.
pump ==
    /\ stream.open
    /\ stream.draining => stream.wire = <<>>
    /\ LET batch == readEventBatch(stream.cursor)
           room == HighWater - Len(stream.wire)
           sent == SubSeq(batch, 1, IF Len(batch) < room THEN Len(batch) ELSE room)
       IN  /\ sent # <<>>
           /\ stream' = [stream EXCEPT !.cursor = Last(sent), !.wire = @ \o sent,
                                       !.draining = Len(stream.wire \o sent) >= HighWater]
    /\ UNCHANGED <<server, requests, rows, seen, messages>>

\* The subscriber takes the next frame; after the end, those that arrived.
Receives ==
    /\ stream.wire # <<>>
    /\ seen' = Append(seen, Head(stream.wire))
    /\ stream' = [stream EXCEPT !.wire = Tail(@)]
    /\ UNCHANGED <<server, requests, rows, messages>>

\* The subscriber goes away, or its connection does, with what was on the way.
Disconnects ==
    /\ stream # Closed
    /\ stream' = Closed
    /\ UNCHANGED <<server, requests, rows, seen, messages>>

-----------------------------------------------------------------------------
(* Messages from the master to the worker run.                             *)

\* The run goes on in a new session; the one before is offline.
SessionReplaced ==
    /\ current < MaxSessions
    /\ current' = current + 1
    /\ UNCHANGED <<server, requests, events, message, commands, told>>

\* Mutant: a message that changes its recipient keeps its command.
KeepsCommand(k) == [message[k] EXCEPT !.to = current]

\* A queued message follows the run to its new session, and is to be
\* announced there.
Rebound(k) == [message[k] EXCEPT !.to = current, !.command = 0]

\* The first transaction: the message, new, rebound, or as it is.
Recorded(k) ==
    CASE message[k].state = "none"                             -> [state |-> "queued", to |-> current, command |-> 0]
      [] message[k].state = "queued" /\ message[k].to # current -> Rebound(k)
      [] OTHER                                                  -> message[k]

\* sendMessage to the run's running session.  Unless it has a command, the
\* message gets one in a second transaction, whose number a third records; a
\* message consumed by a later session than its own gets none, and the call
\* fails.  A crash may come after each.
sendMessage(k) ==
    /\ daemon = "open"
    /\ LET row == Recorded(k)
           announced == commands \cup {<<k, row.to>>}
       IN  \/ /\ row.command # 0
              /\ message' = [message EXCEPT ![k] = row]
              /\ told' = [told EXCEPT ![k] = current]
              /\ UNCHANGED <<server, requests, stream, commands>>
           \/ /\ row.command = 0 /\ row.to = current
              /\ commands' = announced
              /\ message' = [message EXCEPT ![k] = [row EXCEPT !.command = row.to]]
              /\ told' = [told EXCEPT ![k] = current]
              /\ UNCHANGED <<server, requests, stream>>
           \/ /\ row.command = 0
              /\ message' = [message EXCEPT ![k] = row]
              /\ commands' \in {commands, IF row.to = current THEN announced ELSE commands}
              /\ Gone
              /\ UNCHANGED <<starts, endpoint, applied, told>>
    /\ UNCHANGED <<rows, seen, current>>

\* The worker's session of the day reads the run's messages and consumes one.
consumeMessage(k) ==
    /\ daemon = "open" /\ message[k].state = "queued"
    /\ message' = [message EXCEPT ![k].state = "consumed"]
    /\ UNCHANGED <<server, requests, events, current, commands, told>>

-----------------------------------------------------------------------------
SNext ==
    \/ listen \/ writeEndpoint \/ close \/ ProcessEnds
    \/ \E c \in Clients : discover(c) \/ connect(c) \/ route(c) \/ applyLifecycle(c) \/ TimesOut(c)
    \/ appendEvent \/ subscribe \/ pump \/ Receives \/ Disconnects
    \/ SessionReplaced \/ \E k \in Keys : sendMessage(k) \/ consumeMessage(k)

ServerSpec == SInit /\ [][SNext]_svars

-----------------------------------------------------------------------------
(* Properties.                                                             *)

ServerTypeOK ==
    /\ daemon \in {"down", "listening", "open", "closing"}
    /\ starts \in 0 .. MaxStarts /\ endpoint \in 0 .. MaxStarts
    /\ client \in [Clients -> [at : {"new", "found", "sent", "done", "failed"}, token : 0 .. MaxStarts]]
    /\ pending \in [Clients -> {"none", "arrived", "reading"}]
    /\ applied \in [Clients -> Nat]
    /\ rows \in 0 .. MaxEvents /\ seen \in Seq(1 .. MaxEvents)
    /\ stream \in [open : BOOLEAN, cursor : 0 .. MaxEvents, wire : Seq(1 .. MaxEvents), draining : BOOLEAN]
    /\ current \in 1 .. MaxSessions
    /\ message \in [Keys -> [state : {"none", "queued", "consumed"}, to : 0 .. MaxSessions, command : 0 .. MaxSessions]]
    /\ commands \subseteq Keys \X (1 .. MaxSessions)
    /\ told \in [Keys -> 0 .. MaxSessions]

\* "Retrying only while the request provably never reached it": however a
\* server stops, crashes or starts again during the attempts, a worker's
\* request is applied at most once, and a worker told of success had it applied.
RequestsAppliedOnce ==
    \A c \in Clients : applied[c] <= 1 /\ (Is(c, "done") => applied[c] = 1)

\* "Callers reconnect with the last seq they processed to resume without
\* gaps": through broken connections, back-pressure and restarts a subscriber
\* is given every event once, in order.
StreamHasNoGaps == \A i \in DOMAIN seen : seen[i] = i

\* A message whose sender was told it is queued was announced to the session
\* it was sent to, also when it was first recorded for an earlier session or
\* by a server that crashed before it announced it, unless the run read it
\* first.
MessagesAreAnnounced ==
    \A k \in Keys : told[k] # 0 => <<k, told[k]>> \in commands \/ message[k].state = "consumed"

=============================================================================
