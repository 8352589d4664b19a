------------------------------ MODULE Realtime ------------------------------
(***************************************************************************)
(* dashboard-service: the event consumer, the read model that it keeps and *)
(* the hub that passes events on to WebSocket clients.                     *)
(*                                                                         *)
(* The broker (external) holds the events of other services, hands them to *)
(* the consumer in order without a prefetch limit and, when the connection *)
(* or the process is lost, puts what was not acknowledged back in front.   *)
(* One goroutine handles the events: it writes the read model, passes the  *)
(* event to the user's clients under the read lock of the hub, and         *)
(* acknowledges.  The hub adds and removes clients under the write lock;   *)
(* each client has a goroutine that reads and one that writes its socket.  *)
(* Clients are the connections of the user whose events are modelled; of a *)
(* client's channel the model keeps how many messages it holds.            *)
(***************************************************************************)
EXTENDS Integers, Sequences, FiniteSets

CONSTANTS
    Streams,     \* monitors and incidents that events are about
    Script,      \* the events that are published about each, in order
    Clients,     \* WebSocket connections of the user, each made once
    SendCap,     \* capacity of Client.Send
    MaxRestarts, \* bound: crashes of the process
    MaxErrors    \* bound: failing statements of the consumer

Kinds == {"monitor.created", "monitor.paused", "monitor.deleted", "check.completed",
          "incident.detected", "incident.resolved", "alert.triggered"}

ASSUME RealtimeAssumption ==
    /\ Script \in [Streams -> Seq(Kinds)]
    /\ SendCap \in Nat \ {0} /\ MaxRestarts \in Nat /\ MaxErrors \in Nat

VARIABLES
    published,  \* how many events of each script have been published
    queue,      \* the events that the broker holds for the consumer
    dead,       \* streams with an event in the dead-letter queue
    pending,    \* events delivered to the process, the first is being handled
    linked,     \* the connection to the broker is up
    stage,      \* the consumer goroutine
    view,       \* the read model: the row of each stream
    hub,        \* "running" or "stopped"
    registered, \* Hub.clients
    sending,    \* clients that BroadcastToUser has still to serve
    send,       \* messages in each Client.Send
    closed,     \* clients whose Send channel is closed
    reader, writer, \* ReadPump and WritePump
    conn,       \* the WebSocket connection
    restarts, errors

brokerVars == <<published, queue, dead, pending, linked, stage, view, errors>>
clientVars == <<registered, send, closed, reader, writer, conn>>
realtimeVars == <<brokerVars, clientVars, hub, sending, restarts>>

Events == [stream : Streams, kind : Kinds]
Views == {"none", "UP", "PAUSED", "ACTIVE", "RESOLVED"}

RealtimeTypeOK ==
    /\ \A s \in Streams : published[s] \in 0..Len(Script[s]) /\ view[s] \in Views
    /\ queue \in Seq(Events) /\ pending \in Seq(Events) /\ dead \subseteq Streams
    /\ stage \in {"idle", "broadcast", "sending", "ack", "nack"}
    /\ hub \in {"running", "stopped"} /\ linked \in BOOLEAN
    /\ registered \subseteq Clients /\ sending \subseteq Clients /\ closed \subseteq Clients
    /\ send \in [Clients -> 0..SendCap]
    /\ reader \in [Clients -> {"none", "registering", "reading", "unregister", "ended"}]
    /\ writer \in [Clients -> {"none", "writing", "ended"}]
    /\ conn \in [Clients -> {"none", "open", "closed"}]
    /\ restarts \in 0..MaxRestarts /\ errors \in 0..MaxErrors

-----------------------------------------------------------------------------
(* The broker *)

Publish(s) ==
    /\ published[s] < Len(Script[s])
    /\ published' = [published EXCEPT ![s] = @ + 1]
    /\ queue' = Append(queue, [stream |-> s, kind |-> Script[s][published[s] + 1]])
    /\ UNCHANGED <<dead, pending, linked, stage, view, errors, clientVars, hub, sending,
                   restarts>>

Deliver ==
    /\ linked /\ queue # <<>>
    /\ pending' = Append(pending, Head(queue)) /\ queue' = Tail(queue)
    /\ UNCHANGED <<published, dead, linked, stage, view, errors, clientVars, hub, sending,
                   restarts>>

\* The connection breaks: the broker takes back what was not acknowledged, while
\* the process may go on with what it has received.
LinkLost ==
    /\ linked
    /\ linked' = FALSE
    /\ queue' = pending \o queue
    /\ UNCHANGED <<published, dead, pending, stage, view, errors, clientVars, hub, sending,
                   restarts>>

-----------------------------------------------------------------------------
(* EventConsumer *)

ConsumerUnchanged == UNCHANGED <<published, linked, clientVars, hub, restarts>>

\* The row after the statements of the handler.  handleMonitorStatusChange
\* inserts a row if there is none; a check is recorded in another table.
Applied(kind, row) ==
    CASE kind = "monitor.created" -> "UP"
      [] kind = "monitor.paused" -> "PAUSED"
      [] kind = "monitor.deleted" -> "none"
      [] kind = "incident.detected" -> "ACTIVE"
      [] kind = "incident.resolved" -> "RESOLVED"
      [] OTHER -> row

\* Events that the handlers refuse: a row that is missing, and the alert.* events,
\* which the queue is bound to and handleMessage does not know.
Refused(kind, row) ==
    \/ kind \in {"monitor.deleted", "incident.resolved"} /\ row = "none"
    \/ kind = "alert.triggered"

\* handleMessage up to the broadcast; ok: no statement fails.
handleMessage(ok) ==
    LET e == Head(pending)
    IN  /\ stage = "idle" /\ pending # <<>>
        /\ ok \/ errors < MaxErrors
        /\ errors' = IF ok THEN errors ELSE errors + 1
        /\ IF ok /\ ~Refused(e.kind, view[e.stream])
           THEN /\ view' = [view EXCEPT ![e.stream] = Applied(e.kind, @)]
                /\ stage' = "broadcast"
           ELSE stage' = "nack" /\ UNCHANGED view
        /\ UNCHANGED <<queue, dead, pending, sending>> /\ ConsumerUnchanged

\* Mutant: the clients are looked up, and served after the lock is given back.
ReadLockedMutant == FALSE

\* BroadcastToUser holds the read lock from the first client to the last.
ReadLocked == stage = "sending"

BroadcastToUser ==
    /\ stage = "broadcast"
    /\ stage' = "sending" /\ sending' = registered
    /\ UNCHANGED <<queue, dead, pending, view, errors>> /\ ConsumerUnchanged

\* Mutant: the send has no default case.
MaySendMutant(c) == send[c] < SendCap

\* select with a default case: a full channel does not hold the consumer up.
MaySend(c) == TRUE

SendOne(c) ==
    /\ stage = "sending" /\ c \in sending /\ MaySend(c)
    /\ sending' = sending \ {c}
    /\ send' = [send EXCEPT ![c] = IF @ < SendCap THEN @ + 1 ELSE @]
    /\ UNCHANGED <<brokerVars, registered, closed, reader, writer, conn, hub, restarts>>

BroadcastDone ==
    /\ stage = "sending" /\ sending = {}
    /\ stage' = "ack"
    /\ UNCHANGED <<queue, dead, pending, view, errors, sending>> /\ ConsumerUnchanged

\* Mutant: a message whose handling failed is acknowledged.
SettleMutant ==
    /\ stage \in {"ack", "nack"}
    /\ stage' = "idle" /\ pending' = Tail(pending)
    /\ UNCHANGED <<queue, dead, view, errors, sending>> /\ ConsumerUnchanged

\* Ack, or Nack without requeue.  Without the connection both only log an error.
Settle ==
    /\ stage \in {"ack", "nack"}
    /\ stage' = "idle" /\ pending' = Tail(pending)
    /\ dead' = IF stage = "nack" /\ linked THEN dead \cup {Head(pending).stream} ELSE dead
    /\ UNCHANGED <<queue, view, errors, sending>> /\ ConsumerUnchanged

-----------------------------------------------------------------------------
(* Hub.Run and the clients *)

HubUnchanged == UNCHANGED <<brokerVars, hub, sending, restarts>>

\* ServeHTTP up to Register, which waits for the hub.
Connect(c) ==
    /\ reader[c] = "none"
    /\ reader' = [reader EXCEPT ![c] = "registering"]
    /\ conn' = [conn EXCEPT ![c] = "open"]
    /\ UNCHANGED <<registered, send, closed, writer>> /\ HubUnchanged

HubRegister(c) ==
    /\ hub = "running" /\ reader[c] = "registering" /\ ~ReadLocked
    /\ registered' = registered \cup {c}
    /\ reader' = [reader EXCEPT ![c] = "reading"]
    /\ writer' = [writer EXCEPT ![c] = "writing"]
    /\ UNCHANGED <<send, closed, conn>> /\ HubUnchanged

\* The peer goes away, or its pongs stop until the read deadline.
PeerGone(c) ==
    /\ conn[c] = "open"
    /\ conn' = [conn EXCEPT ![c] = "closed"]
    /\ UNCHANGED <<registered, send, closed, reader, writer>> /\ HubUnchanged

ReadFails(c) ==
    /\ reader[c] = "reading" /\ conn[c] = "closed"
    /\ reader' = [reader EXCEPT ![c] = "unregister"]
    /\ UNCHANGED <<registered, send, closed, writer, conn>> /\ HubUnchanged

\* The hub removes the client and closes its channel; ReadPump closes the socket.
HubUnregister(c) ==
    /\ hub = "running" /\ reader[c] = "unregister" /\ ~ReadLocked
    /\ registered' = registered \ {c}
    /\ closed' = closed \cup {c}
    /\ reader' = [reader EXCEPT ![c] = "ended"]
    /\ conn' = [conn EXCEPT ![c] = "closed"]
    /\ UNCHANGED <<send, writer>> /\ HubUnchanged

WriteMessage(c) ==
    /\ writer[c] = "writing" /\ send[c] > 0 /\ conn[c] = "open"
    /\ send' = [send EXCEPT ![c] = @ - 1]
    /\ UNCHANGED <<registered, closed, reader, writer, conn>> /\ HubUnchanged

\* WritePump ends: a message or a ping cannot be written (ok: within the
\* deadline), or the channel is closed and empty.
WriterEnds(c) ==
    /\ writer[c] = "writing"
    /\ conn[c] = "closed" \/ (c \in closed /\ send[c] = 0)
    /\ writer' = [writer EXCEPT ![c] = "ended"]
    /\ conn' = [conn EXCEPT ![c] = "closed"]
    /\ send' = [send EXCEPT ![c] = 0]
    /\ UNCHANGED <<registered, closed, reader>> /\ HubUnchanged

HubStop ==
    /\ hub = "running"
    /\ hub' = "stopped"
    /\ UNCHANGED <<brokerVars, clientVars, sending, restarts>>

-----------------------------------------------------------------------------
NoClient == [c \in Clients |-> "none"]
EmptyChannels == [c \in Clients |-> 0]

\* The process dies and is started again.
Restart ==
    /\ restarts < MaxRestarts
    /\ restarts' = restarts + 1
    /\ queue' = IF linked THEN pending \o queue ELSE queue
    /\ pending' = <<>> /\ linked' = TRUE /\ stage' = "idle"
    /\ hub' = "running" /\ registered' = {} /\ sending' = {} /\ closed' = {}
    /\ send' = EmptyChannels
    /\ reader' = NoClient /\ writer' = NoClient /\ conn' = NoClient
    /\ UNCHANGED <<published, dead, view, errors>>

RealtimeInit ==
    /\ pending = <<>> /\ linked = TRUE /\ stage = "idle"
    /\ hub = "running" /\ registered = {} /\ sending = {} /\ closed = {}
    /\ send = EmptyChannels
    /\ reader = NoClient /\ writer = NoClient /\ conn = NoClient
    /\ published = [s \in Streams |-> 0] /\ queue = <<>> /\ dead = {}
    /\ view = [s \in Streams |-> "none"]
    /\ restarts = 0 /\ errors = 0

ConsumerStep ==
    \/ \E ok \in BOOLEAN : handleMessage(ok)
    \/ BroadcastToUser
    \/ \E c \in Clients : SendOne(c)
    \/ BroadcastDone
    \/ Settle

ClientStep(c) ==
    HubRegister(c) \/ ReadFails(c) \/ HubUnregister(c) \/ WriteMessage(c) \/ WriterEnds(c)

RealtimeNext ==
    \/ \E s \in Streams : Publish(s)
    \/ Deliver \/ LinkLost
    \/ ConsumerStep
    \/ \E c \in Clients : Connect(c) \/ PeerGone(c) \/ ClientStep(c)
    \/ HubStop
    \/ Restart

RealtimeSpec == RealtimeInit /\ [][RealtimeNext]_realtimeVars

\* Goroutines that can go on do; the ping ticker and the write deadline make
\* WriterEnds happen on a dead connection.
RealtimeFairness ==
    /\ WF_realtimeVars(ConsumerStep)
    /\ \A c \in Clients :
         WF_realtimeVars(HubRegister(c) \/ ReadFails(c) \/ WriterEnds(c) \/ HubUnregister(c))

-----------------------------------------------------------------------------
(* Properties *)

\* The hub closes a channel only when nobody can send on it any more: a send on a
\* closed channel would end the process.
NoSendOnClosed == (registered \cup sending) \cap closed = {}

\* The kind of the last published event that says what the row of a stream has to
\* be, as a set of at most one; a check says nothing about the row.
LastKind(s) ==
    {Script[s][n] : n \in {n \in 1..published[s] :
        /\ Script[s][n] # "check.completed"
        /\ \A m \in (n + 1)..published[s] : Script[s][m] = "check.completed"}}

\* What the read model has to say about a stream when all of its events are applied.
Current(s) ==
    IF LastKind(s) = {} THEN {"none"} ELSE {Applied(k, "none") : k \in LastKind(s)}

\* When no event about a stream is on its way, its row shows the last event, in
\* spite of lost connections, crashes between the write and the Ack, and the
\* redeliveries that follow, unless an event went to the dead-letter queue.
ProjectionCurrent ==
    \A s \in Streams :
        ( /\ s \notin dead
          /\ \A i \in DOMAIN queue : queue[i].stream # s
          /\ \A i \in DOMAIN pending : pending[i].stream # s )
        => view[s] \in Current(s)

\* No client, however slow or dead, keeps the consumer from its next event, and
\* one that goes away, even while it waits for the hub to register it, leaves no
\* goroutine behind while the hub runs.
HubAdvances ==
    /\ []<>(stage = "idle")
    /\ \A c \in Clients :
         []<>( \/ conn[c] = "open" \/ hub = "stopped"
               \/ {reader[c], writer[c]} \subseteq {"none", "ended"} )
=============================================================================
