--------------------------- MODULE Services_proofs ---------------------------
(***************************************************************************)
(* Proofs about Realtime, Billing, Templates, GatewayPool and Team, for    *)
(* every script of events and every number of clients, orders, RPCs,       *)
(* templates, requests, connections, users and invitations.                *)
(*                                                                         *)
(* The five services share no state; each part states the inductive        *)
(* invariant of its service, shows that every action keeps it, and ends in *)
(* the theorems.                                                           *)
(***************************************************************************)
EXTENDS Realtime, Billing, Templates, GatewayPool, Team, FiniteSetTheorems, TLAPS

-----------------------------------------------------------------------------
(* dashboard-service: the hub and the read model *)

\* A client is registered from the hand-over to the hub until the hub closes its
\* channel, after which its ReadPump has ended; BroadcastToUser serves registered
\* clients only, and only while it holds the read lock.
HubInv ==
    /\ reader \in [Clients -> {"none", "registering", "reading", "unregister", "ended"}]
    /\ registered \subseteq Clients /\ closed \subseteq Clients
    /\ \A c \in registered : reader[c] \in {"reading", "unregister"}
    /\ \A c \in closed : reader[c] = "ended"
    /\ sending \subseteq registered
    /\ sending # {} => ReadLocked

\* The steps of the broker and of the consumer leave the clients alone.
LEMMA ConsumerHub ==
    ASSUME HubInv,
           \/ \E s \in Streams : Publish(s)
           \/ Deliver \/ LinkLost \/ ConsumerStep
    PROVE  HubInv'
<1> USE DEF HubInv, ReadLocked, clientVars
<1>1. CASE \E s \in Streams : Publish(s)
  BY <1>1 DEF Publish
<1>2. CASE Deliver
  BY <1>2 DEF Deliver
<1>3. CASE LinkLost
  BY <1>3 DEF LinkLost
<1>4. CASE \E ok \in BOOLEAN : handleMessage(ok)
  BY <1>4 DEF handleMessage, ConsumerUnchanged
<1>5. CASE BroadcastToUser
  BY <1>5 DEF BroadcastToUser, ConsumerUnchanged
<1>6. CASE \E c \in Clients : SendOne(c)
  BY <1>6 DEF SendOne, brokerVars
<1>7. CASE BroadcastDone
  BY <1>7 DEF BroadcastDone, ConsumerUnchanged
<1>8. CASE Settle
  BY <1>8 DEF Settle, ConsumerUnchanged
<1> QED BY <1>1, <1>2, <1>3, <1>4, <1>5, <1>6, <1>7, <1>8 DEF ConsumerStep

\* The steps of a client and of the hub's goroutine.
LEMMA ClientHub ==
    ASSUME HubInv, NEW c \in Clients, Connect(c) \/ PeerGone(c) \/ ClientStep(c)
    PROVE  HubInv'
<1> USE DEF HubInv, ReadLocked, HubUnchanged, brokerVars
<1>1. CASE Connect(c)
  BY <1>1 DEF Connect
<1>2. CASE PeerGone(c)
  BY <1>2 DEF PeerGone
<1>3. CASE HubRegister(c)
  BY <1>3 DEF HubRegister
<1>4. CASE ReadFails(c)
  BY <1>4 DEF ReadFails
<1>5. CASE HubUnregister(c)
  BY <1>5 DEF HubUnregister
<1>6. CASE WriteMessage(c)
  BY <1>6 DEF WriteMessage
<1>7. CASE WriterEnds(c)
  BY <1>7 DEF WriterEnds
<1> QED BY <1>1, <1>2, <1>3, <1>4, <1>5, <1>6, <1>7 DEF ClientStep

\* No send on a closed channel: the hub removes a client under the write lock, which
\* it cannot have while a broadcast is between two clients.
THEOREM HubSafe == RealtimeSpec => []NoSendOnClosed
<1>1. RealtimeInit => HubInv
  BY DEF RealtimeInit, HubInv, NoClient
<1>2. HubInv /\ [RealtimeNext]_realtimeVars => HubInv'
  <2> SUFFICES ASSUME HubInv, [RealtimeNext]_realtimeVars PROVE HubInv'
    OBVIOUS
  <2>1. CASE HubStop
    BY <2>1 DEF HubStop, HubInv, ReadLocked, brokerVars, clientVars
  <2>2. CASE Restart
    BY <2>2 DEF Restart, HubInv, NoClient
  <2>3. CASE UNCHANGED realtimeVars
    BY <2>3 DEF realtimeVars, HubInv, ReadLocked, brokerVars, clientVars
  <2> QED BY <2>1, <2>2, <2>3, ConsumerHub, ClientHub DEF RealtimeNext
<1>3. HubInv => NoSendOnClosed
  BY DEF HubInv, NoSendOnClosed
<1> QED BY <1>1, <1>2, <1>3, PTL DEF RealtimeSpec

-----------------------------------------------------------------------------
(* The read model *)

\* An event that says what the row of stream s has to be.
Tells(e, s) == e.stream = s /\ e.kind # "check.completed"

\* None of the events of a queue does, and if one does, the last has its kind in K.
Silent(q, s) == \A i \in DOMAIN q : ~Tells(q[i], s)
EndsIn(q, s, K) ==
    \A i \in DOMAIN q :
        Tells(q[i], s) /\ (\A j \in DOMAIN q : j > i => ~Tells(q[j], s)) => q[i].kind \in K

\* What the consumer has received and not applied yet.
Unapplied == IF stage \in {"broadcast", "sending", "ack"} THEN Tail(pending) ELSE pending

FlowTypeOK ==
    /\ queue \in Seq(Events) /\ pending \in Seq(Events)
    /\ published \in [Streams -> Nat] /\ view \in [Streams -> Views]
    /\ \A s \in Streams : published[s] <= Len(Script[s])
    /\ stage \in {"idle", "broadcast", "sending", "ack", "nack"}
    /\ stage # "idle" => pending # <<>>
    /\ linked \in BOOLEAN

\* The last telling event of the broker's queue, and if there is none the last of
\* the process, is the last one published; when there is none at all, the row shows
\* it.  Once the connection is lost the queue holds all that the process has.
StreamInv(s) ==
    /\ EndsIn(queue, s, LastKind(s))
    /\ linked /\ Silent(queue, s) => EndsIn(pending, s, LastKind(s))
    /\ ~linked /\ Silent(queue, s) => Silent(pending, s)
    /\ Silent(queue, s) /\ (linked => Silent(Unapplied, s)) => view[s] \in Current(s)

FlowInv == FlowTypeOK /\ \A s \in Streams : s \notin dead => StreamInv(s)

\* A queue that says nothing of a stream ends in anything.
LEMMA SilentEnds == ASSUME NEW q, NEW s, NEW K, Silent(q, s) PROVE EndsIn(q, s, K)
BY DEF Silent, EndsIn

\* Silence and the last event of a queue with one more event, ...
LEMMA AppendFlow ==
    ASSUME NEW q \in Seq(Events), NEW e \in Events, NEW s \in Streams, NEW K
    PROVE  /\ Append(q, e) \in Seq(Events) /\ Append(q, e) # <<>>
           /\ Silent(Append(q, e), s) <=> Silent(q, s) /\ ~Tells(e, s)
           /\ Tells(e, s) /\ e.kind \in K => EndsIn(Append(q, e), s, K)
           /\ ~Tells(e, s) /\ EndsIn(q, s, K) => EndsIn(Append(q, e), s, K)
<1>1. /\ Append(q, e) \in Seq(Events) /\ Len(Append(q, e)) = Len(q) + 1
      /\ Append(q, e)[Len(q) + 1] = e /\ \A i \in 1..Len(q) : Append(q, e)[i] = q[i]
      /\ Len(q) \in Nat /\ DOMAIN q = 1..Len(q) /\ DOMAIN Append(q, e) = 1..(Len(q) + 1)
  OBVIOUS
<1> DEFINE a == Append(q, e)
           n == Len(q)
<1> HIDE DEF a, n
<1>2. /\ a \in Seq(Events) /\ a[n + 1] = e /\ \A i \in 1..n : a[i] = q[i]
      /\ n \in Nat /\ DOMAIN q = 1..n /\ DOMAIN a = 1..(n + 1)
  BY <1>1 DEF a, n
<1>3. Silent(a, s) <=> Silent(q, s) /\ ~Tells(e, s)
  BY <1>2 DEF Silent
<1>4. ASSUME Tells(e, s), e.kind \in K PROVE EndsIn(a, s, K)
  BY <1>2, <1>4 DEF EndsIn
<1>5. ASSUME ~Tells(e, s), EndsIn(q, s, K) PROVE EndsIn(a, s, K)
  BY <1>2, <1>5 DEF EndsIn
<1>6. a # <<>>
  BY <1>2
<1> QED BY <1>2, <1>3, <1>4, <1>5, <1>6 DEF a

\* ... without its first event, ...
LEMMA TailFlow ==
    ASSUME NEW q \in Seq(Events), q # <<>>, NEW s \in Streams, NEW K
    PROVE  /\ Head(q) \in Events /\ Tail(q) \in Seq(Events)
           /\ Silent(q, s) <=> ~Tells(Head(q), s) /\ Silent(Tail(q), s)
           /\ EndsIn(q, s, K) => EndsIn(Tail(q), s, K)
           /\ EndsIn(q, s, K) /\ Silent(Tail(q), s) /\ Tells(Head(q), s) => Head(q).kind \in K
<1> DEFINE t == Tail(q)
           n == Len(q)
<1>1. /\ t \in Seq(Events) /\ Head(q) = q[1] /\ Head(q) \in Events
      /\ n \in Nat /\ n > 0 /\ Len(t) = n - 1
      /\ DOMAIN q = 1..n /\ DOMAIN t = 1..(n - 1)
      /\ \A i \in 1..(n - 1) : t[i] = q[i + 1]
  OBVIOUS
<1> HIDE DEF t, n
<1>2. \A i \in 2..n : i - 1 \in 1..(n - 1) /\ t[i - 1] = q[i]
  BY <1>1
<1>3. Silent(q, s) <=> ~Tells(Head(q), s) /\ Silent(t, s)
  <2>1. ASSUME Silent(q, s) PROVE ~Tells(Head(q), s) /\ Silent(t, s)
    BY <1>1, <2>1 DEF Silent
  <2>2. ASSUME ~Tells(Head(q), s), Silent(t, s) PROVE Silent(q, s)
    <3>1. ASSUME NEW i \in 1..n PROVE ~Tells(q[i], s)
      <4>1. CASE i = 1
        BY <1>1, <2>2, <4>1
      <4>2. CASE i \in 2..n
        <5>1. i - 1 \in DOMAIN t /\ t[i - 1] = q[i]
          BY <1>1, <1>2, <4>2
        <5> QED BY <2>2, <5>1 DEF Silent
      <4> QED BY <1>1, <4>1, <4>2
    <3> QED BY <1>1, <3>1 DEF Silent
  <2> QED BY <2>1, <2>2
<1>4. ASSUME EndsIn(q, s, K) PROVE EndsIn(t, s, K)
  <2> SUFFICES ASSUME NEW i \in 1..(n - 1), Tells(t[i], s),
                      \A j \in 1..(n - 1) : j > i => ~Tells(t[j], s)
               PROVE  t[i].kind \in K
    BY <1>1 DEF EndsIn
  <2>1. i + 1 \in 1..n /\ t[i] = q[i + 1]
    BY <1>1
  <2>2. \A j \in 1..n : j > i + 1 => ~Tells(q[j], s)
    BY <1>1, <1>2
  <2> QED BY <1>1, <1>4, <2>1, <2>2 DEF EndsIn
<1>5. ASSUME EndsIn(q, s, K), Silent(t, s), Tells(Head(q), s) PROVE Head(q).kind \in K
  <2>1. ASSUME NEW j \in 1..n, j > 1 PROVE ~Tells(q[j], s)
    <3>1. j - 1 \in DOMAIN t /\ t[j - 1] = q[j]
      BY <1>1, <1>2, <2>1
    <3> QED BY <1>5, <3>1 DEF Silent
  <2> QED BY <1>1, <1>5, <2>1 DEF EndsIn
<1> QED BY <1>1, <1>3, <1>4, <1>5 DEF t

\* ... and behind another one.
LEMMA JoinFlow ==
    ASSUME NEW p \in Seq(Events), NEW q \in Seq(Events), NEW s \in Streams, NEW K
    PROVE  /\ p \o q \in Seq(Events)
           /\ Silent(p \o q, s) <=> Silent(p, s) /\ Silent(q, s)
           /\ EndsIn(q, s, K) /\ (Silent(q, s) => EndsIn(p, s, K)) => EndsIn(p \o q, s, K)
<1> DEFINE c == p \o q
           m == Len(p)
           n == Len(q)
<1>1. /\ c \in Seq(Events) /\ m \in Nat /\ n \in Nat
      /\ DOMAIN p = 1..m /\ DOMAIN q = 1..n /\ DOMAIN c = 1..(m + n)
      /\ \A i \in 1..m : c[i] = p[i]
      /\ \A i \in (m + 1)..(m + n) : c[i] = q[i - m]
  OBVIOUS
<1> HIDE DEF c, m, n
<1>2. \A i \in 1..n : m + i \in 1..(m + n) /\ m + i > m /\ c[m + i] = q[i]
  BY <1>1
<1>3. ASSUME Silent(c, s) PROVE Silent(p, s) /\ Silent(q, s)
  <2>1. \A i \in 1..m : ~Tells(p[i], s)
    BY <1>1, <1>3 DEF Silent
  <2>2. ASSUME NEW i \in 1..n PROVE ~Tells(q[i], s)
    <3>1. ~Tells(c[m + i], s)
      BY <1>1, <1>2, <1>3 DEF Silent
    <3> QED BY <1>2, <3>1
  <2> QED BY <1>1, <2>1, <2>2 DEF Silent
<1>4. ASSUME Silent(p, s), Silent(q, s) PROVE Silent(c, s)
  <2>1. ASSUME NEW i \in 1..(m + n) PROVE ~Tells(c[i], s)
    <3>1. CASE i \in 1..m
      BY <1>1, <1>4, <3>1 DEF Silent
    <3>2. CASE i \in (m + 1)..(m + n)
      <4>1. i - m \in 1..n
        BY <1>1, <3>2
      <4> QED BY <1>1, <1>4, <3>2, <4>1 DEF Silent
    <3> QED BY <1>1, <3>1, <3>2
  <2> QED BY <1>1, <2>1 DEF Silent
<1>5. ASSUME EndsIn(q, s, K), Silent(q, s) => EndsIn(p, s, K) PROVE EndsIn(c, s, K)
  <2> SUFFICES ASSUME NEW i \in 1..(m + n), Tells(c[i], s),
                      \A j \in 1..(m + n) : j > i => ~Tells(c[j], s)
               PROVE  c[i].kind \in K
    BY <1>1 DEF EndsIn
  <2>1. CASE i \in 1..m
    <3>1. ASSUME NEW j \in 1..n PROVE ~Tells(q[j], s)
      <4>1. m + j \in 1..(m + n) /\ m + j > i /\ c[m + j] = q[j]
        BY <1>1, <1>2, <2>1
      <4> QED BY <4>1
    <3>2. EndsIn(p, s, K)
      BY <1>1, <1>5, <3>1 DEF Silent
    <3>3. \A j \in 1..m : j > i => ~Tells(p[j], s)
      BY <1>1
    <3> QED BY <1>1, <2>1, <3>2, <3>3 DEF EndsIn
  <2>2. CASE i \in (m + 1)..(m + n)
    <3>1. i - m \in 1..n /\ c[i] = q[i - m]
      BY <1>1, <2>2
    <3>2. ASSUME NEW j \in 1..n, j > i - m PROVE ~Tells(q[j], s)
      <4>1. m + j \in 1..(m + n) /\ m + j > i /\ c[m + j] = q[j]
        BY <1>1, <1>2, <2>2, <3>2
      <4> QED BY <4>1
    <3> QED BY <1>1, <1>5, <3>1, <3>2 DEF EndsIn
  <2> QED BY <1>1, <2>1, <2>2
<1> QED BY <1>1, <1>3, <1>4, <1>5 DEF c

\* LastKind and Current only depend on how much of the script is published.
LEMMA PublishedKind ==
    ASSUME FlowTypeOK, NEW s \in Streams, published[s] < Len(Script[s]),
           published' = [published EXCEPT ![s] = @ + 1],
           NEW k, k = Script[s][published[s] + 1]
    PROVE  /\ k \in Kinds
           /\ k # "check.completed" => k \in LastKind(s)'
           /\ k = "check.completed" => LastKind(s)' = LastKind(s)
           /\ \A t \in Streams \ {s} : LastKind(t)' = LastKind(t)
<1> DEFINE n == published[s]
           Last(i, top) == Script[s][i] # "check.completed"
                           /\ \A m \in (i + 1)..top : Script[s][m] = "check.completed"
<1>1. n \in Nat /\ published'[s] = n + 1 /\ k = Script[s][n + 1]
  BY DEF FlowTypeOK
<1>2. k \in Kinds
  <2>1. Script[s] \in Seq(Kinds) /\ n + 1 \in 1..Len(Script[s])
    BY RealtimeAssumption, <1>1
  <2> QED BY <1>1, <2>1
<1>3. LastKind(s) = {Script[s][i] : i \in {i \in 1..n : Last(i, n)}}
  BY DEF LastKind
<1>4. LastKind(s)' = {Script[s][i] : i \in {i \in 1..(n + 1) : Last(i, n + 1)}}
  BY <1>1 DEF LastKind
<1> HIDE DEF n
<1>5. k # "check.completed" => k \in LastKind(s)'
  <2> SUFFICES ASSUME k # "check.completed" PROVE k \in LastKind(s)'
    OBVIOUS
  <2>1. n + 1 \in 1..(n + 1) /\ Last(n + 1, n + 1)
    BY <1>1
  <2> QED BY <1>1, <1>4, <2>1
<1>6. k = "check.completed" => LastKind(s)' = LastKind(s)
  <2> SUFFICES ASSUME k = "check.completed" PROVE LastKind(s)' = LastKind(s)
    OBVIOUS
  <2>1. {i \in 1..n : Last(i, n)} = {i \in 1..(n + 1) : Last(i, n + 1)}
    <3>1. ASSUME NEW i \in 1..n, Last(i, n) PROVE i \in 1..(n + 1) /\ Last(i, n + 1)
      BY <1>1, <3>1
    <3>2. ASSUME NEW i \in 1..(n + 1), Last(i, n + 1) PROVE i \in 1..n /\ Last(i, n)
      BY <1>1, <3>2
    <3> HIDE DEF Last
    <3> QED BY <3>1, <3>2
  <2> QED BY <1>3, <1>4, <2>1
<1>7. ASSUME NEW t \in Streams \ {s} PROVE LastKind(t)' = LastKind(t)
  <2>1. published'[t] = published[t]
    BY DEF FlowTypeOK
  <2> QED BY <2>1 DEF LastKind
<1> QED BY <1>2, <1>5, <1>6, <1>7

\* Steps that change nothing of what FlowInv is about, and steps that only move the
\* consumer on after it has written the row.
LEMMA SameFlow ==
    ASSUME FlowInv, UNCHANGED <<published, queue, dead, pending, linked, view>>,
           \/ stage' = stage
           \/ stage \in {"broadcast", "sending", "ack"} /\ stage' \in {"broadcast", "sending", "ack"}
    PROVE  FlowInv'
<1>1. FlowTypeOK' /\ Unapplied' = Unapplied
  BY DEF FlowInv, FlowTypeOK, Unapplied
<1>2. ASSUME NEW s \in Streams PROVE LastKind(s)' = LastKind(s)
  BY DEF LastKind
<1>3. ASSUME NEW s \in Streams, StreamInv(s) PROVE StreamInv(s)'
  BY <1>1, <1>2, <1>3 DEF StreamInv, Current
<1> QED BY <1>1, <1>3 DEF FlowInv

\* A service publishes its next event: the exchange queues it, or has no queue yet.
LEMMA PublishFlow ==
    ASSUME FlowInv, NEW s \in Streams, Publish(s)
    PROVE  FlowInv'
<1> DEFINE e == [stream |-> s, kind |-> Script[s][published[s] + 1]]
<1>1. /\ published[s] < Len(Script[s]) /\ published' = [published EXCEPT ![s] = @ + 1]
      /\ queue' = Append(queue, e)
      /\ UNCHANGED <<dead, pending, linked, stage, view>>
  BY DEF Publish
<1>2. /\ e.kind \in Kinds
      /\ e.kind # "check.completed" => e.kind \in LastKind(s)'
      /\ e.kind = "check.completed" => LastKind(s)' = LastKind(s)
      /\ \A t \in Streams \ {s} : LastKind(t)' = LastKind(t)
  BY <1>1, PublishedKind DEF FlowInv
<1>3. e \in Events
  BY <1>2 DEF Events
<1>4. FlowTypeOK' /\ Unapplied' = Unapplied
  <2>1. published' \in [Streams -> Nat] /\ \A t \in Streams : published'[t] <= Len(Script[t])
    <3>1. Len(Script[s]) \in Nat
      BY RealtimeAssumption
    <3> QED BY <1>1, <3>1 DEF FlowInv, FlowTypeOK
  <2>2. queue' \in Seq(Events)
    BY <1>1, <1>3 DEF FlowInv, FlowTypeOK
  <2> QED BY <1>1, <2>1, <2>2 DEF FlowInv, FlowTypeOK, Unapplied
<1>5. ASSUME NEW t \in Streams, StreamInv(t) PROVE StreamInv(t)'
  <2> HIDE DEF e
  <2>1. \A K : /\ Silent(queue', t) <=> Silent(queue, t) /\ ~Tells(e, t)
               /\ Tells(e, t) /\ e.kind \in K => EndsIn(queue', t, K)
               /\ ~Tells(e, t) /\ EndsIn(queue, t, K) => EndsIn(queue', t, K)
    BY <1>1, <1>3, AppendFlow DEF FlowInv, FlowTypeOK
  <2>2. CASE Tells(e, t)
    <3>1. t = s /\ e.kind # "check.completed"
      BY <2>2 DEF Tells, e
    <3>2. ~Silent(queue', t) /\ EndsIn(queue', t, LastKind(t)')
      BY <1>2, <2>1, <2>2, <3>1
    <3> QED BY <3>2 DEF StreamInv
  <2>3. CASE ~Tells(e, t)
    <3>1. LastKind(t)' = LastKind(t)
      BY <1>2, <2>3 DEF Tells, e
    <3>2. Current(t)' = Current(t)
      BY <3>1 DEF Current
    <3>3. /\ Silent(queue', t) <=> Silent(queue, t)
          /\ EndsIn(queue', t, LastKind(t)')
      BY <1>5, <2>1, <2>3, <3>1 DEF StreamInv
    <3> QED BY <1>1, <1>4, <1>5, <3>1, <3>2, <3>3 DEF StreamInv
  <2> QED BY <2>2, <2>3
<1> QED BY <1>1, <1>4, <1>5 DEF FlowInv

\* The broker hands the first event to the consumer.
LEMMA DeliverFlow == ASSUME FlowInv, Deliver PROVE FlowInv'
<1>1. /\ linked /\ queue # <<>> /\ queue' = Tail(queue)
      /\ pending' = Append(pending, Head(queue))
      /\ UNCHANGED <<published, dead, linked, stage, view>>
  BY DEF Deliver
<1>2. /\ queue \in Seq(Events) /\ pending \in Seq(Events) /\ Head(queue) \in Events
      /\ stage # "idle" => pending # <<>>
  BY <1>1 DEF FlowInv, FlowTypeOK
<1> DEFINE h == Head(queue)
<1> HIDE DEF h
<1>3. FlowTypeOK'
  <2>1. queue' \in Seq(Events) /\ pending' \in Seq(Events) /\ pending' # <<>>
    BY <1>1, <1>2
  <2> QED BY <1>1, <2>1 DEF FlowInv, FlowTypeOK
<1>4. Unapplied \in Seq(Events) /\ Unapplied' = Append(Unapplied, h)
  <2>1. CASE stage \in {"broadcast", "sending", "ack"}
    <3>1. Tail(Append(pending, h)) = Append(Tail(pending), h)
      BY <1>2, <2>1 DEF h
    <3> QED BY <1>1, <1>2, <2>1, <3>1 DEF Unapplied, h
  <2>2. CASE stage \notin {"broadcast", "sending", "ack"}
    BY <1>1, <1>2, <2>2 DEF Unapplied, h
  <2> QED BY <2>1, <2>2
<1>5. ASSUME NEW s \in Streams, StreamInv(s) PROVE StreamInv(s)'
  <2>1. LastKind(s)' = LastKind(s) /\ Current(s)' = Current(s)
    BY <1>1 DEF LastKind, Current
  <2>2. \A K : /\ Silent(queue, s) <=> ~Tells(h, s) /\ Silent(queue', s)
               /\ EndsIn(queue, s, K) => EndsIn(queue', s, K)
               /\ EndsIn(queue, s, K) /\ Silent(queue', s) /\ Tells(h, s) => h.kind \in K
    BY <1>1, <1>2, TailFlow DEF h
  <2>3. \A K : /\ Tells(h, s) /\ h.kind \in K => EndsIn(pending', s, K)
               /\ ~Tells(h, s) /\ EndsIn(pending, s, K) => EndsIn(pending', s, K)
    BY <1>1, <1>2, AppendFlow DEF h
  <2>4. Silent(Unapplied', s) <=> Silent(Unapplied, s) /\ ~Tells(h, s)
    BY <1>2, <1>4, AppendFlow DEF h
  <2>5. EndsIn(queue', s, LastKind(s))
    BY <1>5, <2>2 DEF StreamInv
  <2>6. ASSUME Silent(queue', s) PROVE EndsIn(pending', s, LastKind(s))
    BY <1>1, <1>5, <2>2, <2>3, <2>6 DEF StreamInv
  <2>7. ASSUME Silent(queue', s), Silent(Unapplied', s) PROVE view'[s] \in Current(s)
    BY <1>1, <1>5, <2>2, <2>4, <2>7 DEF StreamInv
  <2> QED BY <1>1, <2>1, <2>5, <2>6, <2>7 DEF StreamInv
<1> QED BY <1>1, <1>3, <1>5 DEF FlowInv

\* What the process had goes back in front of the queue: a lost connection or a crash.
LEMMA TakenBack ==
    ASSUME FlowInv, linked, queue' = pending \o queue, NEW s \in Streams, StreamInv(s)
    PROVE  /\ queue' \in Seq(Events)
           /\ EndsIn(queue', s, LastKind(s))
           /\ Silent(queue', s) => Silent(pending, s) /\ view[s] \in Current(s)
<1>1. queue \in Seq(Events) /\ pending \in Seq(Events) /\ (stage # "idle" => pending # <<>>)
  BY DEF FlowInv, FlowTypeOK
<1>2. \A K : /\ queue' \in Seq(Events)
             /\ Silent(queue', s) <=> Silent(pending, s) /\ Silent(queue, s)
             /\ EndsIn(queue, s, K) /\ (Silent(queue, s) => EndsIn(pending, s, K))
                => EndsIn(queue', s, K)
  BY <1>1, JoinFlow
<1>3. Silent(pending, s) => Silent(Unapplied, s)
  BY <1>1, TailFlow DEF Unapplied
<1> QED BY <1>2, <1>3 DEF StreamInv

\* The connection breaks: what was not acknowledged is queued again.
LEMMA LinkLostFlow == ASSUME FlowInv, LinkLost PROVE FlowInv'
<1>1. /\ linked /\ linked' = FALSE /\ queue' = pending \o queue
      /\ UNCHANGED <<published, dead, pending, stage, view>>
  BY DEF LinkLost
<1>2. FlowTypeOK'
  <2>1. queue' \in Seq(Events)
    BY <1>1 DEF FlowInv, FlowTypeOK
  <2> QED BY <1>1, <2>1 DEF FlowInv, FlowTypeOK
<1>3. ASSUME NEW s \in Streams, StreamInv(s) PROVE StreamInv(s)'
  <2>1. LastKind(s)' = LastKind(s) /\ Current(s)' = Current(s)
    BY <1>1 DEF LastKind, Current
  <2>2. /\ EndsIn(queue', s, LastKind(s))
        /\ Silent(queue', s) => Silent(pending, s) /\ view[s] \in Current(s)
    BY <1>1, <1>3, TakenBack
  <2> QED BY <1>1, <2>1, <2>2 DEF StreamInv
<1> QED BY <1>1, <1>2, <1>3 DEF FlowInv

\* The process dies and starts again: so is what it had received.
LEMMA RestartFlow == ASSUME FlowInv, Restart PROVE FlowInv'
<1>1. /\ queue' = IF linked THEN pending \o queue ELSE queue
      /\ pending' = <<>> /\ linked' = TRUE /\ stage' = "idle"
      /\ UNCHANGED <<published, dead, view>>
  BY DEF Restart
<1>2. FlowTypeOK'
  <2>1. queue' \in Seq(Events)
    BY <1>1 DEF FlowInv, FlowTypeOK
  <2> QED BY <1>1, <2>1 DEF FlowInv, FlowTypeOK
<1>3. ASSUME NEW s \in Streams, StreamInv(s) PROVE StreamInv(s)'
  <2>1. LastKind(s)' = LastKind(s) /\ Current(s)' = Current(s)
    BY <1>1 DEF LastKind, Current
  <2>2. EndsIn(queue', s, LastKind(s)) /\ (Silent(queue', s) => view[s] \in Current(s))
    <3>1. CASE linked
      BY <1>1, <1>3, <3>1, TakenBack
    <3>2. CASE ~linked
      BY <1>1, <1>3, <3>2 DEF StreamInv
    <3> QED BY <3>1, <3>2
  <2>3. EndsIn(pending', s, LastKind(s))
    BY <1>1 DEF EndsIn
  <2> QED BY <1>1, <2>1, <2>2, <2>3 DEF StreamInv
<1> QED BY <1>1, <1>2, <1>3 DEF FlowInv

\* What the handlers make of a row.
LEMMA AppliedViews ==
    ASSUME NEW kind \in Kinds, NEW row \in Views
    PROVE  /\ Applied(kind, row) \in Views
           /\ ~Refused(kind, row) /\ kind # "check.completed"
              => Applied(kind, row) = Applied(kind, "none")
           /\ kind = "check.completed" => Applied(kind, row) = row
BY DEF Kinds, Views, Applied, Refused

\* The handler writes the row of the first event, or fails to.
LEMMA HandleFlow ==
    ASSUME FlowInv, NEW ok \in BOOLEAN, handleMessage(ok)
    PROVE  FlowInv'
<1> DEFINE e == Head(pending)
<1>1. /\ stage = "idle" /\ pending # <<>>
      /\ UNCHANGED <<published, queue, dead, pending, linked>>
      /\ IF ok /\ ~Refused(e.kind, view[e.stream])
         THEN /\ view' = [view EXCEPT ![e.stream] = Applied(e.kind, @)]
              /\ stage' = "broadcast"
         ELSE stage' = "nack" /\ UNCHANGED view
  BY DEF handleMessage, ConsumerUnchanged
<1>2. /\ pending \in Seq(Events) /\ view \in [Streams -> Views] /\ e \in Events
      /\ e.stream \in Streams /\ e.kind \in Kinds /\ view[e.stream] \in Views
  <2>1. pending \in Seq(Events) /\ view \in [Streams -> Views] /\ e \in Events
    BY <1>1 DEF FlowInv, FlowTypeOK
  <2> QED BY <2>1 DEF Events
<1> HIDE DEF e
<1>3. ASSUME NEW s \in Streams PROVE LastKind(s)' = LastKind(s) /\ Current(s)' = Current(s)
  BY <1>1 DEF LastKind, Current
<1>4. CASE ok /\ ~Refused(e.kind, view[e.stream])
  <2>1. view' = [view EXCEPT ![e.stream] = Applied(e.kind, @)] /\ stage' = "broadcast"
    BY <1>1, <1>4
  <2>2. view' \in [Streams -> Views]
    BY <1>2, <2>1, AppliedViews
  <2>3. FlowTypeOK'
    BY <1>1, <2>1, <2>2 DEF FlowInv, FlowTypeOK
  <2>4. Unapplied = pending /\ Unapplied' = Tail(pending)
    BY <1>1, <2>1 DEF Unapplied
  <2>5. ASSUME NEW s \in Streams, StreamInv(s) PROVE StreamInv(s)'
    <3>1. \A K : /\ Silent(pending, s) <=> ~Tells(e, s) /\ Silent(Tail(pending), s)
                 /\ EndsIn(pending, s, K) /\ Silent(Tail(pending), s) /\ Tells(e, s)
                    => e.kind \in K
      BY <1>1, <1>2, TailFlow DEF e
    <3>2. ASSUME Silent(queue, s), linked => Silent(Tail(pending), s)
          PROVE  view'[s] \in Current(s)
      <4>1. CASE Tells(e, s)
        <5>1. linked /\ EndsIn(pending, s, LastKind(s))
          <6>1. ~Silent(pending, s)
            BY <3>1, <4>1
          <6> QED BY <2>5, <3>2, <6>1 DEF StreamInv, FlowInv, FlowTypeOK
        <5>2. e.kind \in LastKind(s)
          BY <3>1, <3>2, <4>1, <5>1
        <5>3. view'[s] = Applied(e.kind, "none")
          BY <1>2, <1>4, <2>1, <4>1, AppliedViews DEF Tells
        <5> QED BY <5>2, <5>3 DEF Current
      <4>2. CASE ~Tells(e, s)
        <5>1. view'[s] = view[s]
          BY <1>2, <2>1, <4>2, AppliedViews DEF Tells
        <5> QED BY <2>4, <2>5, <3>1, <3>2, <4>2, <5>1 DEF StreamInv
      <4> QED BY <4>1, <4>2
    <3> QED BY <1>1, <1>3, <2>4, <2>5, <3>2 DEF StreamInv
  <2> QED BY <1>1, <2>3, <2>5 DEF FlowInv
<1>5. CASE ~(ok /\ ~Refused(e.kind, view[e.stream]))
  <2>1. stage' = "nack" /\ view' = view
    BY <1>1, <1>5
  <2>2. FlowTypeOK' /\ Unapplied' = Unapplied
    BY <1>1, <2>1 DEF FlowInv, FlowTypeOK, Unapplied
  <2>3. ASSUME NEW s \in Streams, StreamInv(s) PROVE StreamInv(s)'
    BY <1>1, <1>3, <2>1, <2>2, <2>3 DEF StreamInv
  <2> QED BY <1>1, <2>2, <2>3 DEF FlowInv
<1> QED BY <1>4, <1>5

\* The event is acknowledged, queued again or refused for good.
LEMMA SettleFlow == ASSUME FlowInv, Settle PROVE FlowInv'
<1>1. /\ stage \in {"ack", "nack"} /\ stage' = "idle" /\ pending' = Tail(pending)
      /\ dead' = IF stage = "nack" /\ linked THEN dead \cup {Head(pending).stream} ELSE dead
      /\ UNCHANGED <<published, queue, linked, view>>
  BY DEF Settle, ConsumerUnchanged
<1>2. pending \in Seq(Events) /\ pending # <<>> /\ pending' \in Seq(Events)
  BY <1>1 DEF FlowInv, FlowTypeOK
<1>3. FlowTypeOK' /\ Unapplied' = Tail(pending)
  BY <1>1, <1>2 DEF FlowInv, FlowTypeOK, Unapplied
<1>4. ASSUME NEW s \in Streams, s \notin dead', StreamInv(s) PROVE StreamInv(s)'
  <2>1. LastKind(s)' = LastKind(s) /\ Current(s)' = Current(s)
    BY <1>1 DEF LastKind, Current
  <2>2. \A K : /\ Silent(pending, s) <=> ~Tells(Head(pending), s) /\ Silent(pending', s)
               /\ EndsIn(pending, s, K) => EndsIn(pending', s, K)
    BY <1>1, <1>2, TailFlow
  <2>3. linked /\ Silent(pending', s) => Silent(Unapplied, s)
    <3>1. CASE stage = "ack"
      BY <1>1, <3>1 DEF Unapplied
    <3>2. CASE stage = "nack" /\ linked
      <4>1. ~Tells(Head(pending), s)
        BY <1>1, <1>4, <3>2 DEF Tells
      <4> QED BY <2>2, <3>2, <4>1 DEF Unapplied
    <3> QED BY <1>1, <3>1, <3>2
  <2> QED BY <1>1, <1>3, <1>4, <2>1, <2>2, <2>3 DEF StreamInv
<1> QED BY <1>1, <1>3, <1>4 DEF FlowInv

\* The read model is current whenever no event is on its way, whatever is lost,
\* redelivered or refused, for every script of events.
THEOREM ReadModel == RealtimeSpec => []ProjectionCurrent
<1>1. RealtimeInit => FlowInv
  <2> SUFFICES ASSUME RealtimeInit PROVE FlowInv
    OBVIOUS
  <2>1. \A s \in Streams : published[s] = 0 /\ view[s] = "none" /\ Len(Script[s]) \in Nat
    BY RealtimeAssumption DEF RealtimeInit
  <2>2. FlowTypeOK
    BY <2>1 DEF RealtimeInit, FlowTypeOK, Views
  <2>3. ASSUME NEW s \in Streams PROVE StreamInv(s)
    <3>1. LastKind(s) = {}
      BY <2>1 DEF LastKind
    <3>2. view[s] \in Current(s)
      BY <2>1, <3>1 DEF Current
    <3>3. Silent(queue, s) /\ Silent(pending, s)
      BY DEF RealtimeInit, Silent
    <3> QED BY <3>2, <3>3, SilentEnds DEF StreamInv
  <2> QED BY <2>2, <2>3 DEF FlowInv
<1>2. FlowInv /\ [RealtimeNext]_realtimeVars => FlowInv'
  <2> SUFFICES ASSUME FlowInv, [RealtimeNext]_realtimeVars PROVE FlowInv'
    OBVIOUS
  <2>1. CASE ConsumerStep
    <3>1. CASE BroadcastToUser
      BY <3>1, SameFlow DEF BroadcastToUser, ConsumerUnchanged
    <3>2. CASE \E c \in Clients : SendOne(c)
      BY <3>2, SameFlow DEF SendOne, brokerVars
    <3>3. CASE BroadcastDone
      BY <3>3, SameFlow DEF BroadcastDone, ConsumerUnchanged
    <3> QED BY <2>1, <3>1, <3>2, <3>3, HandleFlow, SettleFlow DEF ConsumerStep
  <2>2. CASE \E c \in Clients : Connect(c) \/ PeerGone(c) \/ ClientStep(c)
    <3>1. HubUnchanged
      BY <2>2 DEF Connect, PeerGone, ClientStep, HubRegister, ReadFails, HubUnregister,
                  WriteMessage, WriterEnds
    <3> QED BY <3>1, SameFlow DEF HubUnchanged, brokerVars
  <2>3. CASE HubStop
    BY <2>3, SameFlow DEF HubStop, brokerVars
  <2>4. CASE UNCHANGED realtimeVars
    BY <2>4, SameFlow DEF realtimeVars, brokerVars
  <2> QED BY <2>1, <2>2, <2>3, <2>4, PublishFlow, DeliverFlow, LinkLostFlow, RestartFlow
          DEF RealtimeNext
<1>3. FlowInv => ProjectionCurrent
  <2> SUFFICES ASSUME FlowInv, NEW s \in Streams, s \notin dead,
                      \A i \in DOMAIN queue : queue[i].stream # s,
                      \A i \in DOMAIN pending : pending[i].stream # s
               PROVE  view[s] \in Current(s)
    BY DEF ProjectionCurrent
  <2>1. Silent(queue, s) /\ Silent(pending, s)
    BY DEF Silent, Tells
  <2>2. Silent(Unapplied, s)
    BY <2>1, TailFlow DEF Unapplied, FlowInv, FlowTypeOK
  <2> QED BY <2>1, <2>2 DEF FlowInv, StreamInv
<1> QED BY <1>1, <1>2, <1>3, PTL DEF RealtimeSpec

-----------------------------------------------------------------------------
(* billing-service *)

\* An RPC under way, by the rows that it has still to write.
Checkouts == [step : {"subscribe", "record"}, order : Orders]
Reports == [step : {"payment", "read", "apply"}, order : Orders, event : Decisions]
Cancels == [step : {"cancel"}, order : Orders]
Rpcs == Checkouts \cup Reports \cup Cancels \cup {NoWork}

BillingTypes ==
    /\ provider \in [Orders -> {"none", "open"} \cup Decisions]
    /\ webhooks \subseteq Webhooks
    /\ sub \in [Orders -> {"none", "PENDING", "ACTIVE", "CANCELED"}]
    /\ pay \in [Orders -> {"none", "PENDING", "SUCCESS", "FAILED", "REFUNDED"}]
    /\ work \in [Serving -> Rpcs]
    /\ billingFaults \in Nat

CheckingOut(w) == work[w].step \in {"subscribe", "record"}
Handling(w) == work[w].step \in {"payment", "read", "apply"}
Applying(w) == work[w].step \in {"read", "apply"}

\* One CreateCheckout serves an order, before its payment has a row; an RPC that
\* handles a webhook has found the row, and has written the outcome when it turns to
\* the subscription; and an outcome that is not in the table is reported again.
RecordInv ==
    /\ \A o \in Orders : provider[o] = "none" => pay[o] = "none"
    /\ \A w \in Serving : CheckingOut(w) =>
         provider[work[w].order] # "none" /\ pay[work[w].order] = "none"
    /\ \A v, w \in Serving :
         CheckingOut(v) /\ CheckingOut(w) /\ work[v].order = work[w].order => v = w
    /\ \A w \in Serving : Handling(w) => pay[work[w].order] # "none"
    /\ \A w \in Serving : Applying(w) => pay[work[w].order] # "PENDING"
    /\ \A o \in Orders : provider[o] \in Decisions /\ pay[o] \in {"none", "PENDING"} =>
         \E h \in webhooks : h.order = o

\* A success in the table whose subscription waits is being applied.
SettleInv ==
    billingFaults = 0 =>
        \A o \in Orders :
            pay[o] = "SUCCESS" /\ sub[o] = "PENDING" /\ (\A p \in Orders \ {o} : sub[p] = "none")
            => \E w \in Serving : Applying(w) /\ work[w].order = o /\ work[w].event = "succeeded"

BillingInv == BillingTypes /\ RecordInv /\ SettleInv

\* The step tells what an RPC is.
LEMMA RpcSteps ==
    ASSUME NEW r \in Rpcs
    PROVE  /\ r \in Checkouts <=> r.step \in {"subscribe", "record"}
           /\ r \in Reports <=> r.step \in {"payment", "read", "apply"}
           /\ r \in Cancels <=> r.step = "cancel"
           /\ r = NoWork <=> r.step = "none"
           /\ r # NoWork => r.order \in Orders
           /\ r \in Reports => r.event \in Decisions
<1>1. CASE r \in Checkouts
  BY <1>1 DEF Checkouts, Reports, Cancels, NoWork
<1>2. CASE r \in Reports
  BY <1>2 DEF Checkouts, Reports, Cancels, NoWork
<1>3. CASE r \in Cancels
  BY <1>3 DEF Checkouts, Reports, Cancels, NoWork
<1>4. CASE r = NoWork
  BY <1>4 DEF Checkouts, Reports, Cancels, NoWork
<1> QED BY <1>1, <1>2, <1>3, <1>4 DEF Rpcs

\* An RPC that goes on keeps its order and its webhook.
LEMMA GoesOn ==
    ASSUME BillingTypes, NEW w \in Serving, NEW s, GoOn(w, s),
           \/ work[w].step = "subscribe" /\ s = "record"
           \/ work[w].step = "payment" /\ s = "read"
           \/ work[w].step = "read" /\ s = "apply"
    PROVE  /\ work' \in [Serving -> Rpcs]
           /\ \A v \in Serving \ {w} : work'[v] = work[v]
           /\ work'[w].step = s /\ work'[w].order = work[w].order
           /\ work[w] \in Reports => work'[w] \in Reports /\ work'[w].event = work[w].event
<1>1. work \in [Serving -> Rpcs] /\ work[w] \in Rpcs
  BY DEF BillingTypes
<1>2. work' = [work EXCEPT ![w] = [work[w] EXCEPT !.step = s]]
  BY DEF GoOn
<1>3. CASE work[w] \in Checkouts
  <2>1. s = "record"
    BY <1>3 DEF Checkouts
  <2>2. [work[w] EXCEPT !.step = s] \in Checkouts
    BY <1>3, <2>1 DEF Checkouts
  <2>3. [work[w] EXCEPT !.step = s].step = s /\ [work[w] EXCEPT !.step = s].order = work[w].order
    BY <1>3 DEF Checkouts
  <2>4. work[w] \notin Reports
    BY <1>3 DEF Checkouts, Reports
  <2> QED BY <1>1, <1>2, <2>2, <2>3, <2>4 DEF Rpcs
<1>4. CASE work[w] \in Reports
  <2>1. s \in {"read", "apply"}
    BY <1>4 DEF Reports
  <2>2. [work[w] EXCEPT !.step = s] \in Reports
    BY <1>4, <2>1 DEF Reports
  <2>3. /\ [work[w] EXCEPT !.step = s].step = s /\ [work[w] EXCEPT !.step = s].order = work[w].order
        /\ [work[w] EXCEPT !.step = s].event = work[w].event
    BY <1>4 DEF Reports
  <2> QED BY <1>1, <1>2, <2>2, <2>3 DEF Rpcs
<1> QED BY <1>1, <1>3, <1>4, RpcSteps

\* An RPC returns.
LEMMA Returns ==
    ASSUME BillingTypes, NEW w \in Serving, Return(w)
    PROVE  /\ work' \in [Serving -> Rpcs] /\ work'[w] = NoWork
           /\ \A v \in Serving \ {w} : work'[v] = work[v]
BY DEF BillingTypes, Return, Rpcs

\* The entry of a worker without an RPC.
LEMMA NoWorkStep == NoWork.step = "none" /\ NoWork \in Rpcs
BY DEF NoWork, Rpcs

\* What a step does to the RPCs is all that RecordInv needs to know of it, when the
\* payments, the provider and the webhooks stay as they are.
LEMMA RecordKept ==
    ASSUME BillingInv, NEW w \in Serving, UNCHANGED <<provider, pay, webhooks>>,
           \A v \in Serving \ {w} : work'[v] = work[v],
           CheckingOut(w)' => CheckingOut(w) /\ work'[w].order = work[w].order,
           Handling(w)' => Handling(w) /\ work'[w].order = work[w].order,
           Applying(w)' => Applying(w)
    PROVE  RecordInv'
BY DEF BillingInv, RecordInv, CheckingOut, Handling, Applying

\* The provider.
LEMMA DecideKeeps ==
    ASSUME BillingInv, NEW o \in Orders, NEW e \in Decisions, Decide(o, e)
    PROVE  BillingInv'
<1> USE DEF BillingInv, Decide
<1>1. BillingTypes'
  BY DEF BillingTypes, Webhooks
<1>2. RecordInv'
  <2>1. \A p \in Orders : provider'[p] = "none" => provider[p] = "none"
    BY DEF BillingTypes, Decisions
  <2>2. \A p \in Orders : p # o => provider'[p] = provider[p]
    BY DEF BillingTypes
  <2>3. \A w \in Serving : CheckingOut(w) => work[w].order \in Orders
    BY RpcSteps, NoWorkStep DEF BillingTypes, CheckingOut
  <2>4. [order |-> o, event |-> e] \in webhooks' /\ webhooks \subseteq webhooks'
    OBVIOUS
  <2> QED BY <2>1, <2>2, <2>3, <2>4 DEF RecordInv, CheckingOut, Handling, Applying
<1>3. SettleInv'
  BY DEF SettleInv, Applying
<1> QED BY <1>1, <1>2, <1>3

\* CreateCheckout.
LEMMA CheckoutKeeps ==
    ASSUME BillingInv, NEW w \in Serving,
           \/ \E o \in Orders : CreateCheckout(w, o)
           \/ CheckoutSubscribe(w)
           \/ CheckoutRecord(w)
    PROVE  BillingInv'
<1> USE DEF BillingInv
<1>0. work \in [Serving -> Rpcs] /\ work[w] \in Rpcs
  BY DEF BillingTypes
<1>1. ASSUME NEW o \in Orders, CreateCheckout(w, o) PROVE BillingInv'
  <2>1. work' = [work EXCEPT ![w] = [step |-> "subscribe", order |-> o]] /\ work[w] = NoWork
    BY <1>1 DEF CreateCheckout, Serve
  <2>2. work'[w].step = "subscribe" /\ work'[w].order = o /\ \A v \in Serving \ {w} : work'[v] = work[v]
    BY <1>0, <2>1
  <2>3. [step |-> "subscribe", order |-> o] \in Rpcs
    BY DEF Rpcs, Checkouts
  <2>4. BillingTypes'
    BY <1>0, <1>1, <2>1, <2>3 DEF BillingTypes, CreateCheckout
  <2>5. RecordInv'
    <3>1. /\ provider[o] = "none" /\ provider'[o] = "open" /\ pay[o] = "none"
          /\ \A p \in Orders \ {o} : provider'[p] = provider[p]
          /\ UNCHANGED <<pay, webhooks>>
      BY <1>1 DEF CreateCheckout, BillingTypes, RecordInv
    <3>2. \A v \in Serving : CheckingOut(v) => work[v].order \in Orders \ {o}
      BY <3>1, RpcSteps, NoWorkStep DEF BillingTypes, CheckingOut, RecordInv
    <3> QED BY <2>2, <3>1, <3>2 DEF RecordInv, CheckingOut, Handling, Applying, Decisions
  <2>6. SettleInv'
    <3>1. work[w].step = "none"
      BY <2>1, NoWorkStep
    <3> QED BY <1>1, <2>2, <3>1 DEF SettleInv, Applying, CreateCheckout
  <2> QED BY <2>4, <2>5, <2>6
<1>2. CASE CheckoutSubscribe(w)
  <2> DEFINE o == work[w].order
  <2>1. /\ work[w].step = "subscribe" /\ UNCHANGED <<provider, webhooks, pay, billingFaults>>
        /\ \/ sub' = [sub EXCEPT ![o] = "PENDING"] /\ GoOn(w, "record")
           \/ UNCHANGED sub /\ Return(w)
    BY <1>2 DEF CheckoutSubscribe
  <2>2. o \in Orders /\ pay[o] = "none"
    BY <1>0, <2>1, RpcSteps, NoWorkStep DEF RecordInv, CheckingOut
  <2>3. /\ work' \in [Serving -> Rpcs] /\ \A v \in Serving \ {w} : work'[v] = work[v]
        /\ \/ work'[w].step = "record" /\ work'[w].order = o
           \/ work'[w].step = "none"
    BY <2>1, GoesOn, Returns, NoWorkStep
  <2> HIDE DEF o
  <2>4. BillingTypes'
    BY <2>1, <2>2, <2>3 DEF BillingTypes
  <2>5. RecordInv'
    <3> USE DEF o
    <3> QED BY <2>1, <2>3, RecordKept DEF CheckingOut, Handling, Applying
  <2>6. SettleInv'
    <3>1. \A p \in Orders \ {o} : sub'[p] = sub[p]
      BY <2>1, <2>2 DEF BillingTypes
    <3>2. sub'[o] = "none" => sub[o] = "none"
      BY <2>1, <2>2 DEF BillingTypes
    <3> QED BY <2>1, <2>2, <2>3, <3>1, <3>2 DEF SettleInv, Applying
  <2> QED BY <2>4, <2>5, <2>6
<1>3. CASE CheckoutRecord(w)
  <2> DEFINE o == work[w].order
  <2>1. /\ work[w].step = "record" /\ UNCHANGED <<provider, webhooks, sub, billingFaults>>
        /\ pay' = [pay EXCEPT ![o] = "PENDING"] /\ Return(w)
    BY <1>3 DEF CheckoutRecord
  <2>2. o \in Orders /\ pay[o] = "none" /\ provider[o] # "none"
    BY <1>0, <2>1, RpcSteps, NoWorkStep DEF RecordInv, CheckingOut
  <2>3. /\ work' \in [Serving -> Rpcs] /\ \A v \in Serving \ {w} : work'[v] = work[v]
        /\ work'[w].step = "none"
    BY <2>1, Returns, NoWorkStep
  <2>4. \A v \in Serving \ {w} : CheckingOut(v) => work[v].order # o
    BY <2>1 DEF RecordInv, CheckingOut
  <2>5. \A v \in Serving : Handling(v) => work[v].order # o
    BY <2>2 DEF RecordInv
  <2> HIDE DEF o
  <2>6. BillingTypes'
    BY <2>1, <2>2, <2>3 DEF BillingTypes
  <2>7. pay'[o] = "PENDING" /\ \A p \in Orders \ {o} : pay'[p] = pay[p]
    BY <2>1, <2>2 DEF BillingTypes
  <2>8. \A v \in Serving : CheckingOut(v) \/ Handling(v) => work[v].order \in Orders
    BY RpcSteps, NoWorkStep DEF BillingTypes, CheckingOut, Handling
  <2>9. RecordInv'
    BY <2>1, <2>2, <2>3, <2>4, <2>5, <2>7, <2>8 DEF RecordInv, CheckingOut, Handling, Applying
  <2>10. SettleInv'
    BY <2>1, <2>2, <2>3, <2>7 DEF SettleInv, Applying
  <2> QED BY <2>6, <2>9, <2>10
<1> QED BY <1>1, <1>2, <1>3

\* ProcessWebhook and what follows it.
LEMMA WebhookKeeps ==
    ASSUME BillingInv, NEW w \in Serving, NEW h \in Webhooks, ProcessWebhook(w, h)
    PROVE  BillingInv'
<1> USE DEF BillingInv
<1>0. h.order \in Orders /\ h.event \in Decisions
  BY DEF Webhooks
<1>1. CASE Accepted(h)
  <2>1. /\ webhooks' = webhooks \ {h} /\ pay[h.order] = "SUCCESS"
        /\ UNCHANGED <<work, provider, sub, pay, billingFaults>>
    BY <1>1 DEF ProcessWebhook, Accepted
  <2> QED BY <1>0, <2>1 DEF BillingTypes, RecordInv, SettleInv, CheckingOut, Handling, Applying
<1>2. CASE ~Accepted(h)
  <2> DEFINE r == [step |-> "payment", order |-> h.order, event |-> h.event]
  <2>1. /\ pay[h.order] # "none" /\ work[w] = NoWork /\ work' = [work EXCEPT ![w] = r]
        /\ UNCHANGED <<webhooks, provider, sub, pay, billingFaults>>
    BY <1>2 DEF ProcessWebhook, Serve
  <2>2. r \in Rpcs /\ r.step = "payment" /\ r.order = h.order
    BY <1>0 DEF Rpcs, Reports
  <2> HIDE DEF r
  <2>3. /\ work' \in [Serving -> Rpcs] /\ work'[w] = r
        /\ \A v \in Serving \ {w} : work'[v] = work[v]
    BY <2>1, <2>2 DEF BillingTypes
  <2>4. BillingTypes'
    BY <2>1, <2>3 DEF BillingTypes
  <2>5. RecordInv'
    BY <2>1, <2>2, <2>3 DEF RecordInv, CheckingOut, Handling, Applying
  <2>6. SettleInv'
    <3>1. work[w].step = "none"
      BY <2>1, NoWorkStep
    <3> QED BY <2>1, <2>3, <3>1 DEF SettleInv, Applying
  <2> QED BY <2>4, <2>5, <2>6
<1> QED BY <1>1, <1>2

\* The outcome is written to the payment, or the statement fails.
LEMMA UpdatePaymentKeeps ==
    ASSUME BillingInv, NEW w \in Serving, UpdatePayment(w)
    PROVE  BillingInv'
<1> USE DEF BillingInv
<1> DEFINE o == work[w].order
           s == PaymentStatus(work[w].event)
<1>1. /\ work[w].step = "payment" /\ pay' = [pay EXCEPT ![o] = s] /\ GoOn(w, "read")
      /\ UNCHANGED <<provider, webhooks, sub, billingFaults>>
  BY DEF UpdatePayment
<1>2. /\ work[w] \in Rpcs /\ work[w] \in Reports /\ o \in Orders
      /\ work[w].event \in Decisions /\ pay[o] # "none"
  BY <1>1, RpcSteps, NoWorkStep DEF BillingTypes, RecordInv, Handling
<1>3. s \in {"SUCCESS", "FAILED", "REFUNDED"} /\ (s = "SUCCESS" => work[w].event = "succeeded")
  BY <1>2 DEF PaymentStatus, Decisions
<1>4. /\ work' \in [Serving -> Rpcs] /\ \A v \in Serving \ {w} : work'[v] = work[v]
      /\ work'[w].step = "read" /\ work'[w].order = o /\ work'[w].event = work[w].event
  BY <1>1, <1>2, GoesOn
<1> HIDE DEF o, s
<1>5. pay'[o] = s /\ \A p \in Orders \ {o} : pay'[p] = pay[p]
  BY <1>1, <1>2 DEF BillingTypes
<1>6. BillingTypes'
  BY <1>1, <1>2, <1>3, <1>4 DEF BillingTypes
<1>7. \A v \in Serving : CheckingOut(v) \/ Handling(v) => work[v].order \in Orders
  BY RpcSteps, NoWorkStep DEF BillingTypes, CheckingOut, Handling
<1>8. \A v \in Serving : CheckingOut(v) => work[v].order # o
  BY <1>2 DEF RecordInv
<1>9. RecordInv'
  <2>1. \A p \in Orders : pay'[p] \in {"none", "PENDING"} => pay'[p] = pay[p]
    BY <1>3, <1>5
  <2>2. \A p \in Orders : provider[p] = "none" => p # o
    BY <1>2 DEF RecordInv
  <2>3. \A v \in Serving : CheckingOut(v)' => v # w /\ CheckingOut(v)
    BY <1>4 DEF CheckingOut
  <2>4. \A v \in Serving : Handling(v)' => pay'[work'[v].order] # "none"
    BY <1>2, <1>3, <1>4, <1>5, <1>7 DEF RecordInv, Handling
  <2>5. \A v \in Serving : Applying(v)' => pay'[work'[v].order] # "PENDING"
    BY <1>2, <1>3, <1>4, <1>5, <1>7 DEF RecordInv, Applying, Handling
  <2> QED BY <1>1, <1>4, <1>5, <1>7, <1>8, <2>1, <2>2, <2>3, <2>4, <2>5 DEF RecordInv
<1>10. SettleInv'
  <2> SUFFICES ASSUME billingFaults = 0, NEW p \in Orders, pay'[p] = "SUCCESS", sub[p] = "PENDING",
                      \A q \in Orders \ {p} : sub[q] = "none"
               PROVE  \E v \in Serving : Applying(v)' /\ work'[v].order = p /\ work'[v].event = "succeeded"
    BY <1>1 DEF SettleInv
  <2>1. CASE p = o
    BY <1>3, <1>4, <1>5, <2>1 DEF Applying
  <2>2. CASE p # o
    <3>1. PICK v \in Serving : Applying(v) /\ work[v].order = p /\ work[v].event = "succeeded"
      BY <1>5, <2>2 DEF SettleInv
    <3>2. v # w
      BY <1>1, <3>1 DEF Applying
    <3> QED BY <1>4, <3>1, <3>2 DEF Applying
  <2> QED BY <2>1, <2>2
<1> QED BY <1>6, <1>9, <1>10

\* GetByID of the subscription.
LEMMA ReadKeeps ==
    ASSUME BillingInv, NEW w \in Serving, ReadSubscription(w)
    PROVE  BillingInv'
<1> USE DEF BillingInv
<1>1. /\ work[w].step = "read" /\ UNCHANGED <<provider, webhooks, sub, pay, billingFaults>>
      /\ \/ GoOn(w, "apply")
         \/ work[w].event # "succeeded" /\ Return(w)
  BY DEF ReadSubscription
<1>2. work[w] \in Rpcs /\ work[w] \in Reports
  BY <1>1, RpcSteps DEF BillingTypes
<1>3. /\ work' \in [Serving -> Rpcs] /\ \A v \in Serving \ {w} : work'[v] = work[v]
      /\ \/ /\ work'[w].step = "apply" /\ work'[w].order = work[w].order
            /\ work'[w].event = work[w].event
         \/ work[w].event # "succeeded" /\ work'[w].step = "none"
  BY <1>1, <1>2, GoesOn, Returns, NoWorkStep
<1>4. BillingTypes'
  BY <1>1, <1>3 DEF BillingTypes
<1>5. RecordInv'
  BY <1>1, <1>3, RecordKept DEF CheckingOut, Handling, Applying
<1>6. SettleInv'
  <2> SUFFICES ASSUME billingFaults = 0, NEW p \in Orders, pay[p] = "SUCCESS", sub[p] = "PENDING",
                      \A q \in Orders \ {p} : sub[q] = "none"
               PROVE  \E v \in Serving : Applying(v)' /\ work'[v].order = p /\ work'[v].event = "succeeded"
    BY <1>1 DEF SettleInv
  <2>1. PICK v \in Serving : Applying(v) /\ work[v].order = p /\ work[v].event = "succeeded"
    BY DEF SettleInv
  <2> QED BY <1>3, <2>1 DEF Applying
<1> QED BY <1>4, <1>5, <1>6

\* The outcome is applied to the subscription, or the statement fails.
LEMMA UpdateSubscriptionKeeps ==
    ASSUME BillingInv, NEW w \in Serving, UpdateSubscription(w)
    PROVE  BillingInv'
<1> USE DEF BillingInv
<1> DEFINE o == work[w].order
           e == work[w].event
           s == SubscriptionStatus(e, sub[o])
<1>1. /\ work[w].step = "apply" /\ Return(w) /\ UNCHANGED <<provider, pay>>
      /\ \/ /\ IndexAllows(o, s) /\ sub' = [sub EXCEPT ![o] = s]
            /\ \/ /\ webhooks' = webhooks \ {[order |-> o, event |-> e]}
                  /\ UNCHANGED billingFaults
               \/ Fault /\ UNCHANGED webhooks
         \/ ~IndexAllows(o, s) /\ UNCHANGED <<sub, webhooks, billingFaults>>
  BY DEF UpdateSubscription
<1>2. o \in Orders /\ pay[o] \notin {"none", "PENDING"} /\ s \in {"ACTIVE", "CANCELED"}
  BY <1>1, RpcSteps, NoWorkStep DEF BillingTypes, RecordInv, Handling, Applying, SubscriptionStatus
<1>3. /\ work' \in [Serving -> Rpcs] /\ \A v \in Serving \ {w} : work'[v] = work[v]
      /\ work'[w].step = "none"
  BY <1>1, Returns, NoWorkStep
<1>4. /\ billingFaults' \in Nat /\ (billingFaults' = 0 => billingFaults = 0)
      /\ webhooks' \subseteq Webhooks
      /\ \A h \in webhooks : h.order # o => h \in webhooks'
  <2>1. [order |-> o, event |-> e].order = o
    OBVIOUS
  <2> QED BY <1>1, <2>1 DEF BillingTypes, Fault
<1>5. IndexAllows(o, s) \/ \E p \in Orders \ {o} : sub[p] # "none"
  BY <1>2 DEF IndexAllows
<1> HIDE DEF o, e, s
<1>6. /\ \A p \in Orders \ {o} : sub'[p] = sub[p]
      /\ sub' = sub \/ sub'[o] = s
      /\ sub' \in [Orders -> {"none", "PENDING", "ACTIVE", "CANCELED"}]
      /\ IndexAllows(o, s) => sub'[o] = s
  BY <1>1, <1>2 DEF BillingTypes
<1>7. BillingTypes'
  BY <1>1, <1>3, <1>4, <1>6 DEF BillingTypes
<1>8. RecordInv'
  <2>1. \A p \in Orders : provider[p] \in Decisions /\ pay[p] \in {"none", "PENDING"} =>
             \E h \in webhooks' : h.order = p
    BY <1>2, <1>4 DEF RecordInv
  <2> QED BY <1>1, <1>3, <2>1 DEF RecordInv, CheckingOut, Handling, Applying
<1>9. SettleInv'
  <2> SUFFICES ASSUME billingFaults' = 0, NEW p \in Orders, pay[p] = "SUCCESS", sub'[p] = "PENDING",
                      \A q \in Orders \ {p} : sub'[q] = "none"
               PROVE  \E v \in Serving : Applying(v)' /\ work'[v].order = p /\ work'[v].event = "succeeded"
    BY <1>1 DEF SettleInv
  <2>1. /\ billingFaults = 0 /\ sub[p] = "PENDING" /\ \A q \in Orders \ {p} : sub[q] = "none"
    BY <1>2, <1>4, <1>6
  <2>2. PICK v \in Serving : Applying(v) /\ work[v].order = p /\ work[v].event = "succeeded"
    BY <2>1 DEF SettleInv
  <2>3. p # o
    BY <1>2, <1>5, <1>6, <2>1
  <2>4. v # w
    BY <2>2, <2>3 DEF o
  <2> QED BY <1>3, <2>2, <2>4 DEF Applying
<1> QED BY <1>7, <1>8, <1>9

\* CancelSubscription, and a statement that fails.
LEMMA CancelKeeps ==
    ASSUME BillingInv, NEW w \in Serving,
           (\E o \in Orders : CancelSubscription(w, o)) \/ CancelWrite(w) \/ StatementFails(w)
    PROVE  BillingInv'
<1> USE DEF BillingInv
<1>0. work \in [Serving -> Rpcs] /\ work[w] \in Rpcs
  BY DEF BillingTypes
<1>1. ASSUME NEW o \in Orders, CancelSubscription(w, o) PROVE BillingInv'
  <2>1. /\ work' = [work EXCEPT ![w] = [step |-> "cancel", order |-> o]] /\ work[w] = NoWork
        /\ UNCHANGED <<provider, webhooks, sub, pay, billingFaults>>
    BY <1>1 DEF CancelSubscription, Serve
  <2>2. [step |-> "cancel", order |-> o] \in Rpcs /\ work[w].step = "none"
    BY <2>1, NoWorkStep DEF Rpcs, Cancels
  <2>3. /\ work'[w].step = "cancel" /\ work' \in [Serving -> Rpcs]
        /\ \A v \in Serving \ {w} : work'[v] = work[v]
    BY <1>0, <2>1, <2>2
  <2>4. RecordInv'
    BY <2>1, <2>3, RecordKept DEF CheckingOut, Handling, Applying
  <2> QED BY <2>1, <2>2, <2>3, <2>4 DEF BillingTypes, SettleInv, Applying
<1>2. CASE CancelWrite(w)
  <2> DEFINE o == work[w].order
  <2>1. /\ work[w].step = "cancel" /\ sub' = [sub EXCEPT ![o] = "CANCELED"] /\ Return(w)
        /\ UNCHANGED <<provider, webhooks, pay, billingFaults>>
    BY <1>2 DEF CancelWrite
  <2>2. o \in Orders
    BY <1>0, <2>1, RpcSteps, NoWorkStep
  <2>3. /\ work' \in [Serving -> Rpcs] /\ \A v \in Serving \ {w} : work'[v] = work[v]
        /\ work'[w].step = "none"
    BY <2>1, Returns, NoWorkStep
  <2>4. RecordInv'
    BY <2>1, <2>3, RecordKept DEF CheckingOut, Handling, Applying
  <2> HIDE DEF o
  <2>5. /\ sub'[o] = "CANCELED" /\ \A p \in Orders \ {o} : sub'[p] = sub[p]
        /\ sub' \in [Orders -> {"none", "PENDING", "ACTIVE", "CANCELED"}]
    BY <2>1, <2>2 DEF BillingTypes
  <2>6. SettleInv'
    BY <2>1, <2>2, <2>3, <2>5 DEF SettleInv, Applying
  <2> QED BY <2>1, <2>3, <2>4, <2>5, <2>6 DEF BillingTypes
<1>3. CASE StatementFails(w)
  <2>1. /\ Return(w) /\ UNCHANGED <<provider, webhooks, sub, pay>>
        /\ billingFaults' = billingFaults + 1
    BY <1>3 DEF StatementFails, Fault
  <2>2. /\ work' \in [Serving -> Rpcs] /\ \A v \in Serving \ {w} : work'[v] = work[v]
        /\ work'[w].step = "none"
    BY <2>1, Returns, NoWorkStep
  <2>3. RecordInv'
    BY <2>1, <2>2, RecordKept DEF CheckingOut, Handling, Applying
  <2> QED BY <2>1, <2>2, <2>3 DEF BillingTypes, SettleInv
<1> QED BY <1>1, <1>2, <1>3

\* The invariant of billing, for any number of orders and of RPCs at a time.
LEMMA BillingInvariant == BillingSpec => []BillingInv
<1>1. BillingInit => BillingInv
  <2> SUFFICES ASSUME BillingInit PROVE BillingInv
    OBVIOUS
  <2>1. \A w \in Serving : work[w].step = "none"
    BY NoWorkStep DEF BillingInit
  <2>2. BillingTypes
    BY NoWorkStep DEF BillingInit, BillingTypes
  <2> QED BY <2>1, <2>2 DEF BillingInit, BillingInv, RecordInv, SettleInv, CheckingOut, Handling,
                            Applying, Decisions
<1>2. BillingInv /\ [BillingNext]_billingVars => BillingInv'
  <2> SUFFICES ASSUME BillingInv, [BillingNext]_billingVars PROVE BillingInv'
    OBVIOUS
  <2>1. CASE UNCHANGED billingVars
    BY <2>1 DEF billingVars, BillingInv, BillingTypes, RecordInv, SettleInv, CheckingOut,
                Handling, Applying
  <2>2. ASSUME NEW w \in Serving, BillingStep(w) PROVE BillingInv'
    BY <2>2, CheckoutKeeps, WebhookKeeps, UpdatePaymentKeeps, ReadKeeps,
       UpdateSubscriptionKeeps, CancelKeeps DEF BillingStep
  <2> QED BY <2>1, <2>2, DecideKeeps DEF BillingNext
<1> QED BY <1>1, <1>2, PTL DEF BillingSpec

\* No accepted webhook leaves its payment without a row or PENDING.
THEOREM OutcomesRecorded == BillingSpec => []OutcomeRecorded
<1>1. BillingInv => OutcomeRecorded
  BY DEF BillingInv, RecordInv, OutcomeRecorded
<1> QED BY <1>1, BillingInvariant, PTL

\* A payment that is recorded as successful has activated its subscription.
THEOREM SuccessApplied == BillingSpec => []PaidSettled
<1>1. BillingInv => PaidSettled
  <2>1. ASSUME Settled PROVE \A w \in Serving : ~Applying(w)
    BY <2>1, NoWorkStep DEF Settled, Applying
  <2> QED BY <2>1 DEF BillingInv, SettleInv, PaidSettled
<1> QED BY <1>1, BillingInvariant, PTL

-----------------------------------------------------------------------------
(* notification-template-service *)

Rows == [status : {"unused", "stored", "deleted"}, isDefault : BOOLEAN, version : Nat]

\* An RPC, by what it knows.
Readers == [stage : {"clone", "update", "delete", "select"}, id : TemplateIds, row : Rows]
Beginners == [stage : {"begin"}, id : TemplateIds]
Resets == [stage : {"reset"}, id : TemplateIds, todo : SUBSET TemplateIds, off : SUBSET TemplateIds]
Commits == [stage : {"commit"}, off : SUBSET TemplateIds, on : SUBSET TemplateIds]
Edits == Readers \cup Beginners \cup Resets \cup Commits \cup {NotServed, Served}

TemplateTypes ==
    /\ template \in [TemplateIds -> Rows]
    /\ rowLock \in [TemplateIds -> Editors \cup {Unlocked}]
    /\ edit \in [Editors -> Edits]

\* A row that is not stored is blank, and stays so once it was deleted.
RowsBlank ==
    \A t \in TemplateIds : /\ template[t].status = "unused" => template[t] = NoTemplate
                           /\ template[t].status = "deleted" => template[t] = Deleted

HasId(r) == edit[r].stage \in {"clone", "update", "delete", "select", "begin", "reset"}
InTransaction(r) == edit[r].stage \in {"reset", "commit"}

\* The template that an RPC has read was stored once; a transaction has the locks of
\* the rows that it resets, which are default until it commits, and of the one it sets.
LocksHold ==
    \A r \in Editors :
        /\ HasId(r) => template[edit[r].id].status # "unused"
        /\ InTransaction(r) => \A t \in edit[r].off : rowLock[t] = r /\ template[t].isDefault
        /\ edit[r].stage = "commit" =>
             /\ \A t \in edit[r].on : rowLock[t] = r /\ HasTemplate(t)
             /\ edit[r].on = {} => \E t \in TemplateIds : template[t] = Deleted

TemplatesInv == TemplateTypes /\ RowsBlank /\ LocksHold

\* The stage tells what an RPC on templates is, ...
LEMMA EditStages ==
    ASSUME NEW e \in Edits
    PROVE  /\ e \in Readers <=> e.stage \in {"clone", "update", "delete", "select"}
           /\ e \in Beginners <=> e.stage = "begin"
           /\ e \in Resets <=> e.stage = "reset"
           /\ e \in Commits <=> e.stage = "commit"
           /\ e.stage \in {"clone", "update", "delete", "select", "begin", "reset"}
              => e.id \in TemplateIds
<1>1. CASE e \in Readers
  BY <1>1 DEF Readers, Beginners, Resets, Commits
<1>2. CASE e \in Beginners
  BY <1>2 DEF Readers, Beginners, Resets, Commits
<1>3. CASE e \in Resets
  BY <1>3 DEF Readers, Beginners, Resets, Commits
<1>4. CASE e \in Commits
  BY <1>4 DEF Readers, Beginners, Resets, Commits
<1>5. CASE e \in {NotServed, Served}
  BY <1>5 DEF Readers, Beginners, Resets, Commits, NotServed, Served
<1> QED BY <1>1, <1>2, <1>3, <1>4, <1>5 DEF Edits

\* ... and what it knows.
LEMMA EditTypes ==
    ASSUME TemplateTypes, NEW r \in Editors
    PROVE  /\ HasId(r) => edit[r].id \in TemplateIds
           /\ InTransaction(r) => edit[r].off \subseteq TemplateIds
           /\ edit[r].stage = "commit" => edit[r].on \subseteq TemplateIds
<1>1. edit[r] \in Edits
  BY DEF TemplateTypes
<1>2. CASE edit[r].stage = "reset"
  <2>1. edit[r] \in Resets
    BY <1>1, <1>2, EditStages
  <2> QED BY <1>2, <2>1 DEF Resets, HasId, InTransaction
<1>3. CASE edit[r].stage = "commit"
  <2>1. edit[r] \in Commits
    BY <1>1, <1>3, EditStages
  <2> QED BY <1>3, <2>1 DEF Commits, HasId, InTransaction
<1> QED BY <1>1, <1>2, <1>3, EditStages DEF HasId, InTransaction

\* The rows and the RPCs that stand for nothing.
LEMMA Blanks ==
    /\ NoTemplate \in Rows /\ NewTemplate \in Rows /\ Deleted \in Rows
    /\ NoTemplate.status = "unused" /\ NewTemplate.status = "stored" /\ Deleted.status = "deleted"
    /\ NoTemplate.isDefault = FALSE /\ Deleted.isDefault = FALSE
    /\ NotServed \in Edits /\ Served \in Edits
    /\ NotServed.stage = "none" /\ Served.stage = "over"
BY DEF NoTemplate, NewTemplate, Deleted, Rows, NotServed, Served, Edits

\* A free lock is no RPC.
LEMMA LocksDiffer == \A r \in Editors : r # Unlocked
BY TemplatesAssumption DEF Unlocked

\* A step of one RPC that writes at most one row, which is not locked.
LEMMA OneRow ==
    ASSUME TemplatesInv, NEW r \in Editors, NEW e \in Edits, Edit(r, e), UNCHANGED rowLock,
           NEW t \in TemplateIds, NEW row \in Rows, WriteRow(t, row),
           rowLock[t] = Unlocked \/ ~HasTemplate(t),
           template[t].status # "unused" => row.status # "unused",
           template[t] = Deleted => row = Deleted,
           row.status \in {"unused", "deleted"} => row = NoTemplate \/ row = Deleted,
           e.stage = "over"
    PROVE  TemplatesInv'
<1> USE DEF TemplatesInv
<1>1. TemplateTypes'
  BY DEF TemplateTypes, Edit, WriteRow
<1>2. template'[t] = row /\ \A u \in TemplateIds \ {t} : template'[u] = template[u]
  BY DEF TemplateTypes, WriteRow
<1>3. RowsBlank'
  BY <1>2, Blanks DEF RowsBlank
<1>4. edit'[r] = e /\ \A q \in Editors \ {r} : edit'[q] = edit[q]
  BY DEF TemplateTypes, Edit
<1>5. ~HasTemplate(t) => ~template[t].isDefault
  BY Blanks DEF RowsBlank, HasTemplate, TemplateTypes, Rows
<1>6. LocksHold'
  <2> SUFFICES ASSUME NEW q \in Editors, q # r
      PROVE  /\ HasId(q)' => template'[edit'[q].id].status # "unused"
             /\ InTransaction(q)' => \A u \in edit'[q].off : rowLock[u] = q /\ template'[u].isDefault
             /\ edit'[q].stage = "commit" =>
                  /\ \A u \in edit'[q].on : rowLock[u] = q /\ HasTemplate(u)'
                  /\ edit'[q].on = {} => \E u \in TemplateIds : template'[u] = Deleted
    BY <1>4 DEF LocksHold, HasId, InTransaction
  <2>1. edit'[q] = edit[q] /\ q # Unlocked
    BY <1>4, LocksDiffer
  <2>2. HasId(q) => edit[q].id \in TemplateIds /\ template[edit[q].id].status # "unused"
    BY EditTypes DEF LocksHold
  <2>3. InTransaction(q) => \A u \in edit[q].off : /\ u \in TemplateIds \ {t}
                                                  /\ rowLock[u] = q /\ template[u].isDefault
    BY <1>5, <2>1, EditTypes DEF LocksHold
  <2>4. edit[q].stage = "commit" =>
          /\ \A u \in edit[q].on : u \in TemplateIds \ {t} /\ rowLock[u] = q /\ HasTemplate(u)
          /\ edit[q].on = {} => \E u \in TemplateIds : template[u] = Deleted
    BY <2>1, EditTypes DEF LocksHold
  <2> QED BY <1>2, <2>1, <2>2, <2>3, <2>4 DEF HasId, InTransaction, HasTemplate
<1> QED BY <1>1, <1>3, <1>6

\* What LocksHold says of one RPC.
Holds(r) ==
    /\ HasId(r) => template[edit[r].id].status # "unused"
    /\ InTransaction(r) => \A t \in edit[r].off : rowLock[t] = r /\ template[t].isDefault
    /\ edit[r].stage = "commit" =>
         /\ \A t \in edit[r].on : rowLock[t] = r /\ HasTemplate(t)
         /\ edit[r].on = {} => \E t \in TemplateIds : template[t] = Deleted

\* A step that writes no row and touches no lock of another transaction.
LEMMA NoRow ==
    ASSUME TemplatesInv, NEW r \in Editors, NEW e \in Edits, Edit(r, e), UNCHANGED template,
           rowLock' \in [TemplateIds -> Editors \cup {Unlocked}],
           \A t \in TemplateIds : rowLock[t] \in Editors \ {r} => rowLock'[t] = rowLock[t],
           Holds(r)'
    PROVE  TemplatesInv'
<1> USE DEF TemplatesInv
<1>1. TemplateTypes' /\ RowsBlank'
  BY DEF TemplateTypes, RowsBlank, Edit
<1>2. \A q \in Editors \ {r} : edit'[q] = edit[q]
  BY DEF TemplateTypes, Edit
<1>3. ASSUME NEW q \in Editors, q # r PROVE Holds(q)'
  <2>1. Holds(q)
    BY DEF LocksHold, Holds
  <2>2. /\ InTransaction(q) => edit[q].off \subseteq TemplateIds
        /\ edit[q].stage = "commit" => edit[q].on \subseteq TemplateIds
    BY EditTypes
  <2>3. edit'[q] = edit[q]
    BY <1>2, <1>3
  <2>4. InTransaction(q) => \A t \in edit[q].off : rowLock'[t] = q /\ template[t].isDefault
    BY <1>3, <2>1, <2>2 DEF Holds
  <2>5. edit[q].stage = "commit" => \A t \in edit[q].on : rowLock'[t] = q /\ HasTemplate(t)
    BY <1>3, <2>1, <2>2 DEF Holds
  <2> QED BY <2>1, <2>3, <2>4, <2>5 DEF Holds, HasId, InTransaction, HasTemplate
<1>4. LocksHold'
  BY <1>3 DEF LocksHold, Holds
<1> QED BY <1>1, <1>4

\* CreateTemplate and CloneTemplate insert a row.
LEMMA InsertKeeps == ASSUME TemplatesInv, NEW r \in Editors, Insert(r) PROVE TemplatesInv'
<1>1. PICK t \in Own : template[t] = NoTemplate /\ WriteRow(t, NewTemplate)
  BY DEF Insert
<1>2. Edit(r, Served) /\ UNCHANGED rowLock /\ t \in TemplateIds
  BY DEF Insert, Own
<1>3. ~HasTemplate(t) /\ template[t] # Deleted /\ template[t].status = "unused"
  BY <1>1, Blanks DEF HasTemplate
<1> QED BY <1>1, <1>2, <1>3, Blanks, OneRow

\* UpdateTemplate writes the row that it has read.
LEMMA UpdateWriteKeeps == ASSUME TemplatesInv, NEW r \in Editors, UpdateWrite(r) PROVE TemplatesInv'
<1> DEFINE t == edit[r].id
           row == [template[t] EXCEPT !.version = edit[r].row.version + 1]
<1>1. edit[r].stage = "update" /\ rowLock[t] = Unlocked /\ Edit(r, Served) /\ UNCHANGED rowLock
  BY DEF UpdateWrite
<1>2. edit[r] \in Readers
  BY <1>1, EditStages DEF TemplatesInv, TemplateTypes
<1>3. t \in TemplateIds /\ template[t] \in Rows /\ edit[r].row.version + 1 \in Nat
  BY <1>2 DEF Readers, Rows, TemplatesInv, TemplateTypes
<1>4. CASE HasTemplate(t)
  <2>1. row \in Rows /\ row.status = "stored"
    BY <1>3, <1>4 DEF Rows, HasTemplate
  <2>2. template[t] # Deleted
    BY <1>4, Blanks DEF HasTemplate
  <2>3. WriteRow(t, row)
    BY <1>4 DEF UpdateWrite
  <2> HIDE DEF t, row
  <2> QED BY <1>1, <1>3, <2>1, <2>2, <2>3, Blanks, OneRow
<1>5. CASE ~HasTemplate(t)
  <2>1. UNCHANGED template
    BY <1>5 DEF UpdateWrite
  <2>2. edit'[r] = Served
    BY <1>1 DEF Edit, TemplatesInv, TemplateTypes
  <2>3. Holds(r)'
    BY <2>2, Blanks DEF Holds, HasId, InTransaction
  <2> QED BY <1>1, <2>1, <2>3, Blanks, NoRow DEF TemplatesInv, TemplateTypes
<1> QED BY <1>4, <1>5

\* DeleteTemplate deletes the row.
LEMMA DeleteKeeps == ASSUME TemplatesInv, NEW r \in Editors, Delete(r) PROVE TemplatesInv'
<1> DEFINE t == edit[r].id
<1>1. /\ edit[r].stage = "delete" /\ rowLock[t] = Unlocked
      /\ WriteRow(t, Deleted) /\ Edit(r, Served) /\ UNCHANGED rowLock
  BY DEF Delete
<1>2. t \in TemplateIds
  BY <1>1, EditStages DEF TemplatesInv, TemplateTypes
<1> QED BY <1>1, <1>2, Blanks, OneRow

\* The RPCs read the row that they are about.
LEMMA GetKeeps ==
    ASSUME TemplatesInv, NEW r \in Editors, NEW t \in TemplateIds,
           NEW s \in {"clone", "update", "delete", "select"}, GetByID(r, t, s)
    PROVE  TemplatesInv'
<1> DEFINE e == [stage |-> s, id |-> t, row |-> template[t]]
<1>1. HasTemplate(t) /\ Edit(r, e) /\ UNCHANGED <<template, rowLock>>
  BY DEF GetByID
<1>2. e \in Edits
  BY DEF Edits, Readers, TemplatesInv, TemplateTypes
<1>3. edit'[r] = e
  BY <1>1 DEF Edit, TemplatesInv, TemplateTypes
<1>4. Holds(r)'
  BY <1>1, <1>3 DEF Holds, HasId, InTransaction, HasTemplate
<1> QED BY <1>1, <1>2, <1>4, NoRow DEF TemplatesInv, TemplateTypes

\* SetAsDefault reads the defaults of the user.
LEMMA SelectKeeps ==
    ASSUME TemplatesInv, NEW r \in Editors, SelectTemplate(r) \/ ResetFinds(r)
    PROVE  TemplatesInv'
<1> DEFINE t == edit[r].id
<1>0. edit[r] \in Edits
  BY DEF TemplatesInv, TemplateTypes
<1>1. CASE SelectTemplate(r)
  <2> DEFINE e == IF HasTemplate(t) THEN [stage |-> "begin", id |-> t] ELSE Served
  <2>1. edit[r].stage = "select" /\ Edit(r, e) /\ UNCHANGED <<template, rowLock>>
    BY <1>1 DEF SelectTemplate
  <2>2. t \in TemplateIds
    BY <1>0, <2>1, EditStages
  <2>3. e \in Edits /\ edit'[r] = e
    BY <2>1, <2>2, Blanks DEF Edits, Beginners, Edit, TemplatesInv, TemplateTypes
  <2>4. Holds(r)'
    BY <2>1, <2>3, Blanks DEF Holds, HasId, InTransaction, HasTemplate
  <2> HIDE DEF e
  <2> QED BY <2>1, <2>3, <2>4, NoRow DEF TemplatesInv, TemplateTypes
<1>2. CASE ResetFinds(r)
  <2> DEFINE e == [stage |-> "reset", id |-> t, todo |-> Defaults, off |-> {}]
  <2>1. edit[r].stage = "begin" /\ Edit(r, e) /\ UNCHANGED <<template, rowLock>>
    BY <1>2 DEF ResetFinds
  <2>2. t \in TemplateIds /\ template[t].status # "unused"
    BY <1>0, <2>1, EditStages DEF TemplatesInv, LocksHold, HasId
  <2>3. e \in Edits /\ edit'[r] = e
    BY <2>1, <2>2 DEF Edits, Resets, Edit, TemplatesInv, TemplateTypes, Defaults
  <2>4. Holds(r)'
    BY <2>1, <2>2, <2>3 DEF Holds, HasId, InTransaction
  <2> HIDE DEF e
  <2> QED BY <2>1, <2>3, <2>4, NoRow DEF TemplatesInv, TemplateTypes
<1> QED BY <1>1, <1>2

\* The transaction locks a row and clears its flag.
LEMMA ResetRowKeeps ==
    ASSUME TemplatesInv, NEW r \in Editors, NEW t \in TemplateIds, ResetRow(r, t)
    PROVE  TemplatesInv'
<1> DEFINE d == edit[r]
           e == IF t \in Defaults THEN [d EXCEPT !.todo = @ \ {t}, !.off = @ \cup {t}]
                ELSE [d EXCEPT !.todo = @ \ {t}]
<1>1. /\ d.stage = "reset" /\ rowLock[t] = Unlocked /\ Edit(r, e) /\ UNCHANGED template
      /\ rowLock' = IF t \in Defaults THEN [rowLock EXCEPT ![t] = r] ELSE rowLock
  BY DEF ResetRow
<1>2. d \in Resets
  BY <1>1, EditStages DEF TemplatesInv, TemplateTypes
<1>3. /\ e \in Resets /\ e.id = d.id /\ e.stage = "reset"
      /\ e.off = IF t \in Defaults THEN d.off \cup {t} ELSE d.off
  BY <1>2 DEF Resets
<1>4. edit'[r] = e
  BY <1>1 DEF Edit, TemplatesInv, TemplateTypes
<1> HIDE DEF d, e
<1>5. /\ rowLock' \in [TemplateIds -> Editors \cup {Unlocked}]
      /\ \A u \in TemplateIds : rowLock[u] # Unlocked => rowLock'[u] = rowLock[u]
      /\ t \in Defaults => rowLock'[t] = r /\ template[t].isDefault
  BY <1>1 DEF TemplatesInv, TemplateTypes, Defaults
<1>6. /\ template[d.id].status # "unused" /\ d.off \subseteq TemplateIds
      /\ \A u \in d.off : rowLock[u] = r /\ template[u].isDefault
  BY <1>1, <1>2 DEF d, Resets, TemplatesInv, LocksHold, HasId, InTransaction
<1>7. Holds(r)'
  <2>1. \A u \in e.off : rowLock'[u] = r /\ template[u].isDefault
    BY <1>3, <1>5, <1>6, LocksDiffer
  <2> QED BY <1>1, <1>3, <1>4, <1>6, <2>1 DEF Holds, HasId, InTransaction
<1>8. e \in Edits
  BY <1>3 DEF Edits
<1> QED BY <1>1, <1>5, <1>7, <1>8, NoRow, LocksDiffer

\* The transaction locks the row that becomes the default.
LEMMA SetRowKeeps == ASSUME TemplatesInv, NEW r \in Editors, SetRow(r) PROVE TemplatesInv'
<1> DEFINE d == edit[r]
           t == edit[r].id
           e == [stage |-> "commit", off |-> d.off, on |-> IF HasTemplate(t) THEN {t} ELSE {}]
<1>1. /\ d.stage = "reset" /\ rowLock[t] \in {Unlocked, r} /\ Edit(r, e) /\ UNCHANGED template
      /\ rowLock' = [rowLock EXCEPT ![t] = IF HasTemplate(t) THEN r ELSE @]
  BY DEF SetRow
<1>2. d \in Resets
  BY <1>1, EditStages DEF TemplatesInv, TemplateTypes
<1>3. t \in TemplateIds /\ d.off \subseteq TemplateIds
  BY <1>2 DEF Resets
<1>4. e \in Edits /\ edit'[r] = e
  BY <1>1, <1>3 DEF Edits, Commits, Edit, TemplatesInv, TemplateTypes
<1>5. /\ template[t].status # "unused"
      /\ \A u \in d.off : rowLock[u] = r /\ template[u].isDefault
  BY <1>1 DEF TemplatesInv, LocksHold, HasId, InTransaction
<1>6. ~HasTemplate(t) => template[t] = Deleted
  BY <1>3, <1>5 DEF TemplatesInv, RowsBlank, TemplateTypes, Rows, HasTemplate
<1> HIDE DEF t, d
<1>7. /\ rowLock' \in [TemplateIds -> Editors \cup {Unlocked}]
      /\ \A u \in TemplateIds : rowLock[u] \notin {Unlocked, r} => rowLock'[u] = rowLock[u]
      /\ \A u \in TemplateIds : rowLock[u] = r => rowLock'[u] = r
      /\ HasTemplate(t) => rowLock'[t] = r
  BY <1>1, <1>3 DEF TemplatesInv, TemplateTypes
<1>8. Holds(r)'
  <2>1. \A u \in d.off : rowLock'[u] = r /\ template'[u].isDefault
    BY <1>1, <1>3, <1>5, <1>7
  <2>2. \A u \in e.on : rowLock'[u] = r /\ HasTemplate(u)'
    BY <1>1, <1>7 DEF HasTemplate
  <2>3. e.on = {} => \E u \in TemplateIds : template'[u] = Deleted
    BY <1>1, <1>3, <1>6
  <2> QED BY <1>4, <2>1, <2>2, <2>3 DEF Holds, HasId, InTransaction
<1> HIDE DEF e
<1> QED BY <1>1, <1>4, <1>7, <1>8, NoRow, LocksDiffer

\* The transaction is rolled back.
LEMMA RollBackKeeps == ASSUME TemplatesInv, NEW r \in Editors, RollBack(r) PROVE TemplatesInv'
<1>1. Release(r) /\ Edit(r, Served) /\ UNCHANGED template
  BY DEF RollBack
<1>2. /\ rowLock' \in [TemplateIds -> Editors \cup {Unlocked}]
      /\ \A t \in TemplateIds : rowLock[t] # r => rowLock'[t] = rowLock[t]
  BY <1>1 DEF Release, TemplatesInv, TemplateTypes
<1>3. edit'[r] = Served
  BY <1>1 DEF Edit, TemplatesInv, TemplateTypes
<1>4. Holds(r)'
  BY <1>3, Blanks DEF Holds, HasId, InTransaction
<1> QED BY <1>1, <1>2, <1>4, Blanks, NoRow

\* A row with another flag.
LEMMA FlagRow ==
    ASSUME NEW row \in Rows, NEW b \in BOOLEAN
    PROVE  LET new == [row EXCEPT !.isDefault = b]
           IN  new \in Rows /\ new.status = row.status /\ new.isDefault = b
BY DEF Rows

\* What a commit writes: rows that it has locked, none of which is deleted.
LEMMA CommitWrites ==
    ASSUME TemplatesInv, NEW r \in Editors, Commit(r)
    PROVE  /\ template' \in [TemplateIds -> Rows]
           /\ \A t \in TemplateIds : /\ template'[t].status = template[t].status
                                     /\ rowLock[t] # r => template'[t] = template[t]
                                     /\ ~HasTemplate(t) => template'[t] = template[t]
           /\ \A t \in edit[r].on : t \in TemplateIds /\ template'[t].isDefault
<1> DEFINE e == edit[r]
<1>1. /\ e.stage = "commit"
      /\ template' = [t \in TemplateIds |->
                        IF t \in e.off \cup e.on
                        THEN [template[t] EXCEPT !.isDefault = (t \in e.on)] ELSE template[t]]
  BY DEF Commit
<1>2. /\ e.off \subseteq TemplateIds /\ e.on \subseteq TemplateIds
      /\ \A t \in e.off : rowLock[t] = r /\ template[t].isDefault
      /\ \A t \in e.on : rowLock[t] = r /\ HasTemplate(t)
  BY <1>1, EditTypes DEF TemplatesInv, LocksHold, InTransaction
<1>3. \A t \in e.off : HasTemplate(t)
  BY <1>2, Blanks DEF TemplatesInv, RowsBlank, HasTemplate, TemplateTypes, Rows
<1> HIDE DEF e
<1>4. ASSUME NEW t \in TemplateIds
      PROVE  /\ template'[t] \in Rows /\ template'[t].status = template[t].status
             /\ t \notin e.off \cup e.on => template'[t] = template[t]
             /\ t \in e.on => template'[t].isDefault
  <2>1. template[t] \in Rows
    BY DEF TemplatesInv, TemplateTypes
  <2>2. CASE t \in e.off \cup e.on
    <3> DEFINE b == t \in e.on
               new == [template[t] EXCEPT !.isDefault = b]
    <3>1. template'[t] = new
      BY <1>1, <2>2
    <3>2. b \in BOOLEAN
      OBVIOUS
    <3> HIDE DEF b
    <3>3. new \in Rows /\ new.status = template[t].status /\ new.isDefault = b
      BY <2>1, <3>2, FlagRow
    <3> HIDE DEF new
    <3> QED BY <2>2, <3>1, <3>3 DEF b
  <2>3. CASE t \notin e.off \cup e.on
    BY <1>1, <2>1, <2>3
  <2> QED BY <2>2, <2>3
<1>5. template' \in [TemplateIds -> Rows]
  BY <1>1, <1>4
<1> QED BY <1>2, <1>3, <1>4, <1>5 DEF e

\* The transaction commits.
LEMMA CommitKeeps == ASSUME TemplatesInv, NEW r \in Editors, Commit(r) PROVE TemplatesInv'
<1>1. Release(r) /\ Edit(r, Served)
  BY DEF Commit
<1>2. /\ rowLock' \in [TemplateIds -> Editors \cup {Unlocked}]
      /\ \A t \in TemplateIds : rowLock[t] # r => rowLock'[t] = rowLock[t]
  BY <1>1 DEF Release, TemplatesInv, TemplateTypes
<1>3. edit' \in [Editors -> Edits] /\ edit'[r] = Served /\ \A q \in Editors \ {r} : edit'[q] = edit[q]
  BY <1>1, Blanks DEF Edit, TemplatesInv, TemplateTypes
<1>4. TemplateTypes'
  BY <1>2, <1>3, CommitWrites DEF TemplateTypes
<1>5. RowsBlank'
  BY CommitWrites DEF TemplatesInv, RowsBlank, HasTemplate
<1>6. ASSUME NEW q \in Editors PROVE Holds(q)'
  <2>1. CASE q = r
    BY <1>3, <2>1, Blanks DEF Holds, HasId, InTransaction
  <2>2. CASE q # r
    <3>1. /\ HasId(q) => edit[q].id \in TemplateIds
          /\ InTransaction(q) => edit[q].off \subseteq TemplateIds
          /\ edit[q].stage = "commit" => edit[q].on \subseteq TemplateIds
      BY EditTypes DEF TemplatesInv
    <3>2. Holds(q) /\ edit'[q] = edit[q]
      BY <1>3, <2>2 DEF TemplatesInv, LocksHold, Holds
    <3>3. InTransaction(q) => \A t \in edit[q].off : rowLock'[t] = q /\ template'[t].isDefault
      BY <1>2, <2>2, <3>1, <3>2, CommitWrites DEF Holds
    <3>4. edit[q].stage = "commit" => \A t \in edit[q].on : rowLock'[t] = q /\ HasTemplate(t)'
      BY <1>2, <2>2, <3>1, <3>2, CommitWrites DEF Holds, HasTemplate
    <3>5. edit[q].stage = "commit" /\ edit[q].on = {} => \E t \in TemplateIds : template'[t] = Deleted
      <4>1. \A t \in TemplateIds : template[t] = Deleted => ~HasTemplate(t)
        BY Blanks DEF HasTemplate
      <4> QED BY <3>2, <4>1, CommitWrites DEF Holds
    <3>6. HasId(q) => template'[edit[q].id].status # "unused"
      BY <3>1, <3>2, CommitWrites DEF Holds
    <3> QED BY <3>2, <3>3, <3>4, <3>5, <3>6 DEF Holds, HasId, InTransaction
  <2> QED BY <2>1, <2>2
<1> QED BY <1>4, <1>5, <1>6 DEF TemplatesInv, LocksHold, Holds

\* The invariant of the templates, for any number of templates and of RPCs.
LEMMA TemplatesInvariant == TemplatesSpec => []TemplatesInv
<1>1. TemplatesInit => TemplatesInv
  <2> SUFFICES ASSUME TemplatesInit PROVE TemplatesInv
    OBVIOUS
  <2>1. PICK S \in SUBSET Own, D \in SUBSET Own :
          template = [t \in TemplateIds |->
                        IF t \in S \cup SystemTemplates
                        THEN [NewTemplate EXCEPT !.isDefault = (t \in D)] ELSE NoTemplate]
    BY DEF TemplatesInit
  <2>2. ASSUME NEW t \in TemplateIds
        PROVE  template[t] \in Rows /\ (template[t].status = "stored" \/ template[t] = NoTemplate)
    <3>1. CASE t \in S \cup SystemTemplates
      <4> DEFINE b == t \in D
                 new == [NewTemplate EXCEPT !.isDefault = b]
      <4>1. template[t] = new
        BY <2>1, <3>1
      <4>2. b \in BOOLEAN
        OBVIOUS
      <4> HIDE DEF b
      <4>3. new \in Rows /\ new.status = "stored"
        BY <4>2, Blanks, FlagRow
      <4> HIDE DEF new
      <4> QED BY <4>1, <4>3
    <3>2. CASE t \notin S \cup SystemTemplates
      BY <2>1, <3>2, Blanks
    <3> QED BY <3>1, <3>2
  <2>3. template \in [TemplateIds -> Rows]
    BY <2>1, <2>2
  <2>4. rowLock \in [TemplateIds -> Editors \cup {Unlocked}] /\ edit \in [Editors -> Edits]
    BY Blanks DEF TemplatesInit
  <2>5. \A r \in Editors : edit[r].stage = "none"
    BY Blanks DEF TemplatesInit
  <2>6. RowsBlank
    BY <2>2, Blanks DEF RowsBlank
  <2>7. LocksHold
    BY <2>5 DEF LocksHold, HasId, InTransaction
  <2> QED BY <2>3, <2>4, <2>6, <2>7 DEF TemplatesInv, TemplateTypes
<1>2. TemplatesInv /\ [TemplatesNext]_templateVars => TemplatesInv'
  <2> SUFFICES ASSUME TemplatesInv, [TemplatesNext]_templateVars PROVE TemplatesInv'
    OBVIOUS
  <2>1. CASE UNCHANGED templateVars
    BY <2>1 DEF templateVars, TemplatesInv, TemplateTypes, RowsBlank, LocksHold, HasId,
                InTransaction, HasTemplate
  <2>2. ASSUME NEW r \in Editors, NEW t \in TemplateIds,
               \/ CloneTemplate(r, t) \/ UpdateTemplate(r, t)
               \/ DeleteTemplate(r, t) \/ SetDefaultTemplate(r, t)
        PROVE  TemplatesInv'
    BY <2>2, GetKeeps DEF CloneTemplate, UpdateTemplate, DeleteTemplate, SetDefaultTemplate
  <2>3. ASSUME NEW r \in Editors, CreateTemplate(r) \/ CloneInsert(r) PROVE TemplatesInv'
    BY <2>3, InsertKeeps DEF CreateTemplate, CloneInsert
  <2> QED BY <2>1, <2>2, <2>3, UpdateWriteKeeps, DeleteKeeps, SelectKeeps, ResetRowKeeps,
             SetRowKeeps, RollBackKeeps, CommitKeeps DEF TemplatesNext
<1> QED BY <1>1, <1>2, PTL DEF TemplatesSpec

\* A user who has a default template keeps one while nobody deletes a template: a
\* commit that sets no row has met a deleted one, and nothing else clears the flag.
THEOREM DefaultStays == TemplatesSpec => DefaultKept
<1> DEFINE Kept == Defaults # {} /\ (\A t \in TemplateIds : template'[t] # Deleted)
                     => \E t \in TemplateIds : template'[t].isDefault
<1>1. ASSUME TemplatesInv, [TemplatesNext]_templateVars PROVE Kept
  <2> SUFFICES ASSUME NEW d \in TemplateIds, template[d].isDefault,
                      \A t \in TemplateIds : template'[t] # Deleted
               PROVE  \E t \in TemplateIds : template'[t].isDefault
    BY DEF Defaults
  <2>0. HasTemplate(d)
    BY <1>1, Blanks DEF TemplatesInv, RowsBlank, TemplateTypes, Rows, HasTemplate
  <2>1. ASSUME NEW r \in Editors, Insert(r) PROVE template'[d] = template[d]
    <3>1. PICK t \in Own : template[t] = NoTemplate /\ WriteRow(t, NewTemplate)
      BY <2>1 DEF Insert
    <3>2. t # d
      BY <2>0, <3>1, Blanks DEF HasTemplate
    <3> QED BY <1>1, <3>1, <3>2 DEF WriteRow, TemplatesInv, TemplateTypes
  <2>2. ASSUME NEW r \in Editors, UpdateWrite(r) PROVE template'[d].isDefault
    <3> DEFINE t == edit[r].id
               row == [template[t] EXCEPT !.version = edit[r].row.version + 1]
    <3>1. template' = [template EXCEPT ![t] = row] \/ UNCHANGED template
      BY <2>2 DEF UpdateWrite, WriteRow
    <3>2. d = t => row.isDefault
      BY <1>1 DEF TemplatesInv, TemplateTypes, Rows
    <3> HIDE DEF row, t
    <3> QED BY <1>1, <3>1, <3>2 DEF TemplatesInv, TemplateTypes
  <2>3. ASSUME NEW r \in Editors, Delete(r) PROVE FALSE
    <3>1. edit[r].id \in TemplateIds
      BY <1>1, <2>3, EditTypes DEF Delete, TemplatesInv, HasId
    <3>2. template'[edit[r].id] = Deleted
      BY <1>1, <2>3, <3>1 DEF Delete, WriteRow, TemplatesInv, TemplateTypes
    <3> QED BY <3>1, <3>2
  <2>4. ASSUME NEW r \in Editors, Commit(r) PROVE \E t \in TemplateIds : template'[t].isDefault
    <3>1. edit[r].on = {} => \E t \in TemplateIds : template[t] = Deleted
      BY <1>1, <2>4 DEF Commit, TemplatesInv, LocksHold
    <3>2. \A t \in TemplateIds : template[t] = Deleted => template'[t] = Deleted
      BY <1>1, <2>4, CommitWrites, Blanks DEF HasTemplate
    <3>3. PICK t \in edit[r].on : TRUE
      BY <3>1, <3>2
    <3> QED BY <1>1, <2>4, <3>3, CommitWrites
  <2>5. CASE UNCHANGED template
    BY <2>5
  <2> QED BY <1>1, <2>1, <2>2, <2>3, <2>4, <2>5
          DEF TemplatesNext, templateVars, CreateTemplate, CloneInsert, SelectTemplate,
              ResetFinds, SetRow, RollBack, CloneTemplate, UpdateTemplate, DeleteTemplate,
              SetDefaultTemplate, GetByID, ResetRow
<1>2. TemplatesInv /\ [TemplatesNext]_templateVars => [Kept]_templateVars
  BY <1>1
<1> QED BY <1>2, TemplatesInvariant, PTL DEF TemplatesSpec, DefaultKept

-----------------------------------------------------------------------------
(* gateway: the connection pool *)

Stages == {"none", "begin", "get", "len", "wait", "dial", "use", "return", "put", "panicked"}
CallerRows == [stage : Stages, conn : Conns \cup {NoConn}]

PoolTypes ==
    /\ idleConns \in Seq(Conns)
    /\ pool \in {"open", "flagged", "draining", "closed"}
    /\ link \in [Conns -> {"none", "ready", "failed"}]
    /\ caller \in [Callers -> CallerRows]
    /\ serving \in {"running", "stopping", "stopped"} /\ forced \in BOOLEAN

Distinct(q) == \A i, j \in DOMAIN q : q[i] = q[j] => i = j
Buffered(q) == {q[i] : i \in DOMAIN q}
Lends(k) == caller[k].stage \in {"use", "return", "put"}

\* A connection has one place: the channel or a request, ...
PlacesDiffer ==
    /\ Distinct(idleConns)
    /\ \A k, l \in Callers : Lends(k) /\ caller[k].conn = caller[l].conn => k = l
    /\ \A k \in Callers : Lends(k) => caller[k].conn \in Conns \ Buffered(idleConns)
    /\ \A k \in Callers : ~Lends(k) => caller[k].conn = NoConn
\* ... which is of an open connection, ...
PlacesOpen ==
    /\ \A c \in Buffered(idleConns) : link[c] # "none"
    /\ \A k \in Callers : Lends(k) => link[caller[k].conn] # "none"
\* ... and until a shutdown is forced every open connection has one.
OpenPlaced ==
    ~forced => \A c \in Conns : link[c] # "none" =>
                 c \in Buffered(idleConns) \/ \E k \in Callers : Lends(k) /\ caller[k].conn = c
\* The pool is closed after the server, which has waited unless it was forced.
Sequenced ==
    /\ pool # "open" \/ forced => serving = "stopped"
    /\ ~forced /\ serving = "stopped" => \A k \in Callers : caller[k].stage \in {"none", "panicked"}
    /\ pool = "closed" => idleConns = <<>>

PoolInv == PoolTypes /\ PlacesDiffer /\ PlacesOpen /\ OpenPlaced /\ Sequenced

\* A channel without its first element, ...
LEMMA TailMembers ==
    ASSUME NEW q \in Seq(Conns), q # <<>>, Distinct(q)
    PROVE  /\ Tail(q) \in Seq(Conns) /\ Distinct(Tail(q)) /\ Head(q) \in Conns
           /\ Head(q) \in Buffered(q) /\ Buffered(Tail(q)) = Buffered(q) \ {Head(q)}
<1> DEFINE t == Tail(q)
           n == Len(q)
<1>1. /\ t \in Seq(Conns) /\ Head(q) = q[1] /\ Head(q) \in Conns
      /\ n \in Nat /\ n > 0 /\ DOMAIN q = 1..n /\ DOMAIN t = 1..(n - 1)
      /\ \A i \in 1..(n - 1) : t[i] = q[i + 1]
  OBVIOUS
<1> HIDE DEF t, n
<1>2. Distinct(t)
  <2> SUFFICES ASSUME NEW i \in 1..(n - 1), NEW j \in 1..(n - 1), t[i] = t[j] PROVE i = j
    BY <1>1 DEF Distinct
  <2>1. i + 1 \in 1..n /\ j + 1 \in 1..n /\ q[i + 1] = q[j + 1]
    BY <1>1
  <2>2. i + 1 = j + 1
    BY <1>1, <2>1 DEF Distinct
  <2> QED BY <1>1, <2>2
<1>3. Head(q) \in Buffered(q)
  BY <1>1 DEF Buffered
<1>4. ASSUME NEW c \in Buffered(t) PROVE c \in Buffered(q) /\ c # Head(q)
  <2>1. PICK i \in 1..(n - 1) : c = t[i]
    BY <1>1 DEF Buffered
  <2>2. i + 1 \in 1..n /\ i + 1 # 1 /\ c = q[i + 1]
    BY <1>1, <2>1
  <2>3. 1 \in 1..n /\ q[i + 1] # q[1]
    BY <1>1, <2>2 DEF Distinct
  <2> QED BY <1>1, <2>2, <2>3 DEF Buffered
<1>5. ASSUME NEW c \in Buffered(q), c # Head(q) PROVE c \in Buffered(t)
  <2>1. PICK i \in 1..n : c = q[i]
    BY <1>1 DEF Buffered
  <2>2. i - 1 \in 1..(n - 1) /\ c = t[i - 1]
    BY <1>1, <1>5, <2>1
  <2> QED BY <1>1, <2>2 DEF Buffered
<1> QED BY <1>1, <1>2, <1>3, <1>4, <1>5 DEF t

\* ... with one more, ...
LEMMA AppendMembers ==
    ASSUME NEW q \in Seq(Conns), Distinct(q), NEW c \in Conns \ Buffered(q)
    PROVE  /\ Append(q, c) \in Seq(Conns) /\ Distinct(Append(q, c))
           /\ Buffered(Append(q, c)) = Buffered(q) \cup {c}
<1> DEFINE a == Append(q, c)
           n == Len(q)
<1>1. /\ a \in Seq(Conns) /\ n \in Nat /\ DOMAIN q = 1..n /\ DOMAIN a = 1..(n + 1)
      /\ a[n + 1] = c /\ \A i \in 1..n : a[i] = q[i]
  OBVIOUS
<1> HIDE DEF a, n
<1>2. \A i \in 1..n : q[i] # c
  BY <1>1 DEF Buffered
<1>3. Distinct(a)
  <2> SUFFICES ASSUME NEW i \in 1..(n + 1), NEW j \in 1..(n + 1), a[i] = a[j] PROVE i = j
    BY <1>1 DEF Distinct
  <2> QED BY <1>1, <1>2 DEF Distinct
<1>4. \A d \in Buffered(a) : d \in Buffered(q) \cup {c}
  BY <1>1 DEF Buffered
<1>5. \A d \in Buffered(q) \cup {c} : d \in Buffered(a)
  BY <1>1 DEF Buffered
<1> QED BY <1>1, <1>3, <1>4, <1>5 DEF a

\* ... and an empty one.
LEMMA NoMembers == Buffered(<<>>) = {} /\ Distinct(<<>>)
BY DEF Buffered, Distinct

\* The number of places that Owners counts.
LEMMA OwnersCount ==
    ASSUME PoolInv, NEW c \in Conns
    PROVE  /\ Owners(c) \in {0, 1}
           /\ Owners(c) = 1 <=> \/ c \in Buffered(idleConns)
                                \/ \E k \in Callers : Lends(k) /\ caller[k].conn = c
<1> DEFINE I == {i \in DOMAIN idleConns : idleConns[i] = c}
           K == {k \in Callers : caller[k].conn = c}
<1>1. c # NoConn
  BY GatewayPoolAssumption DEF NoConn
<1>2. \A k \in K : Lends(k)
  BY <1>1 DEF PoolInv, PlacesDiffer
<1>3. CASE c \in Buffered(idleConns)
  <2>1. PICK i \in DOMAIN idleConns : idleConns[i] = c
    BY <1>3 DEF Buffered
  <2>2. I = {i}
    BY <2>1 DEF PoolInv, PlacesDiffer, Distinct
  <2>3. K = {}
    BY <1>2, <1>3 DEF PoolInv, PlacesDiffer
  <2>4. Cardinality(I) = 1 /\ Cardinality(K) = 0
    BY <2>2, <2>3, FS_EmptySet, FS_Singleton
  <2> QED BY <1>3, <2>4 DEF Owners
<1>4. CASE c \notin Buffered(idleConns)
  <2>1. I = {}
    BY <1>4 DEF Buffered
  <2>2. Cardinality(I) = 0
    BY <2>1, FS_EmptySet
  <2>3. CASE K = {}
    <3>1. Cardinality(K) = 0
      BY <2>3, FS_EmptySet
    <3> QED BY <1>4, <2>2, <2>3, <3>1 DEF Owners
  <2>4. CASE K # {}
    <3>1. PICK k \in K : TRUE
      BY <2>4
    <3>2. K = {k} /\ Lends(k)
      BY <1>2, <3>1 DEF PoolInv, PlacesDiffer
    <3>3. Cardinality(K) = 1
      BY <3>2, FS_Singleton
    <3> QED BY <2>2, <3>2, <3>3 DEF Owners
  <2> QED BY <2>3, <2>4
<1> QED BY <1>3, <1>4

\* The entry of a request with and without a connection.
LEMMA RowTypes ==
    /\ \A s \in Stages : Lacking(s) \in CallerRows /\ Lacking(s).stage = s /\ Lacking(s).conn = NoConn
    /\ \A s \in Stages, c \in Conns : Having(s, c) \in CallerRows /\ Having(s, c).stage = s /\ Having(s, c).conn = c
    /\ NoRequest = Lacking("none")
BY DEF Lacking, Having, CallerRows, NoRequest

\* A request that is under way means that the server runs, or was not waited for.
LEMMA UnderWay ==
    ASSUME PoolInv, NEW k \in Callers, caller[k].stage \notin {"none", "panicked"}
    PROVE  (serving = "stopped" => forced) /\ (pool # "open" => forced)
BY DEF PoolInv, Sequenced, PoolTypes

\* A request without a connection goes on, or ends, without one.
LEMMA StaysLacking ==
    ASSUME PoolInv, NEW k \in Callers, ~Lends(k), serving = "stopped" => forced,
           NEW s \in Stages \ {"use", "return", "put"}, Moves(k, Lacking(s)),
           UNCHANGED <<idleConns, link>>, ServerUnchanged
    PROVE  PoolInv'
<1> USE DEF PoolInv, ServerUnchanged
<1>1. /\ caller'[k].stage = s /\ caller'[k].conn = NoConn /\ caller' \in [Callers -> CallerRows]
      /\ \A l \in Callers \ {k} : caller'[l] = caller[l]
  BY RowTypes DEF Moves, PoolTypes
<1>2. PoolTypes' /\ Sequenced'
  BY <1>1 DEF PoolTypes, Sequenced
<1>3. \A l \in Callers : Lends(l)' <=> Lends(l) /\ l # k
  BY <1>1 DEF Lends
<1>4. \A l \in Callers : Lends(l) => l # k /\ caller[l].conn # NoConn
  BY GatewayPoolAssumption DEF PlacesDiffer, NoConn
<1>5. PlacesDiffer' /\ PlacesOpen'
  BY <1>1, <1>3, <1>4 DEF PlacesDiffer, PlacesOpen
<1>6. OpenPlaced'
  BY <1>1, <1>3, <1>4 DEF OpenPlaced
<1> QED BY <1>2, <1>5, <1>6

\* A request that has a connection goes on with it.
LEMMA StaysHaving ==
    ASSUME PoolInv, NEW k \in Callers, Lends(k), NEW s \in {"return", "put"},
           Moves(k, Having(s, caller[k].conn)), UNCHANGED <<idleConns, link>>, ServerUnchanged
    PROVE  PoolInv'
<1> USE DEF PoolInv, ServerUnchanged
<1>0. caller[k].conn \in Conns /\ s \in Stages
  BY DEF PlacesDiffer, Stages
<1>1. /\ caller'[k].stage = s /\ caller'[k].conn = caller[k].conn
      /\ caller' \in [Callers -> CallerRows] /\ \A l \in Callers \ {k} : caller'[l] = caller[l]
  BY <1>0, RowTypes DEF Moves, PoolTypes
<1>2. PoolTypes' /\ Sequenced'
  BY <1>1, UnderWay DEF PoolTypes, Sequenced, Lends
<1>3. \A l \in Callers : (Lends(l)' <=> Lends(l)) /\ caller'[l].conn = caller[l].conn
  BY <1>1 DEF Lends
<1> QED BY <1>2, <1>3 DEF PlacesDiffer, PlacesOpen, OpenPlaced

\* Get takes the first idle connection, and closes it when it has failed.
LEMMA TakeKeeps ==
    ASSUME PoolInv, NEW k \in Callers, caller[k].stage \in {"get", "wait"}, TakeIdle(k),
           ServerUnchanged
    PROVE  PoolInv'
<1> USE DEF PoolInv, ServerUnchanged
<1> DEFINE c == Head(idleConns)
<1>1. /\ idleConns # <<>> /\ idleConns' = Tail(idleConns)
      /\ \/ CloseConn(c) /\ Moves(k, Lacking("dial"))
         \/ Moves(k, Having("use", c)) /\ UNCHANGED link
  BY DEF TakeIdle
<1>2. /\ c \in Conns /\ c \in Buffered(idleConns) /\ idleConns' \in Seq(Conns)
      /\ Distinct(idleConns') /\ Buffered(idleConns') = Buffered(idleConns) \ {c}
  BY <1>1, TailMembers DEF PoolTypes, PlacesDiffer
<1> HIDE DEF c
<1>3. /\ ~Lends(k) /\ (serving = "stopped" => forced) /\ (pool # "open" => forced)
      /\ pool # "closed" /\ {"dial", "use"} \subseteq Stages
  BY <1>1, UnderWay DEF Lends, Sequenced, Stages
<1>4. \A l \in Callers : Lends(l) => l # k /\ caller[l].conn \in Conns \ {c}
                                     /\ caller[l].conn # NoConn
  BY <1>2, <1>3, GatewayPoolAssumption DEF PlacesDiffer, NoConn
<1>5. CASE CloseConn(c) /\ Moves(k, Lacking("dial"))
  <2>1. /\ caller'[k].stage = "dial" /\ caller'[k].conn = NoConn
        /\ caller' \in [Callers -> CallerRows] /\ \A l \in Callers \ {k} : caller'[l] = caller[l]
    BY <1>3, <1>5, RowTypes DEF Moves, PoolTypes
  <2>2. /\ link' \in [Conns -> {"none", "ready", "failed"}] /\ link'[c] = "none"
        /\ \A d \in Conns \ {c} : link'[d] = link[d]
    BY <1>2, <1>5 DEF CloseConn, PoolTypes
  <2>3. PoolTypes' /\ Sequenced'
    BY <1>2, <1>3, <2>1, <2>2 DEF PoolTypes, Sequenced
  <2>4. \A l \in Callers : Lends(l)' <=> Lends(l) /\ l # k
    BY <2>1 DEF Lends
  <2>5. PlacesDiffer'
    BY <1>2, <1>4, <2>1, <2>4 DEF PlacesDiffer
  <2>6. PlacesOpen'
    <3>1. Buffered(idleConns) \subseteq Conns
      BY DEF Buffered, PoolTypes
    <3> QED BY <1>2, <1>4, <2>1, <2>2, <2>4, <3>1 DEF PlacesOpen
  <2>7. OpenPlaced'
    BY <1>2, <1>3, <1>4, <2>1, <2>2, <2>4 DEF OpenPlaced
  <2> QED BY <2>3, <2>5, <2>6, <2>7
<1>6. CASE Moves(k, Having("use", c)) /\ UNCHANGED link
  <2>1. /\ caller'[k].stage = "use" /\ caller'[k].conn = c
        /\ caller' \in [Callers -> CallerRows] /\ \A l \in Callers \ {k} : caller'[l] = caller[l]
    BY <1>2, <1>3, <1>6, RowTypes DEF Moves, PoolTypes
  <2>2. PoolTypes' /\ Sequenced'
    BY <1>2, <1>3, <1>6, <2>1 DEF PoolTypes, Sequenced
  <2>3. \A l \in Callers : Lends(l)' <=> Lends(l) \/ l = k
    BY <2>1 DEF Lends
  <2>4. PlacesDiffer'
    <3>1. c # NoConn
      BY <1>2, GatewayPoolAssumption DEF NoConn
    <3>2. \A l \in Callers \ {k} : caller[l].conn # c
      BY <1>4, <3>1 DEF PlacesDiffer
    <3> QED BY <1>2, <1>4, <2>1, <2>3, <3>2 DEF PlacesDiffer
  <2>5. PlacesOpen'
    BY <1>2, <1>6, <2>1, <2>3 DEF PlacesOpen
  <2>6. OpenPlaced'
    BY <1>2, <1>3, <1>6, <2>1, <2>3 DEF OpenPlaced
  <2> QED BY <2>2, <2>4, <2>5, <2>6
<1> QED BY <1>1, <1>5, <1>6

\* A connection that was dialled belongs to the request that dialled it.
LEMMA DialKeeps ==
    ASSUME PoolInv, NEW k \in Callers, caller[k].stage = "dial", NEW c \in Conns,
           link[c] = "none", link' = [link EXCEPT ![c] = "ready"], Moves(k, Having("use", c)),
           UNCHANGED idleConns, ServerUnchanged
    PROVE  PoolInv'
<1> USE DEF PoolInv, ServerUnchanged
<1>1. /\ ~Lends(k) /\ (serving = "stopped" => forced) /\ "use" \in Stages
  BY UnderWay DEF Lends, Stages
<1>2. /\ caller'[k].stage = "use" /\ caller'[k].conn = c
      /\ caller' \in [Callers -> CallerRows] /\ \A l \in Callers \ {k} : caller'[l] = caller[l]
  BY <1>1, RowTypes DEF Moves, PoolTypes
<1>3. /\ link' \in [Conns -> {"none", "ready", "failed"}] /\ link'[c] = "ready"
      /\ \A d \in Conns \ {c} : link'[d] = link[d]
  BY DEF PoolTypes
<1>4. PoolTypes' /\ Sequenced'
  BY <1>1, <1>2, <1>3 DEF PoolTypes, Sequenced
<1>5. /\ c \notin Buffered(idleConns) /\ Buffered(idleConns) \subseteq Conns
      /\ \A l \in Callers : Lends(l) => l # k /\ caller[l].conn \in Conns \ {c}
  BY <1>1 DEF PlacesOpen, PlacesDiffer, Buffered, PoolTypes
<1>6. \A l \in Callers : (Lends(l)' <=> Lends(l) \/ l = k) /\ (l # k => caller[l].conn # c)
  BY <1>2, <1>5, GatewayPoolAssumption DEF Lends, PlacesDiffer, NoConn
<1>7. PlacesDiffer'
  BY <1>2, <1>5, <1>6 DEF PlacesDiffer
<1>8. PlacesOpen'
  BY <1>2, <1>3, <1>5, <1>6 DEF PlacesOpen
<1>9. OpenPlaced'
  <2> SUFFICES ASSUME ~forced, NEW d \in Conns, link'[d] # "none"
               PROVE  d \in Buffered(idleConns) \/ \E l \in Callers : Lends(l)' /\ caller'[l].conn = d
    BY DEF OpenPlaced
  <2>1. CASE d = c
    BY <1>2, <1>6, <2>1
  <2>2. CASE d # c
    BY <1>2, <1>3, <1>5, <1>6, <2>2 DEF OpenPlaced
  <2> QED BY <2>1, <2>2
<1> QED BY <1>4, <1>7, <1>8, <1>9

\* A request gives its connection up: it is closed, put back, or lost in a panic.
LEMMA GivesUp ==
    ASSUME PoolInv, NEW k \in Callers, Lends(k), NEW s \in {"none", "panicked"},
           Moves(k, Lacking(s)), ServerUnchanged,
           \/ CloseConn(caller[k].conn) /\ UNCHANGED idleConns
           \/ pool # "closed" /\ idleConns' = Append(idleConns, caller[k].conn) /\ UNCHANGED link
           \/ pool # "open" /\ UNCHANGED <<idleConns, link>>
    PROVE  PoolInv'
<1> USE DEF PoolInv, ServerUnchanged
<1> DEFINE c == caller[k].conn
<1>1. /\ c \in Conns \ Buffered(idleConns) /\ link[c] # "none" /\ Buffered(idleConns) \subseteq Conns
      /\ (serving = "stopped" => forced) /\ (pool # "open" => forced) /\ s \in Stages
  BY UnderWay DEF Lends, Stages, PlacesDiffer, PlacesOpen, Buffered, PoolTypes
<1>2. \A l \in Callers \ {k} : caller[l].conn # c /\ (Lends(l) => caller[l].conn \in Conns)
  BY DEF PlacesDiffer
<1>3. /\ caller'[k].stage = s /\ caller'[k].conn = NoConn
      /\ caller' \in [Callers -> CallerRows] /\ \A l \in Callers \ {k} : caller'[l] = caller[l]
  BY <1>1, RowTypes DEF Moves, PoolTypes
<1>4. \A l \in Callers : Lends(l)' <=> Lends(l) /\ l # k
  BY <1>3 DEF Lends
<1>5. \A l \in Callers : Lends(l) => caller[l].conn # NoConn
  BY GatewayPoolAssumption DEF PlacesDiffer, NoConn
<1>6. CASE CloseConn(c) /\ UNCHANGED idleConns
  <2> HIDE DEF c
  <2>1. /\ link' \in [Conns -> {"none", "ready", "failed"}] /\ link'[c] = "none"
        /\ \A d \in Conns \ {c} : link'[d] = link[d]
    BY <1>1, <1>6 DEF CloseConn, PoolTypes
  <2>2. PoolTypes' /\ Sequenced'
    BY <1>1, <1>3, <1>6, <2>1 DEF PoolTypes, Sequenced
  <2>3. PlacesDiffer'
    BY <1>3, <1>4, <1>5, <1>6 DEF PlacesDiffer
  <2>4. PlacesOpen'
    BY <1>1, <1>2, <1>3, <1>4, <1>6, <2>1 DEF PlacesOpen
  <2>5. OpenPlaced'
    BY <1>3, <1>4, <1>6, <2>1 DEF OpenPlaced, c
  <2> QED BY <2>2, <2>3, <2>4, <2>5
<1>7. CASE pool # "closed" /\ idleConns' = Append(idleConns, c) /\ UNCHANGED link
  <2> HIDE DEF c
  <2>1. /\ idleConns' \in Seq(Conns) /\ Distinct(idleConns')
        /\ Buffered(idleConns') = Buffered(idleConns) \cup {c}
    BY <1>1, <1>7, AppendMembers DEF PoolTypes, PlacesDiffer
  <2>2. PoolTypes' /\ Sequenced'
    BY <1>1, <1>3, <1>7, <2>1 DEF PoolTypes, Sequenced
  <2>3. PlacesDiffer'
    BY <1>2, <1>3, <1>4, <1>5, <2>1 DEF PlacesDiffer
  <2>4. PlacesOpen'
    BY <1>1, <1>3, <1>4, <1>7, <2>1 DEF PlacesOpen
  <2>5. OpenPlaced'
    BY <1>3, <1>4, <1>7, <2>1 DEF OpenPlaced, c
  <2> QED BY <2>2, <2>3, <2>4, <2>5
<1>8. CASE pool # "open" /\ UNCHANGED <<idleConns, link>>
  <2>1. PoolTypes' /\ Sequenced'
    BY <1>1, <1>3, <1>8 DEF PoolTypes, Sequenced
  <2>2. PlacesDiffer' /\ PlacesOpen'
    BY <1>3, <1>4, <1>5, <1>8 DEF PlacesDiffer, PlacesOpen
  <2>3. OpenPlaced'
    BY <1>1, <1>8 DEF OpenPlaced
  <2> QED BY <2>1, <2>2, <2>3
<1> QED BY <1>6, <1>7, <1>8

\* The steps of a request.
LEMMA RequestKeeps ==
    ASSUME PoolInv, NEW k \in Callers,
           \/ Request(k) \/ Get(k) \/ GetReceive(k) \/ GetLen(k) \/ GetWait(k)
           \/ newConnection(k) \/ ValidateToken(k) \/ PutClosed(k) \/ Put(k)
    PROVE  PoolInv'
<1>0. {"none", "begin", "get", "len", "wait", "dial", "panicked"} \subseteq Stages \ {"use", "return", "put"}
  BY DEF Stages
<1>1. ASSUME caller[k].stage \in {"begin", "get", "len", "wait", "dial"},
             NEW s \in {"none", "begin", "get", "len", "wait", "dial", "panicked"},
             Moves(k, Lacking(s)), UNCHANGED <<idleConns, link>>, ServerUnchanged
      PROVE  PoolInv'
  <2>1. ~Lends(k) /\ (serving = "stopped" => forced)
    BY <1>1, UnderWay DEF Lends
  <2> QED BY <1>0, <1>1, <2>1, StaysLacking
<1>2. CASE Request(k)
  <2>1. /\ caller[k].stage = "none" /\ serving = "running" /\ Moves(k, Lacking("begin"))
        /\ UNCHANGED <<idleConns, link>> /\ ServerUnchanged
    BY <1>2 DEF Request, NoRequest
  <2>2. ~Lends(k)
    BY <2>1 DEF Lends
  <2> QED BY <1>0, <2>1, <2>2, StaysLacking
<1>3. CASE Get(k)
  BY <1>1, <1>3, RowTypes DEF Get
<1>4. CASE GetReceive(k)
  <2>1. CASE TakeIdle(k)
    BY <1>4, <2>1, TakeKeeps DEF GetReceive
  <2>2. CASE ~TakeIdle(k)
    BY <1>1, <1>4, <2>2 DEF GetReceive, TakeNil
  <2> QED BY <2>1, <2>2
<1>5. CASE GetLen(k)
  BY <1>1, <1>5 DEF GetLen
<1>6. CASE GetWait(k)
  <2>1. CASE TakeIdle(k)
    BY <1>6, <2>1, TakeKeeps DEF GetWait
  <2>2. CASE ~TakeIdle(k)
    BY <1>1, <1>6, <2>2, RowTypes DEF GetWait, TakeNil
  <2> QED BY <2>1, <2>2
<1>7. CASE newConnection(k)
  <2>1. CASE UNCHANGED link /\ Moves(k, NoRequest)
    BY <1>1, <1>7, <2>1, RowTypes DEF newConnection
  <2>2. CASE \E c \in Conns : /\ link[c] = "none" /\ link' = [link EXCEPT ![c] = "ready"]
                              /\ Moves(k, Having("use", c))
    BY <1>7, <2>2, DialKeeps DEF newConnection
  <2> QED BY <1>7, <2>1, <2>2 DEF newConnection
<1>8. CASE ValidateToken(k)
  BY <1>8, StaysHaving DEF ValidateToken, Lends
<1>9. CASE PutClosed(k)
  <2>1. CASE CloseConn(caller[k].conn) /\ Moves(k, NoRequest)
    BY <1>9, <2>1, GivesUp, RowTypes DEF PutClosed, Lends
  <2>2. CASE Moves(k, Having("put", caller[k].conn)) /\ UNCHANGED link
    BY <1>9, <2>2, StaysHaving DEF PutClosed, Lends
  <2> QED BY <1>9, <2>1, <2>2 DEF PutClosed
<1>10. CASE Put(k)
  <2>1. Lends(k) /\ ServerUnchanged
    BY <1>10 DEF Put, Lends
  <2>2. CASE ChannelClosed /\ Moves(k, Lacking("panicked")) /\ UNCHANGED <<idleConns, link>>
    <3>1. pool # "open"
      BY <2>2 DEF ChannelClosed
    <3> QED BY <2>1, <2>2, <3>1, GivesUp
  <2>3. CASE /\ ~ChannelClosed /\ idleConns' = Append(idleConns, caller[k].conn)
             /\ Moves(k, NoRequest) /\ UNCHANGED link
    <3>1. pool # "closed"
      BY <2>3 DEF ChannelClosed
    <3> QED BY <2>1, <2>3, <3>1, GivesUp, RowTypes
  <2>4. CASE CloseConn(caller[k].conn) /\ Moves(k, NoRequest) /\ UNCHANGED idleConns
    BY <2>1, <2>4, GivesUp, RowTypes
  <2> QED BY <1>10, <2>2, <2>3, <2>4 DEF Put
<1> QED BY <1>2, <1>3, <1>4, <1>5, <1>6, <1>7, <1>8, <1>9, <1>10

\* gRPC, the server and Close.
LEMMA ServerKeeps ==
    ASSUME PoolInv,
           \/ \E c \in Conns : LinkChanges(c)
           \/ \E ok \in BOOLEAN : Shutdown(ok) \/ ShutdownReturns(ok)
           \/ ClosePool
    PROVE  PoolInv'
<1> USE DEF PoolInv
<1>1. ASSUME NEW c \in Conns, LinkChanges(c) PROVE PoolInv'
  <2>1. /\ link' \in [Conns -> {"none", "ready", "failed"}]
        /\ \A d \in Conns : link'[d] = "none" <=> link[d] = "none"
        /\ UNCHANGED <<idleConns, caller, pool, serving, forced>>
    BY <1>1 DEF LinkChanges, ServerUnchanged, PoolTypes
  <2>2. Buffered(idleConns) \subseteq Conns
    BY DEF Buffered, PoolTypes
  <2>3. PlacesDiffer' /\ PoolTypes' /\ Sequenced'
    BY <2>1 DEF PlacesDiffer, PoolTypes, Sequenced, Lends
  <2>4. PlacesOpen'
    BY <2>1, <2>2 DEF PlacesOpen, PlacesDiffer, Lends
  <2>5. OpenPlaced'
    BY <2>1 DEF OpenPlaced, Lends
  <2> QED BY <2>3, <2>4, <2>5
<1>2. ASSUME NEW ok \in BOOLEAN, Shutdown(ok) \/ ShutdownReturns(ok) PROVE PoolInv'
  <2>1. /\ UNCHANGED <<idleConns, pool, link, caller>> /\ serving # "stopped"
        /\ serving' \in {"stopping", "stopped"} /\ (forced' => serving' = "stopped")
    BY <1>2 DEF Shutdown, ShutdownReturns
  <2>2. /\ forced' \in BOOLEAN
        /\ ~forced' /\ serving' = "stopped" => \A k \in Callers : caller[k].stage \in {"none", "panicked"}
    BY <1>2 DEF Shutdown, ShutdownReturns
  <2>3. ~forced
    BY <2>1 DEF Sequenced
  <2> QED BY <2>1, <2>2, <2>3 DEF PoolTypes, PlacesDiffer, PlacesOpen, OpenPlaced, Sequenced, Lends
<1>3. CASE ClosePool
  <2>0. serving = "stopped" /\ UNCHANGED <<caller, serving, forced>>
    BY <1>3 DEF ClosePool
  <2>1. CASE UNCHANGED <<idleConns, link>> /\ pool' \in {"flagged", "draining"}
    BY <2>0, <2>1 DEF PoolTypes, PlacesDiffer, PlacesOpen, OpenPlaced, Sequenced, Lends
  <2>2. CASE UNCHANGED <<idleConns, link>> /\ pool' = "closed" /\ idleConns = <<>>
    BY <2>0, <2>2 DEF PoolTypes, PlacesDiffer, PlacesOpen, OpenPlaced, Sequenced, Lends
  <2>3. CASE /\ pool = "draining" /\ idleConns # <<>>
             /\ CloseConn(Head(idleConns)) /\ idleConns' = Tail(idleConns) /\ UNCHANGED pool
    <3> DEFINE c == Head(idleConns)
    <3>1. /\ c \in Conns /\ c \in Buffered(idleConns) /\ idleConns' \in Seq(Conns)
          /\ Distinct(idleConns') /\ Buffered(idleConns') = Buffered(idleConns) \ {c}
      BY <2>3, TailMembers DEF PoolTypes, PlacesDiffer
    <3>0. Buffered(idleConns) \subseteq Conns
      BY DEF PoolTypes, Buffered
    <3> HIDE DEF c
    <3>2. /\ link' \in [Conns -> {"none", "ready", "failed"}] /\ link'[c] = "none"
          /\ \A d \in Conns \ {c} : link'[d] = link[d]
      BY <2>3, <3>1 DEF CloseConn, PoolTypes, c
    <3>3. PoolTypes' /\ Sequenced'
      BY <2>0, <2>3, <3>1, <3>2 DEF PoolTypes, Sequenced
    <3>4. PlacesDiffer'
      BY <2>0, <3>1 DEF PlacesDiffer, Lends
    <3>5. PlacesOpen'
      BY <2>0, <3>0, <3>1, <3>2 DEF PlacesOpen, PlacesDiffer, Lends
    <3>6. OpenPlaced'
      BY <2>0, <3>1, <3>2 DEF OpenPlaced, Lends
    <3> QED BY <3>3, <3>4, <3>5, <3>6
  <2> QED BY <1>3, <2>1, <2>2, <2>3 DEF ClosePool
<1> QED BY <1>1, <1>2, <1>3

\* No connection is shared, used after it was closed, or leaked, whatever the order
\* of Get, Put and Close, for every number of requests and connections.
THEOREM PoolAccounted == GatewayPoolSpec => []ConnsAccounted
<1>1. GatewayPoolInit => PoolInv
  <2> SUFFICES ASSUME GatewayPoolInit PROVE PoolInv
    OBVIOUS
  <2>1. /\ idleConns \in Seq(Conns) /\ DOMAIN idleConns = 1..MaxIdleConns
        /\ link = [c \in Conns |->
                     IF \E i \in 1..MaxIdleConns : idleConns[i] = c THEN "ready" ELSE "none"]
        /\ pool = "open" /\ serving = "running" /\ forced = FALSE
    BY GatewayPoolAssumption DEF GatewayPoolInit
  <2>2. /\ caller \in [Callers -> CallerRows]
        /\ \A k \in Callers : caller[k].stage = "none" /\ caller[k].conn = NoConn
    BY RowTypes DEF GatewayPoolInit, Stages
  <2>3. \A k \in Callers : ~Lends(k)
    BY <2>2 DEF Lends
  <2>4. PoolTypes /\ Sequenced
    BY <2>1, <2>2 DEF PoolTypes, Sequenced
  <2>5. PlacesDiffer
    BY <2>1, <2>2, <2>3 DEF PlacesDiffer, Distinct, GatewayPoolInit
  <2>6. /\ Buffered(idleConns) \subseteq Conns
        /\ \A c \in Conns : c \in Buffered(idleConns) <=> \E i \in 1..MaxIdleConns : idleConns[i] = c
    <3>1. Buffered(idleConns) = {idleConns[i] : i \in 1..MaxIdleConns}
      BY <2>1 DEF Buffered
    <3>2. \A i \in 1..MaxIdleConns : idleConns[i] \in Conns
      BY DEF GatewayPoolInit
    <3> QED BY <3>1, <3>2
  <2>7. PlacesOpen /\ OpenPlaced
    BY <2>1, <2>3, <2>6 DEF PlacesOpen, OpenPlaced
  <2> QED BY <2>4, <2>5, <2>7 DEF PoolInv
<1>2. PoolInv /\ [GatewayPoolNext]_poolVars => PoolInv'
  <2> SUFFICES ASSUME PoolInv, [GatewayPoolNext]_poolVars PROVE PoolInv'
    OBVIOUS
  <2>1. CASE UNCHANGED poolVars
    BY <2>1 DEF poolVars, PoolInv, PoolTypes, PlacesDiffer, PlacesOpen, OpenPlaced, Sequenced, Lends
  <2> QED BY <2>1, RequestKeeps, ServerKeeps DEF GatewayPoolNext
<1>3. PoolInv => ConnsAccounted
  <2> SUFFICES ASSUME PoolInv PROVE ConnsAccounted
    OBVIOUS
  <2>1. \A c \in Conns : Owners(c) <= 1 /\ (Owners(c) = 1 => link[c] # "none")
    BY OwnersCount DEF PoolInv, PlacesOpen
  <2>2. ~forced => \A c \in Conns : link[c] # "none" => Owners(c) = 1
    BY OwnersCount DEF PoolInv, OpenPlaced
  <2>3. ~forced /\ pool = "closed" => \A c \in Conns : link[c] = "none"
    BY NoMembers DEF PoolInv, OpenPlaced, Sequenced, Lends
  <2> QED BY <2>1, <2>2, <2>3 DEF ConnsAccounted
<1> QED BY <1>1, <1>2, <1>3, PTL DEF GatewayPoolSpec

-----------------------------------------------------------------------------
(* auth-service: the limit of pending invitations *)

Transfers == [kind : {"transfer"}, stage : {"target", "write", "promote", "owner"},
              actor : Users, target : Users]
Changes == [kind : {"change"}, stage : {"target", "write"}, target : Users,
            new : Assignable]
Removals == [kind : {"remove"}, stage : {"target", "write"}, target : Users]
Leaves == [kind : {"leave"}, stage : {"count", "write"}, actor : Users]
Invitations == [kind : {"invite"}, stage : {"members", "pending", "previous", "create"},
                target : Users, new : Assignable]
Renewals == [kind : {"invite"}, stage : {"replace", "create"}, id : Invites,
             target : Users, new : Assignable]
Revocations == [kind : {"revoke"}, stage : {"write"}, id : Invites]
Acceptances == [kind : {"accept"}, stage : {"expire", "write", "join"}, id : Invites]

RpcRows == Transfers \cup Changes \cup Removals \cup Leaves \cup Invitations
           \cup Renewals \cup Revocations \cup Acceptances \cup {NoRpc}

\* The RPC c has passed the count of InviteService.Invite and may still insert.
Passed(c) == c.kind = "invite" /\ c.stage \in {"previous", "replace", "create"}
Inviters == {q \in TeamRequests : Passed(rpc[q])}

TeamTypes == invite \in [Invites -> InviteRows] /\ rpc \in [TeamRequests -> RpcRows]

\* The pending rows and the requests that have passed the count together: every
\* request that passes finds the rows below the limit, and all the others may have
\* passed before it.
PendingInv ==
    Cardinality(Pending) + Cardinality(Inviters)
        <= MaxPendingInvites + Cardinality(TeamRequests) - 1

\* The kind of an RPC tells its row.
LEMMA RowOfKind ==
    ASSUME NEW c \in RpcRows
    PROVE  /\ c.kind = "transfer" => c \in Transfers
           /\ c.kind = "change" => c \in Changes
           /\ c.kind = "remove" => c \in Removals
           /\ c.kind = "leave" => c \in Leaves
           /\ c.kind = "invite" => c \in Invitations \cup Renewals
           /\ c.kind = "revoke" => c \in Revocations
           /\ c.kind = "accept" => c \in Acceptances
  BY DEF RpcRows, Transfers, Changes, Removals, Leaves, Invitations, Renewals, Revocations,
         Acceptances, NoRpc

\* RpcAt goes from one row to another of the same kind: the RPCs of TeamService, ...
LEMMA StageOfMember ==
    /\ \A c \in Transfers : \A t \in {"target", "write", "promote", "owner"} :
          [c EXCEPT !.stage = t] \in Transfers
    /\ \A c \in Changes : [c EXCEPT !.stage = "write"] \in Changes
    /\ \A c \in Removals : [c EXCEPT !.stage = "write"] \in Removals
    /\ \A c \in Leaves : [c EXCEPT !.stage = "write"] \in Leaves
<1>1. \A c \in Transfers : \A t \in {"target", "write", "promote", "owner"} :
          [c EXCEPT !.stage = t] \in Transfers
  BY DEF Transfers
<1>2. \A c \in Changes : [c EXCEPT !.stage = "write"] \in Changes
  BY DEF Changes
<1>3. \A c \in Removals : [c EXCEPT !.stage = "write"] \in Removals
  BY DEF Removals
<1>4. \A c \in Leaves : [c EXCEPT !.stage = "write"] \in Leaves
  BY DEF Leaves
<1> QED BY <1>1, <1>2, <1>3, <1>4

\* ... and those of InviteService.
LEMMA StageOfInvite ==
    /\ \A c \in Invitations : \A t \in {"members", "pending", "previous", "create"} :
          [c EXCEPT !.stage = t] \in Invitations
    /\ \A c \in Renewals : [c EXCEPT !.stage = "create"] \in Renewals
    /\ \A c \in Acceptances : [c EXCEPT !.stage = "join"] \in Acceptances
<1>1. \A c \in Invitations : \A t \in {"members", "pending", "previous", "create"} :
          [c EXCEPT !.stage = t] \in Invitations
  BY DEF Invitations
<1>2. \A c \in Renewals : [c EXCEPT !.stage = "create"] \in Renewals
  BY DEF Renewals
<1>3. \A c \in Acceptances : [c EXCEPT !.stage = "join"] \in Acceptances
  BY DEF Acceptances
<1> QED BY <1>1, <1>2, <1>3

\* The RPC q goes on as a row c that has not newly passed the count.
MovesOn(q) == \E c \in RpcRows : /\ rpc' = [rpc EXCEPT ![q] = c]
                                 /\ Passed(c) => Passed(rpc[q])

\* An RPC that ends does.
LEMMA RpcEndsMoves ==
    ASSUME NEW q, RpcEnds(q)
    PROVE  MovesOn(q)
<1>1. NoRpc \in RpcRows
  BY DEF RpcRows
<1>2. ~Passed(NoRpc)
  BY DEF Passed, NoRpc
<1> QED BY <1>1, <1>2 DEF RpcEnds, MovesOn

\* So does one of TeamService.
LEMMA MemberMoves ==
    ASSUME TeamTypes, NEW q \in TeamRequests, MemberStep(q)
    PROVE  MovesOn(q)
<1>0. rpc[q] \in RpcRows
  BY DEF TeamTypes
<1>1. ASSUME NEW k \in {"change", "remove", "transfer"}, NEW a \in Users, NEW t \in Users,
             NEW r \in Assignable, ReadActor(q, k, a, t, r)
      PROVE  MovesOn(q)
  <2>1. PICK c : /\ rpc' = [rpc EXCEPT ![q] = c]
                 /\ c = CASE k = "transfer" -> [kind |-> k, stage |-> "target", actor |-> a, target |-> t]
                          [] k = "change" -> [kind |-> k, stage |-> "target", target |-> t, new |-> r]
                          [] OTHER -> [kind |-> k, stage |-> "target", target |-> t]
    BY <1>1 DEF ReadActor, Begin
  <2>2. c \in Transfers \cup Changes \cup Removals
    BY <2>1 DEF Transfers, Changes, Removals
  <2>3. c \in RpcRows /\ ~Passed(c)
    BY <2>2 DEF RpcRows, Passed, Transfers, Changes, Removals
  <2> QED BY <2>1, <2>3 DEF MovesOn
<1>2. ASSUME NEW t \in {"write", "promote", "owner"}, RpcAt(q, t),
             rpc[q].kind \in {"transfer", "change", "remove", "leave"},
             rpc[q].kind # "transfer" => t = "write"
      PROVE  MovesOn(q)
  <2>1. PICK c : c = [rpc[q] EXCEPT !.stage = t]
    OBVIOUS
  <2>2. c \in Transfers \cup Changes \cup Removals \cup Leaves
    BY <1>0, <1>2, <2>1, RowOfKind, StageOfMember
  <2>3. c \in RpcRows /\ ~Passed(c)
    BY <2>2 DEF RpcRows, Passed, Transfers, Changes, Removals, Leaves
  <2>4. rpc' = [rpc EXCEPT ![q] = c]
    BY <1>2, <2>1 DEF RpcAt
  <2> QED BY <2>3, <2>4 DEF MovesOn
<1>3. CASE ReadTarget(q)
  <2>1. rpc[q].kind \in {"transfer", "change", "remove"}
    BY <1>0, <1>3 DEF ReadTarget, RpcRows, Transfers, Changes, Removals, Leaves, Invitations,
                      Renewals, Revocations, Acceptances, NoRpc
  <2> QED BY <1>2, <1>3, <2>1, RpcEndsMoves DEF ReadTarget
<1>4. CASE ChangeMemberRole(q) \/ RemoveMember(q) \/ UpdateOwner(q) \/ LeaveDelete(q)
  BY <1>4, RpcEndsMoves DEF ChangeMemberRole, RemoveMember, UpdateOwner, LeaveDelete
<1>5. CASE Demote(q) \/ Promote(q)
  BY <1>2, <1>5, RpcEndsMoves DEF Demote, Promote, At
<1>6. CASE LeaveCount(q)
  BY <1>2, <1>6, RpcEndsMoves DEF LeaveCount, At
<1>7. ASSUME NEW a \in Users, LeaveOrganization(q, a) PROVE MovesOn(q)
  <2>1. PICK c : /\ rpc' = [rpc EXCEPT ![q] = c]
                 /\ c = [kind |-> "leave", actor |-> a,
                         stage |-> IF role[a] = "OWNER" THEN "count" ELSE "write"]
    BY <1>7 DEF LeaveOrganization, Begin
  <2>2. c \in Leaves
    BY <2>1 DEF Leaves
  <2>3. c \in RpcRows /\ ~Passed(c)
    BY <2>2 DEF RpcRows, Passed, Leaves
  <2> QED BY <2>1, <2>3 DEF MovesOn
<1> QED BY <1>1, <1>3, <1>4, <1>5, <1>6, <1>7 DEF MemberStep

\* And one of InviteService, but for the count.
LEMMA InviteMoves ==
    ASSUME TeamTypes, NEW q \in TeamRequests, InviteStep(q), ~InviteCountPending(q)
    PROVE  MovesOn(q)
<1>0. rpc[q] \in RpcRows
  BY DEF TeamTypes
<1>1. ASSUME NEW c \in Invitations \cup Revocations \cup Acceptances, ~Passed(c),
             rpc' = [rpc EXCEPT ![q] = c]
      PROVE  MovesOn(q)
  <2>1. c \in RpcRows
    BY DEF RpcRows
  <2> QED BY <1>1, <2>1 DEF MovesOn
<1>2. ASSUME NEW a \in Users, NEW e \in Users, NEW r \in Assignable, Invite(q, a, e, r)
      PROVE  MovesOn(q)
  <2>1. PICK c : /\ rpc' = [rpc EXCEPT ![q] = c]
                 /\ c = [kind |-> "invite", stage |-> "members", target |-> e, new |-> r]
    BY <1>2 DEF Invite, Begin
  <2>2. c \in Invitations /\ ~Passed(c)
    BY <2>1 DEF Invitations, Passed
  <2> QED BY <1>1, <2>1, <2>2
<1>3. CASE InviteCountMembers(q)
  <2>1. CASE RpcAt(q, "pending")
    <3>1. rpc[q] \in Invitations
      BY <1>0, <1>3, RowOfKind DEF InviteCountMembers, At, Renewals
    <3>2. PICK c : c = [rpc[q] EXCEPT !.stage = "pending"]
      OBVIOUS
    <3>3. c \in Invitations
      BY <3>1, <3>2, StageOfInvite
    <3>4. c.stage = "pending" /\ rpc' = [rpc EXCEPT ![q] = c]
      BY <2>1, <3>1, <3>2 DEF RpcAt, Invitations
    <3> QED BY <1>1, <3>3, <3>4 DEF Passed
  <2> QED BY <1>3, <2>1, RpcEndsMoves DEF InviteCountMembers
<1>4. ASSUME rpc[q].kind = "invite", rpc[q].stage \in {"previous", "replace"}, RpcAt(q, "create")
      PROVE  MovesOn(q)
  <2>1. PICK c : c = [rpc[q] EXCEPT !.stage = "create"]
    OBVIOUS
  <2>2. c \in RpcRows
    BY <1>0, <1>4, <2>1, RowOfKind, StageOfInvite DEF RpcRows
  <2>3. Passed(rpc[q]) /\ rpc' = [rpc EXCEPT ![q] = c]
    BY <1>4, <2>1 DEF Passed, RpcAt
  <2> QED BY <2>2, <2>3 DEF MovesOn
<1>5. CASE InviteFindPrevious(q)
  <2>1. CASE RpcAt(q, "create")
    BY <1>4, <1>5, <2>1 DEF InviteFindPrevious, At
  <2>2. ASSUME NEW i \in PendingFor(rpc[q].target),
               rpc' = [rpc EXCEPT ![q] = [kind |-> "invite", stage |-> "replace", id |-> i,
                                          target |-> @.target, new |-> @.new]]
        PROVE  MovesOn(q)
    <3>1. PICK c : c = [kind |-> "invite", stage |-> "replace", id |-> i,
                        target |-> rpc[q].target, new |-> rpc[q].new]
      OBVIOUS
    <3>2. rpc[q] \in Invitations \cup Renewals /\ i \in Invites
      BY <1>0, <1>5, RowOfKind DEF InviteFindPrevious, At, PendingFor, Pending
    <3>3. c \in Renewals
      BY <3>1, <3>2 DEF Renewals, Invitations
    <3>4. c \in RpcRows
      BY <3>3 DEF RpcRows
    <3>5. Passed(rpc[q]) /\ rpc' = [rpc EXCEPT ![q] = c]
      BY <1>5, <2>2, <3>1 DEF InviteFindPrevious, At, Passed, TeamTypes
    <3> QED BY <3>4, <3>5 DEF MovesOn
  <2> QED BY <1>5, <2>1, <2>2 DEF InviteFindPrevious
<1>6. CASE InviteRevokePrevious(q)
  BY <1>4, <1>6 DEF InviteRevokePrevious, At
<1>7. CASE RevokeWrite(q) \/ AcceptExpired(q) \/ AcceptJoin(q)
           \/ \E i \in Invites : InviteCreate(q, i)
  BY <1>7, RpcEndsMoves DEF RevokeWrite, AcceptExpired, AcceptJoin, InviteCreate
<1>8. CASE AcceptWrite(q)
  <2>1. PICK c : c = [rpc[q] EXCEPT !.stage = "join"]
    OBVIOUS
  <2>2. c \in Acceptances
    BY <1>0, <1>8, <2>1, RowOfKind, StageOfInvite DEF AcceptWrite, At
  <2>3. ~Passed(c) /\ rpc' = [rpc EXCEPT ![q] = c]
    BY <1>8, <2>1, <2>2 DEF AcceptWrite, RpcAt, Passed, Acceptances
  <2> QED BY <1>1, <2>2, <2>3
<1>9. ASSUME NEW i \in Invites, Accept(q, i) PROVE MovesOn(q)
  <2>1. PICK c : /\ rpc' = [rpc EXCEPT ![q] = c]
                 /\ c = [kind |-> "accept", id |-> i,
                         stage |-> IF invite[i].late THEN "expire" ELSE "write"]
    BY <1>9 DEF Accept, Begin
  <2>2. c \in Acceptances /\ ~Passed(c)
    BY <2>1 DEF Acceptances, Passed
  <2> QED BY <1>1, <2>1, <2>2
<1>10. ASSUME NEW a \in Users, NEW i \in Invites, Revoke(q, a, i) PROVE MovesOn(q)
  <2>1. PICK c : /\ rpc' = [rpc EXCEPT ![q] = c]
                 /\ c = [kind |-> "revoke", stage |-> "write", id |-> i]
    BY <1>10 DEF Revoke, Begin
  <2>2. c \in Revocations /\ ~Passed(c)
    BY <2>1 DEF Revocations, Passed
  <2> QED BY <1>1, <2>1, <2>2
<1> QED
  BY <1>2, <1>3, <1>5, <1>6, <1>7, <1>8, <1>9, <1>10 DEF InviteStep

\* Another status of one invitation makes none pending.
LEMMA SetInviteType ==
    ASSUME invite \in [Invites -> InviteRows], NEW i, NEW t \in InviteStatuses \ {"PENDING"},
           SetInvite(i, t)
    PROVE  invite' \in [Invites -> InviteRows] /\ Pending' \subseteq Pending
<1>1. CASE i \in Invites
  <2>1. PICK x : x = [invite[i] EXCEPT !.status = t, !.late = FALSE]
    OBVIOUS
  <2>2. invite' = [invite EXCEPT ![i] = x]
    BY <1>1, <2>1 DEF SetInvite, InviteRows
  <2>3. x \in InviteRows /\ x.status = t
    BY <1>1, <2>1 DEF InviteRows
  <2> QED BY <2>2, <2>3 DEF Pending
<1>2. CASE i \notin Invites
  BY <1>2 DEF SetInvite, Pending
<1> QED BY <1>1, <1>2

\* Only InviteCreate makes an invitation pending.
LEMMA PendingShrinks ==
    ASSUME TeamTypes, [TeamNext]_teamVars,
           ~\E q \in TeamRequests, i \in Invites : InviteCreate(q, i)
    PROVE  invite' \in [Invites -> InviteRows] /\ Pending' \subseteq Pending
<1> USE DEF TeamTypes
<1>1. CASE invite' = invite
  BY <1>1 DEF Pending
<1>2. ASSUME NEW i, NEW t \in {"REVOKED", "EXPIRED", "ACCEPTED"}, SetInvite(i, t)
      PROVE  invite' \in [Invites -> InviteRows] /\ Pending' \subseteq Pending
  BY <1>2, SetInviteType DEF InviteStatuses
<1>3. ASSUME NEW i \in Invites, InviteExpires(i)
      PROVE  invite' \in [Invites -> InviteRows] /\ Pending' \subseteq Pending
  <2>1. PICK x : x = [invite[i] EXCEPT !.late = TRUE]
    OBVIOUS
  <2>2. x \in InviteRows /\ x.status = invite[i].status /\ invite' = [invite EXCEPT ![i] = x]
    BY <1>3, <2>1 DEF InviteExpires, InviteRows
  <2> QED BY <2>2 DEF Pending
<1>4. ASSUME NEW q \in TeamRequests, MemberStep(q) PROVE invite' = invite
  BY <1>4 DEF MemberStep, ReadActor, ReadTarget, ChangeMemberRole, RemoveMember, Demote,
              Promote, UpdateOwner, LeaveOrganization, LeaveCount, LeaveDelete, NothingWritten
<1>5. ASSUME NEW q \in TeamRequests, InviteStep(q)
      PROVE  \/ invite' = invite
             \/ \E i : \E t \in {"REVOKED", "EXPIRED", "ACCEPTED"} : SetInvite(i, t)
  BY <1>5 DEF InviteStep, Invite, InviteCountMembers, InviteCountPending, InviteFindPrevious,
              InviteRevokePrevious, Accept, Revoke, RevokeWrite, AcceptExpired, AcceptWrite,
              AcceptJoin, NothingWritten
<1>6. ASSUME NEW q \in TeamRequests, RpcFails(q) PROVE invite' = invite
  BY <1>6 DEF RpcFails
<1> QED BY <1>1, <1>2, <1>3, <1>4, <1>5, <1>6 DEF TeamNext, teamVars

\* The sets that are counted are finite, before and after a step.
LEMMA TeamFinite ==
    /\ IsFiniteSet(Pending) /\ Cardinality(Pending) \in Nat
    /\ IsFiniteSet(Pending') /\ Cardinality(Pending') \in Nat
    /\ IsFiniteSet(Inviters) /\ Cardinality(Inviters) \in Nat
    /\ IsFiniteSet(Inviters') /\ Cardinality(Inviters') \in Nat
    /\ Cardinality(Inviters') <= Cardinality(TeamRequests)
    /\ Cardinality(TeamRequests) \in Nat /\ Cardinality(TeamRequests) > 0
    /\ MaxPendingInvites \in Nat
<1>1. /\ Pending \subseteq Invites /\ Pending' \subseteq Invites
      /\ Inviters \subseteq TeamRequests /\ Inviters' \subseteq TeamRequests
  BY DEF Pending, Inviters
<1>2. /\ IsFiniteSet(Invites) /\ IsFiniteSet(TeamRequests) /\ TeamRequests # {}
      /\ MaxPendingInvites \in Nat
  BY TeamAssumption, FS_Interval DEF Invites
<1>3. /\ IsFiniteSet(Pending) /\ IsFiniteSet(Pending')
      /\ IsFiniteSet(Inviters) /\ IsFiniteSet(Inviters')
      /\ Cardinality(Inviters') <= Cardinality(TeamRequests)
  BY <1>1, <1>2, FS_Subset
<1>4. Cardinality(TeamRequests) # 0
  BY <1>2, FS_EmptySet
<1> QED BY <1>2, <1>3, <1>4, FS_CardinalityType

\* No step adds to either count but the two statements of Invite.
LEMMA CountsShrink ==
    ASSUME PendingInv, Pending' \subseteq Pending, Inviters' \subseteq Inviters
    PROVE  PendingInv'
<1>1. /\ Cardinality(Pending') <= Cardinality(Pending)
      /\ Cardinality(Inviters') <= Cardinality(Inviters)
  BY TeamFinite, FS_Subset
<1>2. Cardinality(Pending') + Cardinality(Inviters')
        <= MaxPendingInvites + Cardinality(TeamRequests) - 1
  BY <1>1, TeamFinite DEF PendingInv
<1> QED BY <1>2 DEF PendingInv

\* A request that moves on does not join the inviters.
LEMMA MovesOnInviters ==
    ASSUME TeamTypes, NEW q \in TeamRequests, MovesOn(q)
    PROVE  rpc' \in [TeamRequests -> RpcRows] /\ Inviters' \subseteq Inviters
BY DEF TeamTypes, MovesOn, Inviters

\* A request passes the count.
LEMMA CountKeeps ==
    ASSUME TeamTypes, PendingInv, NEW q \in TeamRequests, InviteCountPending(q)
    PROVE  TeamTypes' /\ PendingInv'
<1>1. invite' = invite /\ Pending' = Pending
  BY DEF InviteCountPending, NothingWritten, Pending
<1>2. CASE RpcEnds(q)
  BY <1>1, <1>2, RpcEndsMoves, MovesOnInviters, CountsShrink DEF TeamTypes
<1>3. CASE ~PendingLimit /\ RpcAt(q, "previous")
  <2>1. rpc[q] \in Invitations
    BY RowOfKind DEF InviteCountPending, At, TeamTypes, Renewals
  <2>2. [rpc[q] EXCEPT !.stage = "previous"] \in RpcRows
    BY <2>1, StageOfInvite DEF RpcRows
  <2>3. TeamTypes'
    BY <1>1, <1>3, <2>2 DEF RpcAt, TeamTypes
  <2>4. Cardinality(Pending') < MaxPendingInvites
    BY <1>1, <1>3, TeamFinite DEF PendingLimit
  <2>5. Cardinality(Pending') + Cardinality(Inviters')
          <= MaxPendingInvites + Cardinality(TeamRequests) - 1
    BY <2>4, TeamFinite
  <2> QED BY <2>3, <2>5 DEF PendingInv
<1> QED BY <1>2, <1>3 DEF InviteCountPending

\* A request inserts its row and no longer counts itself.
LEMMA CreateKeepsPending ==
    ASSUME TeamTypes, PendingInv, NEW q \in TeamRequests, NEW i \in Invites, InviteCreate(q, i)
    PROVE  TeamTypes' /\ PendingInv'
<1>1. rpc[q] \in Invitations \cup Renewals /\ Passed(rpc[q])
  BY RowOfKind DEF InviteCreate, At, TeamTypes, Passed
<1>2. PICK x : x = [status |-> "PENDING", email |-> rpc[q].target, role |-> rpc[q].new,
                    late |-> FALSE]
  OBVIOUS
<1>3. x \in InviteRows
  BY <1>1, <1>2 DEF InviteRows, InviteStatuses, Invitations, Renewals
<1>4. invite' = invite \/ invite' = [invite EXCEPT ![i] = x]
  BY <1>2 DEF InviteCreate
<1>5. rpc' \in [TeamRequests -> RpcRows]
  BY RpcEndsMoves, MovesOnInviters DEF InviteCreate
<1>6. TeamTypes'
  BY <1>3, <1>4, <1>5 DEF TeamTypes
<1>7. Pending' \subseteq Pending \cup {i} /\ i \notin Pending
  BY <1>4 DEF Pending, TeamTypes, InviteCreate
<1>8. Inviters' = Inviters \ {q} /\ q \in Inviters
  BY <1>1 DEF InviteCreate, RpcEnds, Inviters, TeamTypes, Passed, NoRpc
<1>9. Cardinality(Inviters') = Cardinality(Inviters) - 1
  BY <1>8, TeamFinite, FS_RemoveElement
<1>10. Cardinality(Pending \cup {i}) = Cardinality(Pending) + 1 /\ IsFiniteSet(Pending \cup {i})
  BY <1>7, TeamFinite, FS_AddElement
<1>11. Cardinality(Pending') <= Cardinality(Pending) + 1
  BY <1>7, <1>10, FS_Subset
<1>12. Cardinality(Pending') + Cardinality(Inviters')
         <= MaxPendingInvites + Cardinality(TeamRequests) - 1
  BY <1>9, <1>11, TeamFinite DEF PendingInv
<1> QED BY <1>6, <1>12 DEF PendingInv

LEMMA PendingStep ==
    TeamTypes /\ PendingInv /\ [TeamNext]_teamVars => TeamTypes' /\ PendingInv'
<1> SUFFICES ASSUME TeamTypes, PendingInv, [TeamNext]_teamVars PROVE TeamTypes' /\ PendingInv'
  OBVIOUS
<1>1. ASSUME NEW q \in TeamRequests, InviteCountPending(q) PROVE TeamTypes' /\ PendingInv'
  BY <1>1, CountKeeps
<1>2. ASSUME NEW q \in TeamRequests, NEW i \in Invites, InviteCreate(q, i)
      PROVE  TeamTypes' /\ PendingInv'
  BY <1>2, CreateKeepsPending
<1>3. CASE /\ ~\E q \in TeamRequests : InviteCountPending(q)
           /\ ~\E q \in TeamRequests, i \in Invites : InviteCreate(q, i)
  <2>1. invite' \in [Invites -> InviteRows] /\ Pending' \subseteq Pending
    BY <1>3, PendingShrinks
  <2>2. ASSUME NEW q \in TeamRequests, MemberStep(q) \/ InviteStep(q) \/ RpcFails(q)
        PROVE  MovesOn(q)
    BY <1>3, <2>2, MemberMoves, InviteMoves, RpcEndsMoves DEF RpcFails
  <2>3. CASE UNCHANGED rpc
    BY <2>1, <2>3, CountsShrink DEF TeamTypes, Inviters
  <2>4. ASSUME NEW q \in TeamRequests, MovesOn(q) PROVE TeamTypes' /\ PendingInv'
    BY <2>1, <2>4, MovesOnInviters, CountsShrink DEF TeamTypes
  <2> QED BY <2>2, <2>3, <2>4 DEF TeamNext, InviteExpires, teamVars
<1> QED BY <1>1, <1>2, <1>3

\* The pending invitations exceed the limit by at most one for every other RPC that
\* is served at the same time, however Invite, Revoke, Accept and the RPCs of
\* TeamService overlap and whichever of their writes fail.
THEOREM InvitationsBounded == TeamSpec => []PendingBound
<1>1. TeamInit => TeamTypes /\ PendingInv
  <2> SUFFICES ASSUME TeamInit PROVE TeamTypes /\ PendingInv
    OBVIOUS
  <2>1. [status |-> "unused", email |-> Founder, role |-> "MEMBER", late |-> FALSE]
          \in InviteRows
    BY TeamAssumption DEF InviteRows, InviteStatuses, Assignable, Roles
  <2>2. TeamTypes
    BY <2>1 DEF TeamInit, TeamTypes, RpcRows
  <2>3. Pending = {} /\ Inviters = {}
    BY DEF TeamInit, Pending, Inviters, Passed, NoRpc
  <2>4. Cardinality(Pending) = 0 /\ Cardinality(Inviters) = 0
    BY <2>3, FS_EmptySet
  <2> QED BY <2>2, <2>4, TeamFinite DEF PendingInv
<1>2. PendingInv => PendingBound
  <2>1. ASSUME PendingInv
        PROVE  Cardinality(Pending) <= MaxPendingInvites + Cardinality(TeamRequests) - 1
    BY <2>1, TeamFinite DEF PendingInv
  <2> QED BY <2>1 DEF PendingBound
<1> QED BY <1>1, <1>2, PendingStep, PTL DEF TeamSpec
=============================================================================
