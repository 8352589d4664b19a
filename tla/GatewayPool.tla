---------------------------- MODULE GatewayPool ----------------------------
(***************************************************************************)
(* gateway: the pool of gRPC connections to auth-service, the requests     *)
(* that borrow from it, and the shutdown of the process.                   *)
(*                                                                         *)
(* Idle connections wait in a buffered channel.  Get and Put read the      *)
(* closed flag under the lock and touch the channel after they have let    *)
(* it go; Close holds the lock while it sets the flag, closes the channel  *)
(* and drains it.  gRPC (external) breaks and repairs a connection on its  *)
(* own.                                                                    *)
(***************************************************************************)
EXTENDS Naturals, Sequences, FiniteSets

CONSTANTS
    Conns,         \* connections; one that was closed may be dialled again
    Callers,       \* goroutines of HTTP requests
    MaxConns,      \* capacity of the channel
    MaxIdleConns   \* connections dialled at the start

ASSUME GatewayPoolAssumption ==
    /\ MaxConns \in Nat /\ MaxIdleConns \in 0..MaxConns
    /\ MaxIdleConns <= Cardinality(Conns) /\ "none" \notin Conns

VARIABLES
    idleConns,  \* the channel's buffer
    pool,       \* how far Close has come
    link,       \* state of each connection
    caller,     \* where each request is, and the connection it has
    serving,    \* the HTTP server
    forced      \* Shutdown did not wait for the requests

poolVars == <<idleConns, pool, link, caller, serving, forced>>

NoConn == "none"
NoRequest == [stage |-> "none", conn |-> NoConn]
Lacking(stage) == [stage |-> stage, conn |-> NoConn]
Having(stage, c) == [stage |-> stage, conn |-> c]

GatewayPoolTypeOK ==
    /\ idleConns \in Seq(Conns) /\ Len(idleConns) <= MaxConns
    /\ pool \in {"open", "flagged", "draining", "closed"}
    /\ link \in [Conns -> {"none", "ready", "failed"}]
    /\ caller \in [Callers -> [stage : {"none", "begin", "get", "len", "wait", "dial",
                                        "use", "return", "put", "panicked"},
                               conn : Conns \cup {NoConn}]]
    /\ serving \in {"running", "stopping", "stopped"} /\ forced \in BOOLEAN

GatewayPoolInit ==
    /\ idleConns \in [1..MaxIdleConns -> Conns]
    /\ \A i, j \in 1..MaxIdleConns : idleConns[i] = idleConns[j] => i = j
    /\ link = [c \in Conns |->
                 IF \E i \in 1..MaxIdleConns : idleConns[i] = c THEN "ready" ELSE "none"]
    /\ pool = "open" /\ serving = "running" /\ forced = FALSE
    /\ caller = [k \in Callers |-> NoRequest]

Moves(k, to) == caller' = [caller EXCEPT ![k] = to]
CloseConn(c) == link' = [link EXCEPT ![c] = "none"]
ChannelClosed == pool \in {"draining", "closed"}
\* Close holds the lock that readers of the flag need.
Locked == pool \in {"flagged", "draining"}
ServerUnchanged == UNCHANGED <<pool, serving, forced>>

-----------------------------------------------------------------------------
(* Get *)

Request(k) ==
    /\ serving = "running" /\ caller[k] = NoRequest
    /\ Moves(k, Lacking("begin")) /\ UNCHANGED <<idleConns, link>> /\ ServerUnchanged

Get(k) ==
    /\ caller[k].stage = "begin" /\ ~Locked
    /\ Moves(k, IF pool = "closed" THEN NoRequest ELSE Lacking("get"))
    /\ UNCHANGED <<idleConns, link>> /\ ServerUnchanged

\* A connection that is no longer healthy is closed and replaced.
TakeIdle(k) ==
    LET c == Head(idleConns)
    IN  /\ idleConns # <<>>
        /\ idleConns' = Tail(idleConns)
        /\ IF link[c] = "failed" THEN CloseConn(c) /\ Moves(k, Lacking("dial"))
           ELSE Moves(k, Having("use", c)) /\ UNCHANGED link

\* From a channel that is closed and empty comes nil, whose state cannot be asked.
TakeNil(k) ==
    /\ idleConns = <<>> /\ ChannelClosed
    /\ Moves(k, Lacking("panicked")) /\ UNCHANGED <<idleConns, link>>

GetReceive(k) ==
    /\ caller[k].stage = "get"
    /\ \/ TakeIdle(k)
       \/ TakeNil(k)
       \/ /\ idleConns = <<>> /\ ~ChannelClosed
          /\ Moves(k, Lacking("len")) /\ UNCHANGED <<idleConns, link>>
    /\ ServerUnchanged

\* The length of the buffer, not the number of connections, is compared.
GetLen(k) ==
    /\ caller[k].stage = "len"
    /\ Moves(k, Lacking(IF Len(idleConns) < MaxConns THEN "dial" ELSE "wait"))
    /\ UNCHANGED <<idleConns, link>> /\ ServerUnchanged

GetWait(k) ==
    /\ caller[k].stage = "wait"
    /\ TakeIdle(k) \/ TakeNil(k) \/ (Moves(k, NoRequest) /\ UNCHANGED <<idleConns, link>>)
    /\ ServerUnchanged

\* Dialling ends with a connection that is ready, or an error.
newConnection(k) ==
    /\ caller[k].stage = "dial"
    /\ \/ \E c \in Conns : /\ link[c] = "none"
                           /\ link' = [link EXCEPT ![c] = "ready"]
                           /\ Moves(k, Having("use", c))
       \/ Moves(k, NoRequest) /\ UNCHANGED link
    /\ UNCHANGED idleConns /\ ServerUnchanged

-----------------------------------------------------------------------------
(* The call and Put *)

ValidateToken(k) ==
    /\ caller[k].stage = "use"
    /\ Moves(k, Having("return", caller[k].conn))
    /\ UNCHANGED <<idleConns, link>> /\ ServerUnchanged

PutClosed(k) ==
    /\ caller[k].stage = "return" /\ ~Locked
    /\ IF pool = "closed" THEN CloseConn(caller[k].conn) /\ Moves(k, NoRequest)
       ELSE Moves(k, Having("put", caller[k].conn)) /\ UNCHANGED link
    /\ UNCHANGED idleConns /\ ServerUnchanged

\* Mutant: a connection for which there is no room is dropped without Close.
PutMutant(k) ==
    /\ caller[k].stage = "put" /\ ~ChannelClosed
    /\ idleConns' = IF Len(idleConns) < MaxConns THEN Append(idleConns, caller[k].conn)
                    ELSE idleConns
    /\ Moves(k, NoRequest) /\ UNCHANGED link /\ ServerUnchanged

\* A send on the closed channel panics, which the HTTP server survives.
Put(k) ==
    LET c == caller[k].conn
    IN  /\ caller[k].stage = "put"
        /\ \/ /\ ChannelClosed
              /\ Moves(k, Lacking("panicked")) /\ UNCHANGED <<idleConns, link>>
           \/ /\ ~ChannelClosed /\ Len(idleConns) < MaxConns
              /\ idleConns' = Append(idleConns, c)
              /\ Moves(k, NoRequest) /\ UNCHANGED link
           \/ /\ ~ChannelClosed /\ Len(idleConns) >= MaxConns
              /\ CloseConn(c) /\ Moves(k, NoRequest) /\ UNCHANGED idleConns
        /\ ServerUnchanged

LinkChanges(c) ==
    /\ link[c] # "none"
    /\ link' = [link EXCEPT ![c] = IF @ = "ready" THEN "failed" ELSE "ready"]
    /\ UNCHANGED <<idleConns, caller>> /\ ServerUnchanged

-----------------------------------------------------------------------------
(* Shutdown of the server, then the deferred Close *)

\* A signal begins the shutdown; ~ok: the server failed, and nothing is waited for.
Shutdown(ok) ==
    /\ serving = "running"
    /\ serving' = IF ok THEN "stopping" ELSE "stopped"
    /\ forced' = ~ok
    /\ UNCHANGED <<idleConns, pool, link, caller>>

\* ok: the requests have ended; ~ok: the deadline passed first.
ShutdownReturns(ok) ==
    /\ serving = "stopping"
    /\ ok => \A k \in Callers : caller[k].stage \in {"none", "panicked"}
    /\ serving' = "stopped" /\ forced' = ~ok
    /\ UNCHANGED <<idleConns, pool, link, caller>>

ClosePool ==
    /\ serving = "stopped"
    /\ \/ pool = "open" /\ pool' = "flagged" /\ UNCHANGED <<idleConns, link>>
       \/ pool = "flagged" /\ pool' = "draining" /\ UNCHANGED <<idleConns, link>>
       \/ /\ pool = "draining" /\ idleConns # <<>>
          /\ CloseConn(Head(idleConns)) /\ idleConns' = Tail(idleConns) /\ UNCHANGED pool
       \/ /\ pool = "draining" /\ idleConns = <<>>
          /\ pool' = "closed" /\ UNCHANGED <<idleConns, link>>
    /\ UNCHANGED <<caller, serving, forced>>

-----------------------------------------------------------------------------

GatewayPoolNext ==
    \/ \E k \in Callers : \/ Request(k) \/ Get(k) \/ GetReceive(k) \/ GetLen(k) \/ GetWait(k)
                          \/ newConnection(k) \/ ValidateToken(k) \/ PutClosed(k) \/ Put(k)
    \/ \E c \in Conns : LinkChanges(c)
    \/ \E ok \in BOOLEAN : Shutdown(ok) \/ ShutdownReturns(ok)
    \/ ClosePool

GatewayPoolSpec == GatewayPoolInit /\ [][GatewayPoolNext]_poolVars

-----------------------------------------------------------------------------
(* Properties *)

Owners(c) ==
    Cardinality({i \in DOMAIN idleConns : idleConns[i] = c})
      + Cardinality({k \in Callers : caller[k].conn = c})

\* Two requests never share a connection and nobody has one that was closed,
\* whatever Get, Put and Close do between the flag and the channel.  Unless Close
\* has overtaken a request (forced), nothing leaks either: every open connection is
\* idle or lent, and none is open once Close has returned.
ConnsAccounted ==
    /\ \A c \in Conns : Owners(c) <= 1 /\ (Owners(c) = 1 => link[c] # "none")
    /\ ~forced => \A c \in Conns : link[c] # "none" => Owners(c) = 1
    /\ ~forced /\ pool = "closed" => \A c \in Conns : link[c] = "none"

\* Put does not panic on a closed pool (pool_test.go, TestPool_Put_closedPool).
\* The flag read before Close and the channel used after it violate this when
\* Shutdown has not waited for the requests.
PutSafe == \A k \in Callers : caller[k].stage # "panicked"
=============================================================================
