------------------------------ MODULE Dispatch ------------------------------
(***************************************************************************)
(* The dispatch side of the server: ServiceImpl (Execute, ExecuteSync,     *)
(* Run), ClientManagerDomainTmpl (clients, pendingReqs, the P2C balancer)  *)
(* and the server end of a worker's websocket (Send, Read, Close and the   *)
(* heartbeat goroutine).  The worker end of a connection is reduced to     *)
(* what the server can see of it: it reads a request, writes an ACK before *)
(* it runs the request, and may leave or crash at any point.               *)
(*                                                                         *)
(* Every goroutine is a thread with its own pc.  The thread of a request r *)
(* is the handler that called Execute(r) or ExecuteSync(r); the thread of  *)
(* a connection c is Run(c), which calls Execute itself to redispatch.     *)
(* One step is one access to state that goroutines share.                  *)
(***************************************************************************)
EXTENDS Integers, Sequences, FiniteSets

CONSTANTS
  Conns,        \* accepted connections; every one gets a fresh client id
  Reqs,         \* request ids, one call each
  SyncReqs,     \* the requests made with ExecuteSync
  MaxRetry,     \* maxRetryPickClient
  NoConn,       \* no node picked
  NoReq         \* nothing to run

ASSUME DispatchAssumption ==
  /\ SyncReqs \subseteq Reqs
  /\ Conns \cap Reqs = {}
  /\ NoConn \notin Conns
  /\ NoReq \notin Reqs
  /\ MaxRetry \in Nat \ {0}
  /\ IsFiniteSet(Conns) /\ IsFiniteSet(Reqs)

VARIABLES
  \* the connections
  tcp,          \* state of the TCP connection seen from the server
  isClosed,     \* WebsocketClientImpl.isClosed
  down,         \* requests written to the connection and not yet read
  up,           \* ACKs written by the worker and not yet read
  hbClosing,    \* the heartbeat goroutine is inside Close
  run,          \* the Run goroutine
  queue,        \* drained requests Run has still to redispatch
  \* the client manager
  clients,      \* keys of the clients map
  pendKeys,     \* keys of pendingReqs
  pendingReqs,  \* the requests tracked under each key
  lb,           \* nodes of the balancer
  inflight,     \* P2CNode.inflight
  \* the calls of Execute
  pc, cur, node, tries, ok,
  \* what became of every request, for the properties
  outcome,      \* what Execute told its caller, or the log of Run
  settled       \* requests an ACK has taken out of pendingReqs

connVars == <<tcp, isClosed, down, up, hbClosing>>
runVars  == <<run, queue>>
mgrVars  == <<clients, pendKeys, pendingReqs, lb, inflight>>
exVars   == <<pc, cur, node, tries, ok>>
ghosts   == <<outcome, settled>>
vars == <<connVars, runVars, mgrVars, exVars, ghosts>>

Threads == Reqs \cup Conns
-----------------------------------------------------------------------------
TypeOK ==
  /\ tcp \in [Conns -> {"none", "up", "broken", "closed"}]
  /\ isClosed \in [Conns -> BOOLEAN]
  /\ down \in [Conns -> Seq(Reqs)]
  /\ up \in [Conns -> Seq(Reqs)]
  /\ hbClosing \in [Conns -> BOOLEAN]
  /\ run \in [Conns -> {"none", "read", "redispatch", "remove", "closeConn",
                        "lbRemove", "end"}]
  /\ queue \in [Conns -> SUBSET Reqs]
  /\ clients \subseteq Conns
  /\ pendKeys \subseteq Conns
  /\ pendingReqs \in [Conns -> SUBSET Reqs]
  /\ lb \subseteq Conns
  /\ inflight \in [Conns -> Int]
  /\ pc \in [Threads -> {"idle", "get", "load", "evict", "evictLB", "send",
                         "sync", "done", "track"}]
  /\ cur \in [Threads -> Reqs \cup {NoReq}]
  /\ node \in [Threads -> Conns \cup {NoConn}]
  /\ tries \in [Threads -> 0..(MaxRetry - 1)]
  /\ ok \in [Threads -> BOOLEAN]
  /\ outcome \in [Reqs -> {"new", "calling", "accepted", "rejected", "dropped"}]
  /\ settled \subseteq Reqs

Init ==
  /\ tcp = [c \in Conns |-> "none"]
  /\ isClosed = [c \in Conns |-> FALSE]
  /\ down = [c \in Conns |-> <<>>]
  /\ up = [c \in Conns |-> <<>>]
  /\ hbClosing = [c \in Conns |-> FALSE]
  /\ run = [c \in Conns |-> "none"]
  /\ queue = [c \in Conns |-> {}]
  /\ clients = {}
  /\ pendKeys = {}
  /\ pendingReqs = [c \in Conns |-> {}]
  /\ lb = {}
  /\ inflight = [c \in Conns |-> 0]
  /\ pc = [t \in Threads |-> "idle"]
  /\ cur = [t \in Threads |-> NoReq]
  /\ node = [t \in Threads |-> NoConn]
  /\ tries = [t \in Threads |-> 0]
  /\ ok = [t \in Threads |-> FALSE]
  /\ outcome = [r \in Reqs |-> "new"]
  /\ settled = {}
-----------------------------------------------------------------------------
(* The call of Execute / ExecuteSync by thread t.  A definition named    *)
(* Faulty... is a plausible mistake in the one that follows it: it is not  *)
(* part of the specification, and shows that a property would notice.      *)

Goto(t, l) == pc' = [pc EXCEPT ![t] = l]

\* Enter Execute(r) on thread t.
Begin(t, r) ==
  /\ pc[t] = "idle"
  /\ Goto(t, "get")
  /\ cur' = [cur EXCEPT ![t] = r]
  /\ UNCHANGED <<node, tries, ok>>

\* Leave Execute.  A handler answers its caller; Run only logs a failure.
Return(t, good) ==
  /\ Goto(t, "idle")
  /\ cur' = [cur EXCEPT ![t] = NoReq]
  /\ node' = [node EXCEPT ![t] = NoConn]
  /\ tries' = [tries EXCEPT ![t] = 0]
  /\ ok' = [ok EXCEPT ![t] = FALSE]
  /\ outcome' = [outcome EXCEPT ![cur[t]] =
                   CASE t \in Reqs /\ good  -> "accepted"
                     [] t \in Reqs /\ ~good -> "rejected"
                     [] t \in Conns /\ good -> @
                     [] OTHER               -> "dropped"]

Call(r) ==
  /\ outcome[r] = "new"
  /\ Begin(r, r)
  /\ outcome' = [outcome EXCEPT ![r] = "calling"]
  /\ UNCHANGED <<connVars, runVars, mgrVars, settled>>

\* P2CBalancer.Add; every connection brings a fresh id.
P2CAdd(c) == lb' = lb \cup {c} /\ UNCHANGED inflight

\* P2CBalancer.Remove drops the node and its counters with it.
P2CRemove(c) ==
  /\ lb' = lb \ {c}
  /\ inflight' = [inflight EXCEPT ![c] = 0]

\* The nodes that choose may return: any node may win the comparison of two
\* loads (they are decayed floats, and an idle loser is forced).
Choices == lb

\* The node picked has one more request in flight.
Pick(c) == inflight' = [inflight EXCEPT ![c] = @ + 1]

\* P2CBalancer.Get, for GetClientByBalance.
Get(t) ==
  /\ pc[t] = "get"
  /\ \/ /\ lb = {}
        /\ Return(t, FALSE)
        /\ UNCHANGED inflight
     \/ \E c \in Choices :
        /\ Pick(c)
        /\ node' = [node EXCEPT ![t] = c]
        /\ Goto(t, "load")
        /\ UNCHANGED <<cur, tries, ok, outcome>>
  /\ UNCHANGED <<connVars, runVars, clients, pendKeys, pendingReqs, lb, settled>>

\* The end of an iteration of GetClientByBalance that found a dead node.
Retry(t) ==
  \/ /\ tries[t] + 1 < MaxRetry
     /\ tries' = [tries EXCEPT ![t] = @ + 1]
     /\ node' = [node EXCEPT ![t] = NoConn]
     /\ Goto(t, "get")
     /\ UNCHANGED <<cur, ok, outcome>>
  \/ /\ tries[t] + 1 = MaxRetry
     /\ Return(t, FALSE)

FaultyLoadSpins(t) ==
  /\ pc[t] = "load"
  /\ IF node[t] \notin clients \/ isClosed[node[t]]
     THEN /\ Goto(t, "get")
          /\ inflight' = [inflight EXCEPT ![node[t]] = @ - 1]
          /\ node' = [node EXCEPT ![t] = NoConn]
     ELSE Goto(t, "send") /\ UNCHANGED <<inflight, node>>
  /\ UNCHANGED <<connVars, runVars, clients, pendKeys, pendingReqs, lb, cur, tries, ok,
                 ghosts>>

\* clients.Load and IsClosed for the node picked.
Load(t) ==
  /\ pc[t] = "load"
  /\ \/ /\ node[t] \notin clients
        /\ P2CRemove(node[t])
        /\ Retry(t)
     \/ /\ node[t] \in clients
        /\ Goto(t, IF isClosed[node[t]] THEN "evict"
                   ELSE IF cur[t] \in SyncReqs THEN "sync" ELSE "send")
        /\ UNCHANGED <<lb, inflight, cur, node, tries, ok, outcome>>
  /\ UNCHANGED <<connVars, runVars, clients, pendKeys, pendingReqs, settled>>

FaultyEvictKeepsNode(t) ==
  /\ pc[t] = "evict"
  /\ clients' = clients \ {node[t]}
  /\ Retry(t)
  /\ UNCHANGED <<connVars, runVars, pendKeys, pendingReqs, lb, inflight, settled>>

\* RemoveClient of a node seen closed: Close has nothing left to do.
Evict(t) ==
  /\ pc[t] = "evict"
  /\ \/ /\ node[t] \in clients
        /\ clients' = clients \ {node[t]}
        /\ Goto(t, "evictLB")
        /\ UNCHANGED <<cur, node, tries, ok, outcome>>
     \/ /\ node[t] \notin clients
        /\ Retry(t)
        /\ UNCHANGED clients
  /\ UNCHANGED <<connVars, runVars, pendKeys, pendingReqs, lb, inflight, settled>>

EvictLB(t) ==
  /\ pc[t] = "evictLB"
  /\ P2CRemove(node[t])
  /\ Retry(t)
  /\ UNCHANGED <<connVars, runVars, clients, pendKeys, pendingReqs, settled>>

\* client.Send.  A write fails once the server has closed the connection;
\* on a broken one it may fail, or succeed into a buffer nobody will read.
Send(t) ==
  /\ pc[t] = "send"
  /\ Goto(t, "done")
  /\ \/ /\ tcp[node[t]] = "up"
        /\ down' = [down EXCEPT ![node[t]] = Append(@, cur[t])]
        /\ ok' = [ok EXCEPT ![t] = TRUE]
     \/ /\ tcp[node[t]] = "broken"
        /\ ok' = [ok EXCEPT ![t] = TRUE]
        /\ UNCHANGED down
     \/ /\ tcp[node[t]] # "up"
        /\ UNCHANGED <<down, ok>>
  /\ UNCHANGED <<tcp, isClosed, up, hbClosing, runVars, mgrVars, cur, node,
                 tries, ghosts>>

\* client.SendSync returns a result, a write error or a timeout (module
\* SyncCall has its inside).
SendSync(t) ==
  /\ pc[t] = "sync"
  /\ Goto(t, "done")
  /\ \E b \in BOOLEAN : ok' = [ok EXCEPT ![t] = b]
  /\ UNCHANGED <<connVars, runVars, mgrVars, cur, node, tries, ghosts>>

\* P2CBalancer.Done ignores a node that is no longer in the balancer.
P2CDone(c) ==
  inflight' = IF c \in lb THEN [inflight EXCEPT ![c] = @ - 1] ELSE inflight

FaultyDoneOnSuccess(t) ==
  /\ pc[t] = "done"
  /\ IF ok[t] THEN P2CDone(node[t]) ELSE UNCHANGED inflight
  /\ IF ok[t] /\ cur[t] \notin SyncReqs
     THEN Goto(t, "track") /\ UNCHANGED <<cur, node, tries, ok, outcome>>
     ELSE Return(t, ok[t])
  /\ UNCHANGED <<connVars, runVars, clients, pendKeys, pendingReqs, lb, settled>>

\* Done, and the early returns of Execute and ExecuteSync after it.
Done(t) ==
  /\ pc[t] = "done"
  /\ P2CDone(node[t])
  /\ IF ok[t] /\ cur[t] \notin SyncReqs
     THEN Goto(t, "track") /\ UNCHANGED <<cur, node, tries, ok, outcome>>
     ELSE Return(t, ok[t])
  /\ UNCHANGED <<connVars, runVars, clients, pendKeys, pendingReqs, lb, settled>>

\* TrackRequest: silently nothing when the client's entry is gone.
Track(t) ==
  /\ pc[t] = "track"
  /\ pendingReqs' = IF node[t] \in pendKeys
                    THEN [pendingReqs EXCEPT ![node[t]] = @ \cup {cur[t]}]
                    ELSE pendingReqs
  /\ Return(t, TRUE)
  /\ UNCHANGED <<connVars, runVars, clients, pendKeys, lb, inflight, settled>>
-----------------------------------------------------------------------------
(* Run(c), the life of a connection on the server.                         *)

\* Upgrade, NewClient, SetAckHandler, AddClient, HeartBeat.  Nobody can pick
\* c before the last of the three stores, so they are one step.
AddClient(c) ==
  /\ run[c] = "none"
  /\ tcp' = [tcp EXCEPT ![c] = "up"]
  /\ clients' = clients \cup {c}
  /\ pendKeys' = pendKeys \cup {c}
  /\ P2CAdd(c)
  /\ run' = [run EXCEPT ![c] = "read"]
  /\ UNCHANGED <<isClosed, down, up, hbClosing, queue, pendingReqs, exVars, ghosts>>

FaultyAckKept(c, r) ==
  pendingReqs' = pendingReqs

AcknowledgeRequest(c, r) ==
  pendingReqs' = IF c \in pendKeys THEN [pendingReqs EXCEPT ![c] = @ \ {r}]
                 ELSE pendingReqs

\* Read an ACK: the handler set by Run acknowledges the request.
ReadAck(c) ==
  /\ run[c] = "read"
  /\ up[c] # <<>>
  /\ up' = [up EXCEPT ![c] = Tail(@)]
  /\ AcknowledgeRequest(c, Head(up[c]))
  /\ settled' = settled \cup ({Head(up[c])} \cap pendingReqs[c])
  /\ UNCHANGED <<tcp, isClosed, down, hbClosing, runVars, clients, pendKeys,
                 lb, inflight, exVars, outcome>>

FaultyDrainKeeps(c) ==
  /\ queue' = [queue EXCEPT ![c] = pendingReqs[c]]
  /\ UNCHANGED <<pendKeys, pendingReqs>>

\* LoadAndDelete of the entry of c; its requests go to Run.
DrainPending(c) ==
  /\ queue' = [queue EXCEPT ![c] = IF c \in pendKeys THEN pendingReqs[c] ELSE {}]
  /\ pendKeys' = pendKeys \ {c}
  /\ pendingReqs' = [pendingReqs EXCEPT ![c] = {}]

FaultyNoDrain(c) ==
  /\ run[c] = "read"
  /\ run' = [run EXCEPT ![c] = "remove"]
  /\ UNCHANGED <<connVars, queue, mgrVars, exVars, ghosts>>

FaultyReadErrorContinues(c) ==
  /\ run[c] = "read"
  /\ DrainPending(c)
  /\ UNCHANGED <<connVars, run, clients, lb, inflight, exVars, ghosts>>

\* Read fails: the peer is gone, the server closed the connection, or the
\* read deadline passed on a connection that is still up.
ReadError(c) ==
  /\ run[c] = "read"
  /\ DrainPending(c)
  /\ run' = [run EXCEPT ![c] = "redispatch"]
  /\ UNCHANGED <<connVars, clients, lb, inflight, exVars, ghosts>>

FaultyRedispatchRepeats(c) ==
  /\ run[c] = "redispatch"
  /\ \E r \in queue[c] : Begin(c, r)
  /\ UNCHANGED <<connVars, runVars, mgrVars, ghosts>>

\* The loop over the drained requests; the order is a Go map's.
Redispatch(c) ==
  /\ run[c] = "redispatch"
  /\ \E r \in queue[c] :
       /\ Begin(c, r)
       /\ queue' = [queue EXCEPT ![c] = @ \ {r}]
  /\ UNCHANGED <<connVars, run, mgrVars, ghosts>>

RedispatchEnd(c) ==
  /\ run[c] = "redispatch"
  /\ queue[c] = {}
  /\ pc[c] = "idle"
  /\ run' = [run EXCEPT ![c] = "remove"]
  /\ UNCHANGED <<connVars, queue, mgrVars, exVars, ghosts>>

\* What a connection still carries is lost when it ends.  (Anything the
\* other side got out of it in time, it got before this step.)
Shut(c, how) ==
  /\ tcp' = [tcp EXCEPT ![c] = how]
  /\ down' = [down EXCEPT ![c] = <<>>]
  /\ up' = IF how = "closed" THEN [up EXCEPT ![c] = <<>>] ELSE up

\* The deferred RemoveClient: GetClientById, the test in Close and, when
\* there is nothing to close, clients.Delete.
RemoveClient(c) ==
  /\ run[c] = "remove"
  /\ run' = [run EXCEPT ![c] = IF c \notin clients THEN "end"
                               ELSE IF isClosed[c] THEN "lbRemove" ELSE "closeConn"]
  /\ clients' = IF isClosed[c] THEN clients \ {c} ELSE clients
  /\ UNCHANGED <<connVars, queue, pendKeys, pendingReqs, lb, inflight, exVars, ghosts>>

\* The rest of Close.  conn.Close fails on a connection already closed, and
\* RemoveClient then returns without touching the maps.
RunCloseConn(c) ==
  /\ run[c] = "closeConn"
  /\ isClosed' = [isClosed EXCEPT ![c] = TRUE]
  /\ Shut(c, "closed")
  /\ \/ /\ tcp[c] = "closed"
        /\ run' = [run EXCEPT ![c] = "end"]
        /\ UNCHANGED clients
     \/ /\ tcp[c] # "closed"
        /\ run' = [run EXCEPT ![c] = "lbRemove"]
        /\ clients' = clients \ {c}
  /\ UNCHANGED <<hbClosing, queue, pendKeys, pendingReqs, lb, inflight, exVars, ghosts>>

RunLBRemove(c) ==
  /\ run[c] = "lbRemove"
  /\ P2CRemove(c)
  /\ run' = [run EXCEPT ![c] = "end"]
  /\ UNCHANGED <<connVars, queue, clients, pendKeys, pendingReqs, exVars, ghosts>>
-----------------------------------------------------------------------------
(* The heartbeat goroutine of c, and the ping handler, whose failure takes *)
(* the same Close.  Once isClosed is set the goroutine has nothing to do   *)
(* but return.                                                             *)

\* A ping fails while isClosed still reads FALSE: Close has passed its test
\* and is about to set isClosed and close the connection.
PingFail(c) ==
  /\ run[c] # "none"
  /\ ~isClosed[c]
  /\ ~hbClosing[c]
  /\ hbClosing' = [hbClosing EXCEPT ![c] = TRUE]
  /\ UNCHANGED <<tcp, isClosed, down, up, runVars, mgrVars, exVars, ghosts>>

HbCloseConn(c) ==
  /\ hbClosing[c]
  /\ isClosed' = [isClosed EXCEPT ![c] = TRUE]
  /\ Shut(c, "closed")
  /\ hbClosing' = [hbClosing EXCEPT ![c] = FALSE]
  /\ UNCHANGED <<runVars, mgrVars, exVars, ghosts>>
-----------------------------------------------------------------------------
(* The other end of the connection, as the server can observe it.          *)

\* The worker reads a request and writes the ACK before it runs it.
WorkerRecv(c) ==
  /\ down[c] # <<>>
  /\ down' = [down EXCEPT ![c] = Tail(@)]
  /\ up' = [up EXCEPT ![c] = Append(@, Head(down[c]))]
  /\ UNCHANGED <<tcp, isClosed, hbClosing, runVars, mgrVars, exVars, ghosts>>

\* The network or the worker drops the connection.  ACKs that have reached
\* the server may still be read.
Disconnect(c) ==
  /\ tcp[c] = "up"
  /\ Shut(c, "broken")
  /\ UNCHANGED <<isClosed, hbClosing, runVars, mgrVars, exVars, ghosts>>
-----------------------------------------------------------------------------
ExecuteStep(t) ==
  \/ Get(t) \/ Load(t) \/ Evict(t) \/ EvictLB(t)
  \/ Send(t) \/ SendSync(t) \/ Done(t) \/ Track(t)

RunExit(c) ==
  \/ Redispatch(c) \/ RedispatchEnd(c) \/ RemoveClient(c)
  \/ RunCloseConn(c) \/ RunLBRemove(c)

ServerStep(c) ==
  \/ AddClient(c) \/ ReadAck(c) \/ ReadError(c) \/ RunExit(c)
  \/ PingFail(c) \/ HbCloseConn(c)

Next ==
  \/ \E r \in Reqs : Call(r)
  \/ \E t \in Threads : ExecuteStep(t)
  \/ \E c \in Conns : ServerStep(c) \/ WorkerRecv(c) \/ Disconnect(c)

Spec == Init /\ [][Next]_vars

\* Goroutines that can run do run.  Read returns from a dead connection (the
\* kernel reports it, or the read deadline passes); neither a caller, nor a
\* new connection, nor a failure is ever obliged to happen.
Fairness ==
  /\ \A t \in Threads : WF_vars(ExecuteStep(t))
  /\ \A c \in Conns : /\ WF_vars(RunExit(c))
                      /\ WF_vars(tcp[c] # "up" /\ ReadError(c))
                      /\ WF_vars(HbCloseConn(c))
-----------------------------------------------------------------------------
(* What the dispatcher keeps to.                                           *)

\* Where the server holds request r: in a call of Execute, in the requests
\* tracked for a client, or in what Run drained and has yet to redispatch.
Custody(r) ==
  {<<"call", t>> : t \in {u \in Threads : pc[u] # "idle" /\ cur[u] = r}}
    \cup {<<"pending", c>> : c \in {d \in Conns : r \in pendingReqs[d]}}
    \cup {<<"queue", c>> : c \in {d \in Conns : r \in queue[d]}}

\* However disconnects, late ACKs and redispatches interleave, the server
\* holds a request in at most one place: a redispatch (Run, DrainPending)
\* never forks a request into two concurrent deliveries.
SingleCustodian ==
  \A r \in Reqs : \A x, y \in Custody(r) : x = y

\* A request that an ACK has taken out of pendingReqs is never dispatched
\* again, whatever becomes of the connection it was acknowledged on, of other
\* ACKs and of drains that come late: no second execution, and none either when
\* the worker has crashed meanwhile (Delivery!AckedCrashResent).  An ACK that is
\* read before TrackRequest takes nothing out, and its request is not settled.
SettledNotResent ==
  \A r \in settled : Custody(r) = {}

\* The stage of request r in the abstract life cycle.
LifeOf(r) ==
  CASE outcome[r] = "new"                                    -> "new"
    [] \E t \in Threads : pc[t] # "idle" /\ cur[t] = r       -> "held"
    [] \E c \in Conns : r \in queue[c]                        -> "drained"
    [] \E c \in Conns : r \in pendingReqs[c]                  -> "tracked"
    [] OTHER                                                 -> "over"

Life == INSTANCE RequestLife WITH life <- [r \in Reqs |-> LifeOf(r)]

\* Dispatch implements RequestLife: with all its goroutines, retries and
\* failures, a request is only ever in one call, and one whose life is over
\* (acknowledged, rejected, dropped) never enters another.
ImplementsRequestLife == Life!LifeSpec

\* Thread t has been given node c by Get and has not called Done yet.
HoldsPick(t, c) ==
  node[t] = c /\ pc[t] \in {"load", "send", "sync", "done"}

\* The load P2C compares is right: the inflight counter of every live node
\* of the balancer is the number of calls between Get and Done on it, with
\* retries, failed sends and evictions of other nodes going on.
InflightExact ==
  \A c \in lb : ~isClosed[c] =>
    inflight[c] = Cardinality({t \in Threads : HoldsPick(t, c)})

\* The two registries of RemoveClient and AddClient agree: a client that is
\* known can be picked, and a node whose client is gone stays in the
\* balancer only while some goroutine is on its way to remove it.
RegistriesAgree ==
  /\ clients \subseteq lb
  /\ \A c \in lb \ clients :
       \/ run[c] = "lbRemove"
       \/ \E t \in Threads : pc[t] = "evictLB" /\ node[t] = c

\* When Run(c) has returned nothing can be dispatched to c any more: its
\* pending entry is gone, and if the balancer still has the node then
\* GetClientByBalance will see it closed and skip it.
ExitedRunUnusable ==
  \A c \in Conns : run[c] = "end" =>
    /\ c \notin pendKeys /\ pendingReqs[c] = {} /\ queue[c] = {}
    /\ c \in lb => isClosed[c]

\* Every call of Execute and ExecuteSync returns: the retry loop of
\* GetClientByBalance is bounded, and redispatch cannot chase its own tail.
EveryCallReturns ==
  \A t \in Threads : pc[t] # "idle" ~> pc[t] = "idle"

\* A connection that died is reaped: Run drains it, redispatches and exits.
DeadConnReaped ==
  \A c \in Conns : tcp[c] \in {"broken", "closed"} ~> run[c] = "end"
=============================================================================
