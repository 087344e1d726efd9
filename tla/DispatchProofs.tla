--------------------------- MODULE DispatchProofs ---------------------------
(***************************************************************************)
(* Proofs about Dispatch, and about Delivery, which puts the workers at    *)
(* the other end of it, for any number of connections and requests.        *)
(*                                                                         *)
(* TypeOK is not inductive by itself: that a step of Execute may write     *)
(* node[t] and cur[t] to shared state depends on where the thread is: that *)
(* is Shape.  SingleCustodian needs more than that the places of a         *)
(* request are distinct: that a request nobody has called is nowhere       *)
(* (NewOut), that an acknowledged one is nowhere (SettledOut), and that    *)
(* what is tracked is tracked under a key that still exists (KeysKept), or *)
(* an ACK would settle a request and leave it pending.  RegistriesAgree    *)
(* and ExitedRunUnusable need that a connection is unknown to everybody    *)
(* before AddClient (Fresh), that a removal which has left clients is      *)
(* finished only for a node that is still out of clients (Removing), and   *)
(* that GetClientByBalance evicts only what it has seen closed             *)
(* (SeenClosed).  With these, Dispatch implements RequestLife.             *)
(*                                                                         *)
(* RerunCostsConnection of Delivery bounds how often workers start a       *)
(* request, but what a request can still cost is spread over the           *)
(* dispatcher: it may be about to be sent (Due), or lie in connections,    *)
(* unread (Copies).  The invariant counts all three together, against the  *)
(* connections whose Read has failed (Lost): only their DrainPending makes *)
(* a request that was sent due again, and each drains once.                *)
(***************************************************************************)
EXTENDS Delivery, FiniteSetTheorems, TLAPS

\* What the locals of Execute say at each point of it.
Shape ==
  \A t \in Threads :
    /\ pc[t] = "idle" => cur[t] = NoReq
    /\ pc[t] # "idle" => cur[t] \in Reqs
    /\ pc[t] \in {"load", "evict", "evictLB", "send", "sync", "done", "track"}
         => node[t] \in Conns

TypeInv == TypeOK /\ Shape

\* Nobody holds r.
Out(r) ==
  /\ \A t \in Threads : cur[t] # r
  /\ \A c \in Conns : r \notin pendingReqs[c] /\ r \notin queue[c]

CalledOnce ==
  \A t, u \in Threads : cur[t] # NoReq /\ cur[t] = cur[u] => t = u

HeldOnce ==
  \A r \in Reqs : \A c, d \in Conns :
    /\ r \in pendingReqs[c] /\ r \in pendingReqs[d] => c = d
    /\ r \in queue[c] /\ r \in queue[d] => c = d
    /\ ~ (r \in pendingReqs[c] /\ r \in queue[d])

CalledNotHeld ==
  \A t \in Threads : \A c \in Conns :
    cur[t] \notin pendingReqs[c] /\ cur[t] \notin queue[c]

SettledOut == \A r \in settled : Out(r)

NewOut == \A r \in Reqs : outcome[r] = "new" => Out(r) /\ r \notin settled

KeysKept == \A c \in Conns : pendingReqs[c] # {} => c \in pendKeys

CustodyInv ==
  /\ CalledOnce
  /\ HeldOnce
  /\ CalledNotHeld
  /\ SettledOut
  /\ NewOut
  /\ KeysKept
-----------------------------------------------------------------------------
(* Types.                                                                  *)

\* An assignment to one element of an array of Booleans.
LEMMA BooleanUpdate ==
  ASSUME NEW S, NEW f \in [S -> BOOLEAN], NEW x, NEW b \in BOOLEAN
  PROVE  [f EXCEPT ![x] = b] \in [S -> BOOLEAN]
  OBVIOUS

LEMMA IntUpdate ==
  ASSUME NEW S, NEW f \in [S -> Int], NEW x, NEW i \in Int
  PROVE  [f EXCEPT ![x] = i] \in [S -> Int]
  OBVIOUS

\* A message enters or leaves one of an array of queues.
LEMMA QueueUpdate ==
  ASSUME NEW S, NEW R, NEW f \in [S -> Seq(R)], NEW x \in S
  PROVE  /\ \A r \in R : [f EXCEPT ![x] = Append(@, r)] \in [S -> Seq(R)]
         /\ f[x] # <<>> => /\ [f EXCEPT ![x] = Tail(@)] \in [S -> Seq(R)]
                           /\ Head(f[x]) \in R
         /\ [f EXCEPT ![x] = <<>>] \in [S -> Seq(R)]
  <1>1. f[x] \in Seq(R)
    OBVIOUS
  <1>2. \A r \in R : Append(f[x], r) \in Seq(R)
    BY <1>1
  <1>3. f[x] # <<>> => Tail(f[x]) \in Seq(R) /\ Head(f[x]) \in R
    BY <1>1
  <1>4. <<>> \in Seq(R)
    OBVIOUS
  <1>5. \A q \in Seq(R) : [f EXCEPT ![x] = q] \in [S -> Seq(R)]
    OBVIOUS
  <1>6. QED
    BY <1>2, <1>3, <1>4, <1>5, Zenon

LEMMA TypeInit == Init => TypeInv
  <1> SUFFICES ASSUME Init PROVE TypeInv
    OBVIOUS
  <1> USE DispatchAssumption DEF Init
  <1>1. /\ isClosed \in [Conns -> BOOLEAN]
        /\ hbClosing \in [Conns -> BOOLEAN]
        /\ ok \in [Threads -> BOOLEAN]
    OBVIOUS
  <1>2. /\ down \in [Conns -> Seq(Reqs)]
        /\ up \in [Conns -> Seq(Reqs)]
        /\ inflight \in [Conns -> Int]
        /\ tries \in [Threads -> 0..(MaxRetry - 1)]
    OBVIOUS
  <1>3. TypeOK
    BY <1>1, <1>2 DEF TypeOK
  <1>4. Shape
    BY DEF Shape
  <1>5. QED
    BY <1>3, <1>4 DEF TypeInv

\* The locals of Execute, as its exits and its retry leave them.
LocalsOK ==
  /\ pc \in [Threads -> {"idle", "get", "load", "evict", "evictLB", "send",
                         "sync", "done", "track"}]
  /\ cur \in [Threads -> Reqs \cup {NoReq}]
  /\ node \in [Threads -> Conns \cup {NoConn}]
  /\ tries \in [Threads -> 0..(MaxRetry - 1)]
  /\ ok \in [Threads -> BOOLEAN]
  /\ outcome \in [Reqs -> {"new", "calling", "accepted", "rejected", "dropped"}]
  /\ Shape

\* Leaving Execute keeps its locals in shape.
LEMMA ReturnLocals ==
  ASSUME LocalsOK, NEW t \in Threads, pc[t] # "idle",
         NEW good \in BOOLEAN, Return(t, good)
  PROVE  LocalsOK'
  <1> USE DispatchAssumption DEF LocalsOK
  <1>1. ok' \in [Threads -> BOOLEAN]
    BY BooleanUpdate DEF Return
  <1>2. cur[t] \in Reqs
    BY DEF Shape
  <1>3. outcome' \in [Reqs -> {"new", "calling", "accepted", "rejected", "dropped"}]
    BY <1>2 DEF Return, Threads
  <1>4. tries' \in [Threads -> 0..(MaxRetry - 1)]
    BY DEF Return
  <1>5. /\ pc' \in [Threads -> {"idle", "get", "load", "evict", "evictLB", "send",
                                "sync", "done", "track"}]
        /\ cur' \in [Threads -> Reqs \cup {NoReq}]
        /\ node' \in [Threads -> Conns \cup {NoConn}]
    BY DEF Return, Goto
  <1>6. Shape'
    BY DEF Return, Goto, Shape
  <1>7. QED
    BY <1>1, <1>3, <1>4, <1>5, <1>6

\* So does the next round of GetClientByBalance.
LEMMA RetryLocals ==
  ASSUME LocalsOK, NEW t \in Threads, pc[t] # "idle", Retry(t)
  PROVE  LocalsOK'
  <1>1. CASE Return(t, FALSE)
    BY <1>1, ReturnLocals
  <1>2. CASE ~ Return(t, FALSE)
    <2> USE DispatchAssumption DEF LocalsOK
    <2>0. tries[t] + 1 < MaxRetry /\ tries' = [tries EXCEPT ![t] = @ + 1]
      BY <1>2 DEF Retry
    <2>1. tries' \in [Threads -> 0..(MaxRetry - 1)]
      BY <2>0
    <2>2. Shape'
      BY <1>2 DEF Retry, Goto, Shape
    <2>3. QED
      BY <1>2, <2>1, <2>2 DEF Retry, Goto
  <1>3. QED
    BY <1>1, <1>2

\* Every step of a call of Execute keeps the types.
LEMMA ExecuteTypes ==
  ASSUME TypeInv, NEW t \in Threads, ExecuteStep(t)
  PROVE  TypeInv'
  <1> USE DispatchAssumption DEF connVars, runVars, mgrVars, exVars, ghosts
  <1>l. LocalsOK
    BY DEF TypeInv, TypeOK, LocalsOK
  <1>n. pc[t] \in {"load", "evict", "evictLB", "send", "sync", "done", "track"}
          => node[t] \in Conns
    BY DEF TypeInv, Shape
  <1>1. CASE Get(t)
    <2>1. LocalsOK'
      <3>1. CASE lb = {}
        BY <1>1, <1>l, <3>1, ReturnLocals DEF Get, Choices, Pick
      <3>2. CASE lb # {}
        <4>1. PICK c \in lb :
                /\ node' = [node EXCEPT ![t] = c]
                /\ Goto(t, "load")
                /\ UNCHANGED <<cur, tries, ok, outcome>>
          BY <1>1, <3>2 DEF Get, Choices, Pick
        <4>2. c \in Conns /\ pc[t] = "get"
          BY <1>1 DEF Get, Choices, Pick, TypeInv, TypeOK
        <4>3. QED
          BY <1>l, <4>1, <4>2 DEF LocalsOK, Shape, Goto
      <3>3. QED
        BY <3>1, <3>2
    <2>2. inflight' \in [Conns -> Int]
      <3>1. inflight \in [Conns -> Int]
        BY DEF TypeInv, TypeOK
      <3>2. \/ inflight' = inflight
            \/ \E c \in lb : inflight' = [inflight EXCEPT ![c] = @ + 1]
        BY <1>1 DEF Get, Choices, Pick
      <3>3. QED
        BY <3>1, <3>2
    <2>3. QED
      BY <1>1, <2>1, <2>2 DEF Get, Choices, Pick, TypeInv, TypeOK, LocalsOK
  <1>2. CASE Load(t)
    <2>1. LocalsOK'
      <3>1. CASE node[t] \notin clients
        BY <1>2, <1>l, <3>1, RetryLocals DEF Load
      <3>2. CASE node[t] \in clients
        BY <1>2, <1>l, <3>2 DEF Load, LocalsOK, Shape, Goto
      <3>3. QED
        BY <3>1, <3>2
    <2>2. inflight' \in [Conns -> Int] /\ lb' \subseteq Conns
      BY <1>2 DEF Load, P2CRemove, TypeInv, TypeOK
    <2>3. QED
      BY <1>2, <2>1, <2>2 DEF Load, TypeInv, TypeOK, LocalsOK
  <1>3. CASE Evict(t)
    <2>1. LocalsOK'
      <3>1. CASE node[t] \in clients
        BY <1>3, <1>l, <3>1 DEF Evict, LocalsOK, Shape, Goto
      <3>2. CASE node[t] \notin clients
        BY <1>3, <1>l, <3>2, RetryLocals DEF Evict
      <3>3. QED
        BY <3>1, <3>2
    <2>2. clients' \subseteq Conns
      BY <1>3 DEF Evict, TypeInv, TypeOK
    <2>3. QED
      BY <1>3, <2>1, <2>2 DEF Evict, TypeInv, TypeOK, LocalsOK
  <1>4. CASE EvictLB(t)
    <2>1. LocalsOK'
      BY <1>4, <1>l, RetryLocals DEF EvictLB
    <2>2. inflight' \in [Conns -> Int] /\ lb' \subseteq Conns
      <3>1. inflight \in [Conns -> Int] /\ lb \subseteq Conns
        BY DEF TypeInv, TypeOK
      <3>2. /\ lb' = lb \ {node[t]}
            /\ inflight' = [inflight EXCEPT ![node[t]] = 0]
        BY <1>4 DEF EvictLB, P2CRemove
      <3>3. [inflight EXCEPT ![node[t]] = 0] \in [Conns -> Int]
        BY <3>1, IntUpdate
      <3>4. QED
        BY <3>1, <3>2, <3>3
    <2>3. QED
      BY <1>4, <2>1, <2>2 DEF EvictLB, TypeInv, TypeOK, LocalsOK
  <1>5. CASE Send(t)
    <2>1. cur[t] \in Reqs
      BY <1>5 DEF Send, TypeInv, Shape
    <2>2. ok' \in [Threads -> BOOLEAN]
      BY <1>5, BooleanUpdate DEF Send, TypeInv, TypeOK
    <2>3. down' \in [Conns -> Seq(Reqs)]
      <3>1. down \in [Conns -> Seq(Reqs)]
        BY DEF TypeInv, TypeOK
      <3>2. \/ down' = down
            \/ down' = [down EXCEPT ![node[t]] = Append(@, cur[t])]
        BY <1>5 DEF Send
      <3>3. node[t] \in Conns
        BY <1>5, <1>n DEF Send
      <3>4. [down EXCEPT ![node[t]] = Append(@, cur[t])] \in [Conns -> Seq(Reqs)]
        BY <2>1, <3>1, <3>3, QueueUpdate
      <3>5. QED
        BY <3>1, <3>2, <3>4
    <2>4. Shape'
      BY <1>5, <1>n DEF Send, Goto, TypeInv, TypeOK, Shape
    <2>5. QED
      BY <1>5, <2>2, <2>3, <2>4 DEF Send, Goto, TypeInv, TypeOK
  <1>6. CASE SendSync(t)
    <2>1. ok' \in [Threads -> BOOLEAN]
      BY <1>6, BooleanUpdate DEF SendSync, TypeInv, TypeOK
    <2>2. Shape'
      BY <1>6, <1>n DEF SendSync, Goto, TypeInv, TypeOK, Shape
    <2>3. QED
      BY <1>6, <2>1, <2>2 DEF SendSync, Goto, TypeInv, TypeOK
  <1>7. CASE Done(t)
    <2>1. LocalsOK'
      <3>1. CASE ok[t] /\ cur[t] \notin SyncReqs
        BY <1>7, <1>l, <3>1 DEF Done, LocalsOK, Shape, Goto
      <3>2. CASE ~ (ok[t] /\ cur[t] \notin SyncReqs)
        <4>1. ok[t] \in BOOLEAN
          BY <1>l DEF LocalsOK
        <4>2. Return(t, ok[t]) /\ pc[t] # "idle"
          BY <1>7, <3>2 DEF Done
        <4>3. QED
          BY <1>l, <4>1, <4>2, ReturnLocals
      <3>3. QED
        BY <3>1, <3>2
    <2>2. inflight' \in [Conns -> Int]
      BY <1>7 DEF Done, P2CDone, TypeInv, TypeOK
    <2>3. QED
      BY <1>7, <2>1, <2>2 DEF Done, TypeInv, TypeOK, LocalsOK
  <1>8. CASE Track(t)
    <2>1. LocalsOK'
      BY <1>8, <1>l, ReturnLocals DEF Track
    <2>2. cur[t] \in Reqs
      BY <1>8 DEF Track, TypeInv, Shape
    <2>3. pendingReqs' \in [Conns -> SUBSET Reqs]
      BY <1>8, <2>2 DEF Track, TypeInv, TypeOK
    <2>4. QED
      BY <1>8, <2>1, <2>3 DEF Track, TypeInv, TypeOK, LocalsOK
  <1>9. QED
    BY <1>1, <1>2, <1>3, <1>4, <1>5, <1>6, <1>7, <1>8 DEF ExecuteStep

\* Every step of Run, of the heartbeat and of the other end keeps them too.
LEMMA ConnTypes ==
  ASSUME TypeInv, NEW c \in Conns,
         ServerStep(c) \/ WorkerRecv(c) \/ Disconnect(c)
  PROVE  TypeInv'
  <1> USE DispatchAssumption
      DEF connVars, runVars, mgrVars, exVars, ghosts, TypeInv, TypeOK, Shape
  <1>1. CASE AddClient(c)
    BY <1>1 DEF AddClient, P2CAdd
  <1>2. CASE ReadAck(c)
    <2>1. Head(up[c]) \in Reqs /\ up' \in [Conns -> Seq(Reqs)]
      BY <1>2, QueueUpdate DEF ReadAck
    <2>2. pendingReqs' \in [Conns -> SUBSET Reqs] /\ settled' \subseteq Reqs
      BY <1>2, <2>1 DEF ReadAck, AcknowledgeRequest
    <2>3. QED
      BY <1>2, <2>1, <2>2 DEF ReadAck
  <1>3. CASE ReadError(c)
    BY <1>3 DEF ReadError, DrainPending
  <1>4. CASE Redispatch(c)
    <2>1. PICK r \in queue[c] : /\ Begin(c, r)
                                /\ queue' = [queue EXCEPT ![c] = @ \ {r}]
      BY <1>4 DEF Redispatch
    <2>2. r \in Reqs /\ c \in Threads
      BY DEF Threads
    <2>3. QED
      BY <1>4, <2>1, <2>2 DEF Redispatch, Begin, Goto
  <1>5. CASE RedispatchEnd(c)
    BY <1>5 DEF RedispatchEnd
  <1>6. CASE RemoveClient(c)
    BY <1>6 DEF RemoveClient
  <1>7. CASE RunCloseConn(c)
    <2>1. /\ isClosed' \in [Conns -> BOOLEAN]
          /\ tcp' \in [Conns -> {"none", "up", "broken", "closed"}]
      BY <1>7, BooleanUpdate DEF RunCloseConn, Shut
    <2>2. down' \in [Conns -> Seq(Reqs)] /\ up' \in [Conns -> Seq(Reqs)]
      BY <1>7, QueueUpdate DEF RunCloseConn, Shut
    <2>3. QED
      BY <1>7, <2>1, <2>2 DEF RunCloseConn
  <1>8. CASE RunLBRemove(c)
    BY <1>8, IntUpdate DEF RunLBRemove, P2CRemove
  <1>9. CASE PingFail(c)
    BY <1>9, BooleanUpdate DEF PingFail
  <1>10. CASE HbCloseConn(c)
    <2>1. /\ isClosed' \in [Conns -> BOOLEAN]
          /\ hbClosing' \in [Conns -> BOOLEAN]
          /\ tcp' \in [Conns -> {"none", "up", "broken", "closed"}]
      BY <1>10, BooleanUpdate DEF HbCloseConn, Shut
    <2>2. down' \in [Conns -> Seq(Reqs)] /\ up' \in [Conns -> Seq(Reqs)]
      BY <1>10, QueueUpdate DEF HbCloseConn, Shut
    <2>3. QED
      BY <1>10, <2>1, <2>2 DEF HbCloseConn
  <1>11. CASE WorkerRecv(c)
    <2>1. Head(down[c]) \in Reqs /\ down' \in [Conns -> Seq(Reqs)]
      BY <1>11, QueueUpdate DEF WorkerRecv
    <2>2. up' \in [Conns -> Seq(Reqs)]
      BY <1>11, <2>1, QueueUpdate DEF WorkerRecv
    <2>3. QED
      BY <1>11, <2>1, <2>2 DEF WorkerRecv
  <1>12. CASE Disconnect(c)
    <2>1. /\ tcp' \in [Conns -> {"none", "up", "broken", "closed"}]
          /\ down' \in [Conns -> Seq(Reqs)] /\ up' = up
      BY <1>12, QueueUpdate DEF Disconnect, Shut
    <2>2. QED
      BY <1>12, <2>1 DEF Disconnect
  <1>13. QED
    BY <1>1, <1>2, <1>3, <1>4, <1>5, <1>6, <1>7, <1>8, <1>9, <1>10, <1>11, <1>12
    DEF ServerStep, RunExit

LEMMA TypeNext == TypeInv /\ [Next]_vars => TypeInv'
  <1> SUFFICES ASSUME TypeInv, [Next]_vars PROVE TypeInv'
    OBVIOUS
  <1>1. CASE \E r \in Reqs : Call(r)
    <2>1. PICK r \in Reqs : Call(r)
      BY <1>1
    <2>2. r \in Threads
      BY DEF Threads
    <2>3. QED
      BY <2>1, <2>2 DEF Call, Begin, Goto, TypeInv, TypeOK, Shape,
         connVars, runVars, mgrVars
  <1>2. CASE \E t \in Threads : ExecuteStep(t)
    BY <1>2, ExecuteTypes
  <1>3. CASE \E c \in Conns : ServerStep(c) \/ WorkerRecv(c) \/ Disconnect(c)
    BY <1>3, ConnTypes
  <1>4. CASE UNCHANGED vars
    BY <1>4 DEF vars, connVars, runVars, mgrVars, exVars, ghosts, TypeInv, TypeOK, Shape
  <1>5. QED
    BY <1>1, <1>2, <1>3, <1>4 DEF Next

LEMMA TypeInvariant == Spec => []TypeInv
  BY TypeInit, TypeNext, PTL DEF Spec

\* All the state of the dispatcher keeps its type: no call of Execute uses a
\* node or a request it does not have, and the retry counter of
\* GetClientByBalance stays below maxRetryPickClient.
THEOREM DispatchTypeCorrect == Spec => []TypeOK
  <1>1. TypeInv => TypeOK
    BY DEF TypeInv
  <1>2. QED
    BY TypeInvariant, <1>1, PTL
-----------------------------------------------------------------------------
(* Custody.  A step of the dispatcher leaves the places of all requests    *)
(* alone, takes one request out of a call, or moves requests from one      *)
(* place to the next; one lemma for each way of moving.                    *)

custodyVars == <<cur, pendingReqs, queue, settled, outcome>>

\* Requests do not move, and no key of pendingReqs goes away.
LEMMA StayCustody ==
  ASSUME CustodyInv, UNCHANGED custodyVars, pendKeys \subseteq pendKeys'
  PROVE  CustodyInv'
  BY DEF custodyVars, CustodyInv, CalledOnce, HeldOnce, CalledNotHeld, SettledOut,
         NewOut, KeysKept, Out

\* A call of Execute ends and the request is in no call any more.
LEMMA ReturnCustody ==
  ASSUME TypeInv, CustodyInv, NEW t \in Threads, pc[t] # "idle",
         NEW good \in BOOLEAN, Return(t, good),
         UNCHANGED <<pendingReqs, queue, settled, pendKeys>>
  PROVE  CustodyInv'
  <1> USE DispatchAssumption DEF TypeInv, TypeOK, CustodyInv
  <1>1. /\ cur[t] \in Reqs
        /\ cur' = [cur EXCEPT ![t] = NoReq]
        /\ \A r \in Reqs : r # cur[t] => outcome'[r] = outcome[r]
    BY DEF Return, Shape
  <1>2. outcome'[cur[t]] # "new"
    <2>1. outcome[cur[t]] # "new"
      BY <1>1 DEF NewOut, Out
    <2>2. QED
      BY <1>1, <2>1 DEF Return, Threads
  <1>3. CalledOnce' /\ HeldOnce' /\ KeysKept'
    BY <1>1 DEF CalledOnce, HeldOnce, KeysKept
  <1>4. CalledNotHeld'
    BY <1>1 DEF CalledNotHeld
  <1>5. \A r \in Reqs : Out(r) => Out(r)'
    BY <1>1 DEF Out
  <1>6. SettledOut' /\ NewOut'
    BY <1>1, <1>2, <1>5 DEF SettledOut, NewOut
  <1>7. QED
    BY <1>3, <1>4, <1>6

\* A call of Execute begins with a request that was held by nobody, or that
\* Run takes out of its own queue.
LEMMA BeginCustody ==
  ASSUME TypeInv, CustodyInv, NEW t \in Threads, NEW r \in Reqs, Begin(t, r),
         outcome'[r] # "new", \A q \in Reqs : q # r => outcome'[q] = outcome[q],
         r \notin settled, UNCHANGED <<pendingReqs, settled, pendKeys>>,
         \/ Out(r) /\ queue' = queue
         \/ \E c \in Conns : /\ r \in queue[c]
                             /\ queue' = [queue EXCEPT ![c] = @ \ {r}]
  PROVE  CustodyInv'
  <1> USE DispatchAssumption DEF TypeInv, TypeOK, CustodyInv
  <1>1. cur[t] = NoReq /\ cur' = [cur EXCEPT ![t] = r]
    BY DEF Begin, Shape
  <1>2. \A u \in Threads : cur[u] # r
    BY DEF Out, CalledNotHeld
  <1>3. \A c \in Conns : r \notin pendingReqs[c] /\ r \notin queue'[c]
    <2>1. CASE Out(r) /\ queue' = queue
      BY <2>1 DEF Out
    <2>2. CASE \E c \in Conns : /\ r \in queue[c]
                               /\ queue' = [queue EXCEPT ![c] = @ \ {r}]
      BY <2>2 DEF HeldOnce
    <2>3. QED
      BY <2>1, <2>2
  <1>4. \A c \in Conns : queue'[c] \subseteq queue[c]
    <2>1. CASE queue' = queue
      BY <2>1
    <2>2. CASE \E c \in Conns : queue' = [queue EXCEPT ![c] = @ \ {r}]
      BY <2>2
    <2>3. QED
      BY <2>1, <2>2
  <1>5. CalledOnce'
    BY <1>1, <1>2 DEF CalledOnce
  <1>6. HeldOnce' /\ KeysKept'
    BY <1>4 DEF HeldOnce, KeysKept
  <1>7. CalledNotHeld'
    BY <1>1, <1>3, <1>4 DEF CalledNotHeld
  <1>8. \A q \in Reqs : q # r /\ Out(q) => Out(q)'
    BY <1>1, <1>4 DEF Out
  <1>9. SettledOut' /\ NewOut'
    BY <1>8 DEF SettledOut, NewOut
  <1>10. QED
    BY <1>5, <1>6, <1>7, <1>9

\* The calls of Execute keep the invariant.
LEMMA ExecuteCustody ==
  ASSUME TypeInv, CustodyInv, NEW t \in Threads, ExecuteStep(t)
  PROVE  CustodyInv'
  <1> USE DEF connVars, runVars, mgrVars, exVars, ghosts
  <1>r. ASSUME Retry(t), pc[t] # "idle",
               UNCHANGED <<pendingReqs, queue, settled, pendKeys>>
        PROVE  CustodyInv'
    <2>1. CASE Return(t, FALSE)
      BY <1>r, <2>1, ReturnCustody
    <2>2. CASE UNCHANGED <<cur, outcome>>
      BY <1>r, <2>2, StayCustody DEF custodyVars
    <2>3. QED
      BY <1>r, <2>1, <2>2 DEF Retry
  <1>1. CASE Get(t)
    <2>1. CASE Return(t, FALSE)
      BY <1>1, <2>1, ReturnCustody DEF Get, Choices, Pick
    <2>2. CASE ~ Return(t, FALSE)
      BY <1>1, <2>2, StayCustody DEF Get, Choices, Pick, custodyVars
    <2>3. QED
      BY <2>1, <2>2
  <1>2. CASE Load(t)
    <2>1. CASE node[t] \notin clients
      BY <1>2, <2>1, <1>r DEF Load
    <2>2. CASE node[t] \in clients
      BY <1>2, <2>2, StayCustody DEF Load, custodyVars
    <2>3. QED
      BY <2>1, <2>2
  <1>3. CASE Evict(t)
    <2>1. CASE node[t] \in clients
      BY <1>3, <2>1, StayCustody DEF Evict, custodyVars
    <2>2. CASE node[t] \notin clients
      BY <1>3, <2>2, <1>r DEF Evict
    <2>3. QED
      BY <2>1, <2>2
  <1>4. CASE EvictLB(t)
    BY <1>4, <1>r DEF EvictLB
  <1>5. CASE Send(t)
    BY <1>5, StayCustody DEF Send, custodyVars
  <1>6. CASE SendSync(t)
    BY <1>6, StayCustody DEF SendSync, custodyVars
  <1>7. CASE Done(t)
    <2>1. CASE ok[t] /\ cur[t] \notin SyncReqs
      BY <1>7, <2>1, StayCustody DEF Done, custodyVars
    <2>2. CASE ~ (ok[t] /\ cur[t] \notin SyncReqs)
      <3>1. ok[t] \in BOOLEAN
        BY DEF TypeInv, TypeOK
      <3>2. QED
        BY <1>7, <2>2, <3>1, ReturnCustody DEF Done
    <2>3. QED
      BY <2>1, <2>2
  <1>8. CASE Track(t)
    <2> DEFINE r == cur[t]
               c == node[t]
    <2> USE DispatchAssumption DEF TypeInv, TypeOK, CustodyInv
    <2>1. /\ r \in Reqs /\ c \in Conns
          /\ cur' = [cur EXCEPT ![t] = NoReq]
          /\ \A q \in Reqs : q # r => outcome'[q] = outcome[q]
      BY <1>8 DEF Track, Return, Shape
    <2>2. outcome'[r] # "new"
      <3>1. outcome[r] # "new"
        BY <2>1 DEF NewOut, Out
      <3>2. QED
        BY <1>8, <2>1, <3>1 DEF Track, Return, Threads
    <2>3. CASE c \notin pendKeys
      <3>1. Return(t, TRUE) /\ pc[t] # "idle"
            /\ UNCHANGED <<pendingReqs, queue, settled, pendKeys>>
        BY <1>8, <2>3 DEF Track
      <3>2. QED
        BY <3>1, ReturnCustody
    <2>4. CASE c \in pendKeys
      <3>1. /\ pendingReqs' = [pendingReqs EXCEPT ![c] = @ \cup {r}]
            /\ UNCHANGED <<queue, settled, pendKeys>>
        BY <1>8, <2>4 DEF Track
      <3>2. \A d \in Conns : r \notin pendingReqs[d] /\ r \notin queue[d]
        BY DEF CalledNotHeld
      <3>3. \A u \in Threads : u # t => cur[u] # r
        BY <2>1 DEF CalledOnce
      <3>4. CalledOnce'
        BY <2>1 DEF CalledOnce
      <3>5. HeldOnce' /\ KeysKept'
        BY <2>1, <2>4, <3>1, <3>2 DEF HeldOnce, KeysKept
      <3>6. CalledNotHeld'
        BY <2>1, <3>1, <3>3 DEF CalledNotHeld
      <3>7. \A q \in Reqs : q # r /\ Out(q) => Out(q)'
        BY <2>1, <3>1 DEF Out
      <3>8. r \notin settled
        BY DEF SettledOut, Out
      <3>9. SettledOut' /\ NewOut'
        BY <2>1, <2>2, <3>1, <3>7, <3>8 DEF SettledOut, NewOut
      <3>10. QED
        BY <3>4, <3>5, <3>6, <3>9
    <2>5. QED
      BY <2>3, <2>4
  <1>9. QED
    BY <1>1, <1>2, <1>3, <1>4, <1>5, <1>6, <1>7, <1>8 DEF ExecuteStep

\* So does the life of a connection.
LEMMA ConnCustody ==
  ASSUME TypeInv, CustodyInv, NEW c \in Conns,
         ServerStep(c) \/ WorkerRecv(c) \/ Disconnect(c)
  PROVE  CustodyInv'
  <1> USE DispatchAssumption DEF connVars, runVars, mgrVars, exVars, ghosts
  <1>1. CASE AddClient(c)
    BY <1>1, StayCustody DEF AddClient, P2CAdd, custodyVars
  <1>2. CASE ReadAck(c)
    <2> USE DEF TypeInv, TypeOK, CustodyInv
    <2>1. PICK r \in Reqs : r = Head(up[c])
      BY <1>2, QueueUpdate DEF ReadAck
    <2>2. /\ UNCHANGED <<cur, queue, outcome, pendKeys>>
          /\ settled' = settled \cup ({r} \cap pendingReqs[c])
          /\ pendingReqs'[c] = pendingReqs[c] \ {r}
          /\ \A d \in Conns : d # c => pendingReqs'[d] = pendingReqs[d]
      <3>1. /\ UNCHANGED <<cur, queue, outcome, pendKeys>>
            /\ settled' = settled \cup ({r} \cap pendingReqs[c])
            /\ AcknowledgeRequest(c, r)
        BY <1>2, <2>1 DEF ReadAck
      <3>2. CASE c \in pendKeys
        BY <3>1, <3>2 DEF AcknowledgeRequest
      <3>3. CASE c \notin pendKeys
        <4>1. pendingReqs' = pendingReqs /\ pendingReqs[c] = {}
          BY <3>1, <3>3 DEF AcknowledgeRequest, KeysKept
        <4>2. QED
          BY <3>1, <4>1
      <3>4. QED
        BY <3>2, <3>3
    <2>3. CalledOnce' /\ CalledNotHeld'
      BY <2>2 DEF CalledOnce, CalledNotHeld
    <2>4. HeldOnce' /\ KeysKept'
      BY <2>2 DEF HeldOnce, KeysKept
    <2>5. \A q \in Reqs : Out(q) => Out(q)'
      BY <2>2 DEF Out
    <2>6. ASSUME r \in pendingReqs[c] PROVE Out(r)' /\ outcome[r] # "new"
      <3>1. \A t \in Threads : cur[t] # r
        BY <2>6 DEF CalledNotHeld
      <3>2. \A d \in Conns : r \notin queue[d] /\ (d # c => r \notin pendingReqs[d])
        BY <2>1, <2>6 DEF HeldOnce
      <3>3. outcome[r] # "new"
        BY <2>1, <2>6 DEF NewOut, Out
      <3>4. QED
        BY <2>2, <3>1, <3>2, <3>3 DEF Out
    <2>7. SettledOut' /\ NewOut'
      <3>1. \A q \in settled' : q \in settled \/ (q = r /\ r \in pendingReqs[c])
        BY <2>2
      <3>2. SettledOut'
        BY <2>5, <2>6, <3>1 DEF SettledOut
      <3>3. NewOut'
        BY <2>2, <2>5, <2>6, <3>1 DEF NewOut
      <3>4. QED
        BY <3>2, <3>3
    <2>8. QED
      BY <2>3, <2>4, <2>7
  <1>3. CASE ReadError(c)
    <2> USE DEF TypeInv, TypeOK, CustodyInv
    <2>1. /\ UNCHANGED <<cur, outcome, settled>>
          /\ queue' = [queue EXCEPT ![c] = pendingReqs[c]]
          /\ pendingReqs' = [pendingReqs EXCEPT ![c] = {}]
          /\ pendKeys' = pendKeys \ {c}
      BY <1>3 DEF ReadError, DrainPending, KeysKept
    <2>2. CalledOnce' /\ KeysKept'
      BY <2>1 DEF CalledOnce, KeysKept
    <2>3. HeldOnce'
      BY <2>1 DEF HeldOnce
    <2>4. CalledNotHeld'
      BY <2>1 DEF CalledNotHeld
    <2>5. \A q \in Reqs : Out(q) => Out(q)'
      BY <2>1 DEF Out
    <2>6. SettledOut' /\ NewOut'
      BY <2>1, <2>5 DEF SettledOut, NewOut
    <2>7. QED
      BY <2>2, <2>3, <2>4, <2>6
  <1>4. CASE Redispatch(c)
    <2>1. PICK r \in queue[c] : /\ Begin(c, r)
                                /\ queue' = [queue EXCEPT ![c] = @ \ {r}]
      BY <1>4 DEF Redispatch
    <2>2. r \in Reqs /\ c \in Threads
      BY DEF Threads, TypeInv, TypeOK
    <2>3. r \notin settled /\ outcome[r] # "new"
      BY <2>2 DEF CustodyInv, SettledOut, NewOut, Out
    <2>4. UNCHANGED <<pendingReqs, settled, pendKeys, outcome>>
      BY <1>4 DEF Redispatch
    <2>5. QED
      BY <2>1, <2>2, <2>3, <2>4, BeginCustody
  <1>5. CASE RedispatchEnd(c)
    BY <1>5, StayCustody DEF RedispatchEnd, custodyVars
  <1>6. CASE RemoveClient(c)
    BY <1>6, StayCustody DEF RemoveClient, custodyVars
  <1>7. CASE RunCloseConn(c)
    BY <1>7, StayCustody DEF RunCloseConn, custodyVars
  <1>8. CASE RunLBRemove(c)
    BY <1>8, StayCustody DEF RunLBRemove, custodyVars
  <1>9. CASE PingFail(c)
    BY <1>9, StayCustody DEF PingFail, custodyVars
  <1>10. CASE HbCloseConn(c)
    BY <1>10, StayCustody DEF HbCloseConn, custodyVars
  <1>11. CASE WorkerRecv(c)
    BY <1>11, StayCustody DEF WorkerRecv, custodyVars
  <1>12. CASE Disconnect(c)
    BY <1>12, StayCustody DEF Disconnect, custodyVars
  <1>13. QED
    BY <1>1, <1>2, <1>3, <1>4, <1>5, <1>6, <1>7, <1>8, <1>9, <1>10, <1>11, <1>12
    DEF ServerStep, RunExit

LEMMA CustodyInit == Init => CustodyInv
  BY DispatchAssumption DEF Init, CustodyInv, CalledOnce, HeldOnce, CalledNotHeld,
     SettledOut, NewOut, KeysKept, Out

LEMMA CustodyNext == TypeInv /\ CustodyInv /\ [Next]_vars => CustodyInv'
  <1> SUFFICES ASSUME TypeInv, CustodyInv, [Next]_vars PROVE CustodyInv'
    OBVIOUS
  <1>1. CASE \E r \in Reqs : Call(r)
    <2>1. PICK r \in Reqs : Call(r)
      BY <1>1
    <2>2. r \in Threads
      BY DEF Threads
    <2>3. /\ outcome'[r] # "new"
          /\ \A q \in Reqs : q # r => outcome'[q] = outcome[q]
      BY <2>1 DEF Call, TypeInv, TypeOK
    <2>4. Out(r) /\ r \notin settled
      BY <2>1 DEF Call, CustodyInv, NewOut
    <2>5. Begin(r, r) /\ UNCHANGED <<pendingReqs, settled, pendKeys, queue>>
      BY <2>1 DEF Call, connVars, runVars, mgrVars
    <2>6. QED
      BY <2>2, <2>3, <2>4, <2>5, BeginCustody
  <1>2. CASE \E t \in Threads : ExecuteStep(t)
    BY <1>2, ExecuteCustody
  <1>3. CASE \E c \in Conns : ServerStep(c) \/ WorkerRecv(c) \/ Disconnect(c)
    BY <1>3, ConnCustody
  <1>4. CASE UNCHANGED vars
    BY <1>4, StayCustody DEF vars, connVars, runVars, mgrVars, exVars, ghosts, custodyVars
  <1>5. QED
    BY <1>1, <1>2, <1>3, <1>4 DEF Next

LEMMA CustodyInvariant == Spec => [](TypeInv /\ CustodyInv)
  BY TypeInit, TypeNext, CustodyInit, CustodyNext, PTL DEF Spec

\* A request the server holds is held in one place only: no interleaving of
\* disconnects, late ACKs and redispatches forks it into two deliveries.
THEOREM OneCustodian == Spec => []SingleCustodian
  <1>1. TypeInv /\ CustodyInv => SingleCustodian
    <2> SUFFICES ASSUME TypeInv, CustodyInv, NEW r \in Reqs,
                        NEW x \in Custody(r), NEW y \in Custody(r)
                 PROVE  x = y
      BY DEF SingleCustodian
    <2> DEFINE A(z) == \E t \in Threads : cur[t] = r /\ z = <<"call", t>>
               B(z) == \E c \in Conns : r \in pendingReqs[c] /\ z = <<"pending", c>>
               C(z) == \E c \in Conns : r \in queue[c] /\ z = <<"queue", c>>
    <2>1. (A(x) \/ B(x) \/ C(x)) /\ (A(y) \/ B(y) \/ C(y))
      BY DEF Custody
    <2>2. A(x) => ~ B(y) /\ ~ C(y)
      BY DEF CustodyInv, CalledNotHeld
    <2>3. A(y) => ~ B(x) /\ ~ C(x)
      BY DEF CustodyInv, CalledNotHeld
    <2>4. ~ (B(x) /\ C(y)) /\ ~ (C(x) /\ B(y))
      BY DEF CustodyInv, HeldOnce
    <2>5. A(x) /\ A(y) => x = y
      BY DispatchAssumption DEF CustodyInv, CalledOnce
    <2>6. (B(x) /\ B(y)) \/ (C(x) /\ C(y)) => x = y
      BY DEF CustodyInv, HeldOnce
    <2>7. QED
      BY <2>1, <2>2, <2>3, <2>4, <2>5, <2>6
  <1>2. QED
    BY CustodyInvariant, <1>1, PTL

\* A request whose ACK the server has honoured is never dispatched again.
THEOREM SettledStaysOut == Spec => []SettledNotResent
  <1>1. TypeInv /\ CustodyInv => SettledNotResent
    BY DEF TypeInv, TypeOK, CustodyInv, SettledOut, Out, SettledNotResent, Custody
  <1>2. QED
    BY CustodyInvariant, <1>1, PTL
-----------------------------------------------------------------------------
(* The registries.                                                         *)

\* A connection is unknown to everybody before AddClient.
Fresh ==
  \A c \in Conns : run[c] = "none" =>
    /\ c \notin lb /\ inflight[c] = 0
    /\ \A t \in Threads : node[t] # c

\* A removal that has left clients is finished while c is still out of it.
Removing ==
  /\ \A c \in Conns : run[c] = "lbRemove" => c \notin clients
  /\ \A t \in Threads : pc[t] = "evictLB" => node[t] \notin clients

\* GetClientByBalance evicts only what it has seen closed.
SeenClosed ==
  \A t \in Threads : pc[t] \in {"evict", "evictLB"} => isClosed[node[t]]

\* Once Read has failed, nothing is tracked for c and TrackRequest does
\* nothing; what was drained is with Run as long as it redispatches.
AfterRead ==
  \A c \in Conns :
    /\ run[c] \notin {"none", "read"} => c \notin pendKeys /\ pendingReqs[c] = {}
    /\ run[c] # "redispatch" => queue[c] = {}

\* RemoveClient may leave c in the balancer, but then c is closed.
ExitClosed ==
  \A c \in Conns : run[c] = "end" /\ c \in lb => isClosed[c]

RegistryInv ==
  /\ Fresh
  /\ RegistriesAgree
  /\ Removing
  /\ SeenClosed
  /\ AfterRead
  /\ ExitClosed
\* What RegistryInv speaks of, without the locals of Execute.
registryVars == <<run, queue, clients, pendKeys, pendingReqs, lb, inflight, isClosed>>

\* A step of Execute leaves a thread with the node it had or with none, and
\* does not enter the eviction of a node.
Forgets(t) ==
  /\ \A u \in Threads : u # t => node'[u] = node[u] /\ pc'[u] = pc[u]
  /\ node'[t] \in {node[t], NoConn}
  /\ pc'[t] \notin {"evict", "evictLB"}

\* The end of an iteration of GetClientByBalance is such a step.
LEMMA RetryForgets ==
  ASSUME TypeInv, NEW t \in Threads, Retry(t)
  PROVE  Forgets(t)
  BY DEF TypeInv, TypeOK, Retry, Return, Goto, Forgets

\* It leaves the evictions of other threads under way.
LEMMA ForgetAgrees ==
  ASSUME TypeInv, RegistriesAgree, NEW t \in Threads, Forgets(t),
         pc[t] # "evictLB" \/ node[t] \notin lb',
         clients \subseteq lb', lb' \subseteq lb, UNCHANGED <<run, clients>>
  PROVE  RegistriesAgree'
  <1> SUFFICES ASSUME NEW c \in lb', c \notin clients, run[c] # "lbRemove"
               PROVE  \E u \in Threads : pc'[u] = "evictLB" /\ node'[u] = c
    BY DEF RegistriesAgree
  <1>1. PICK u \in Threads : pc[u] = "evictLB" /\ node[u] = c
    BY DEF RegistriesAgree
  <1>2. u # t
    BY <1>1
  <1>3. QED
    BY <1>1, <1>2 DEF Forgets

\* Such a step keeps the invariant if it finishes no eviction.
LEMMA ForgetRegistry ==
  ASSUME TypeInv, RegistryInv, NEW t \in Threads, Forgets(t), pc[t] # "evictLB",
         UNCHANGED registryVars
  PROVE  RegistryInv'
  <1> USE DispatchAssumption DEF TypeInv, TypeOK, RegistryInv, registryVars, Forgets
  <1>1. Fresh' /\ AfterRead' /\ ExitClosed'
    BY DEF Fresh, AfterRead, ExitClosed
  <1>2. Removing' /\ SeenClosed'
    BY DEF Removing, SeenClosed
  <1>3. RegistriesAgree'
    BY ForgetAgrees DEF RegistriesAgree
  <1>4. QED
    BY <1>1, <1>2, <1>3

\* The node of a thread that is done with it is dropped from the balancer.
LEMMA DropRegistry ==
  ASSUME TypeInv, RegistryInv, NEW t \in Threads, Forgets(t),
         node[t] \in Conns, node[t] \notin clients, P2CRemove(node[t]),
         UNCHANGED <<run, queue, clients, pendKeys, pendingReqs, isClosed>>
  PROVE  RegistryInv'
  <1>3. RegistriesAgree'
    <2>1. /\ clients \subseteq lb' /\ lb' \subseteq lb /\ node[t] \notin lb'
          /\ UNCHANGED <<run, clients>> /\ RegistriesAgree
      BY DEF P2CRemove, RegistryInv, RegistriesAgree
    <2>2. QED
      BY <2>1, ForgetAgrees
  <1> USE DispatchAssumption DEF TypeInv, TypeOK, RegistryInv, Forgets, P2CRemove
  <1>1. Fresh' /\ AfterRead' /\ ExitClosed'
    BY DEF Fresh, AfterRead, ExitClosed
  <1>2. Removing' /\ SeenClosed'
    BY DEF Removing, SeenClosed
  <1>4. QED
    BY <1>1, <1>2, <1>3

\* The calls of Execute keep the registries.
LEMMA ExecuteRegistry ==
  ASSUME TypeInv, RegistryInv, CustodyInv, NEW t \in Threads, ExecuteStep(t)
  PROVE  RegistryInv'
  <1> USE DEF connVars, runVars, mgrVars, exVars, ghosts
  <1>n. pc[t] \in {"load", "evict", "evictLB", "send", "sync", "done", "track"}
          => node[t] \in Conns /\ run[node[t]] # "none"
    BY DEF TypeInv, Shape, RegistryInv, Fresh
  <1>1. CASE Get(t)
    <2>1. CASE lb = {}
      BY <1>1, <2>1, ForgetRegistry
      DEF Get, Return, Goto, Forgets, registryVars, TypeInv, TypeOK, Choices, Pick
    <2>2. CASE lb # {}
      <3>1. PICK c \in lb : /\ inflight' = [inflight EXCEPT ![c] = @ + 1]
                            /\ node' = [node EXCEPT ![t] = c]
                            /\ pc' = [pc EXCEPT ![t] = "load"]
        BY <1>1, <2>2 DEF Get, Choices, Pick, Goto
      <3>2. /\ UNCHANGED <<run, queue, clients, pendKeys, pendingReqs, lb, isClosed>>
            /\ pc[t] = "get"
        BY <1>1 DEF Get
      <3> USE DispatchAssumption DEF TypeInv, TypeOK, RegistryInv
      <3>3. Fresh' /\ AfterRead' /\ ExitClosed'
        BY <3>1, <3>2 DEF Fresh, AfterRead, ExitClosed
      <3>4. Removing' /\ SeenClosed'
        BY <3>1, <3>2 DEF Removing, SeenClosed
      <3>5. RegistriesAgree'
        BY <3>1, <3>2 DEF RegistriesAgree
      <3>6. QED
        BY <3>3, <3>4, <3>5
    <2>3. QED
      BY <2>1, <2>2
  <1>2. CASE Load(t)
    <2>1. CASE node[t] \notin clients
      BY <1>2, <1>n, <2>1, RetryForgets, DropRegistry DEF Load
    <2>2. CASE node[t] \in clients
      <3>1. /\ UNCHANGED <<registryVars, node>>
            /\ pc' = [pc EXCEPT ![t] = IF isClosed[node[t]] THEN "evict"
                        ELSE IF cur[t] \in SyncReqs THEN "sync" ELSE "send"]
            /\ pc[t] = "load"
        BY <1>2, <2>2 DEF Load, Goto, registryVars
      <3> USE DispatchAssumption DEF TypeInv, TypeOK, RegistryInv, registryVars
      <3>2. Fresh' /\ AfterRead' /\ ExitClosed'
        BY <3>1 DEF Fresh, AfterRead, ExitClosed
      <3>3. Removing' /\ SeenClosed'
        BY <3>1 DEF Removing, SeenClosed
      <3>4. RegistriesAgree'
        BY <3>1 DEF RegistriesAgree
      <3>5. QED
        BY <3>2, <3>3, <3>4
    <2>3. QED
      BY <2>1, <2>2
  <1>3. CASE Evict(t)
    <2>1. CASE node[t] \in clients
      <3>1. /\ UNCHANGED <<run, queue, pendKeys, pendingReqs, lb, inflight, isClosed, node>>
            /\ clients' = clients \ {node[t]}
            /\ pc' = [pc EXCEPT ![t] = "evictLB"]
            /\ pc[t] = "evict"
        BY <1>3, <2>1 DEF Evict, Goto
      <3> USE DispatchAssumption DEF TypeInv, TypeOK, RegistryInv
      <3>2. Fresh' /\ AfterRead' /\ ExitClosed'
        BY <3>1 DEF Fresh, AfterRead, ExitClosed
      <3>3. Removing' /\ SeenClosed'
        BY <3>1 DEF Removing, SeenClosed
      <3>4. RegistriesAgree'
        BY <3>1 DEF RegistriesAgree
      <3>5. QED
        BY <3>2, <3>3, <3>4
    <2>2. CASE node[t] \notin clients
      BY <1>3, <2>2, RetryForgets, ForgetRegistry DEF Evict, registryVars
    <2>3. QED
      BY <2>1, <2>2
  <1>4. CASE EvictLB(t)
    BY <1>4, <1>n, RetryForgets, DropRegistry DEF EvictLB, RegistryInv, Removing
  <1>5. CASE Send(t)
    BY <1>5, ForgetRegistry DEF Send, Goto, Forgets, registryVars, TypeInv, TypeOK
  <1>6. CASE SendSync(t)
    BY <1>6, ForgetRegistry DEF SendSync, Goto, Forgets, registryVars, TypeInv, TypeOK
  <1>7. CASE Done(t)
    <2>1. Forgets(t) /\ pc[t] = "done"
      BY <1>7 DEF Done, Return, Goto, Forgets, TypeInv, TypeOK
    <2>2. /\ UNCHANGED <<run, queue, clients, pendKeys, pendingReqs, lb, isClosed>>
          /\ \A c \in Conns : c # node[t] => inflight'[c] = inflight[c]
      BY <1>7, <1>n DEF Done, P2CDone, TypeInv, TypeOK
    <2>5. RegistriesAgree'
      <3>1. /\ clients \subseteq lb' /\ lb' \subseteq lb /\ pc[t] # "evictLB"
            /\ UNCHANGED <<run, clients>> /\ RegistriesAgree
        BY <2>1, <2>2 DEF RegistryInv, RegistriesAgree
      <3>2. QED
        BY <2>1, <3>1, ForgetAgrees
    <2> USE DispatchAssumption DEF TypeInv, TypeOK, RegistryInv, Forgets
    <2>3. Fresh' /\ AfterRead' /\ ExitClosed'
      BY <1>n, <2>1, <2>2 DEF Fresh, AfterRead, ExitClosed
    <2>4. Removing' /\ SeenClosed'
      BY <2>1, <2>2 DEF Removing, SeenClosed
    <2>6. QED
      BY <2>3, <2>4, <2>5
  <1>8. CASE Track(t)
    <2>1. Forgets(t) /\ pc[t] = "track"
      BY <1>8 DEF Track, Return, Goto, Forgets, TypeInv, TypeOK
    <2>2. /\ UNCHANGED <<run, queue, clients, pendKeys, lb, inflight, isClosed>>
          /\ \A c \in Conns : c \notin pendKeys => pendingReqs'[c] = pendingReqs[c]
      BY <1>8, <1>n DEF Track, TypeInv, TypeOK
    <2>5. RegistriesAgree'
      <3>1. /\ clients \subseteq lb' /\ lb' \subseteq lb /\ pc[t] # "evictLB"
            /\ UNCHANGED <<run, clients>> /\ RegistriesAgree
        BY <2>1, <2>2 DEF RegistryInv, RegistriesAgree
      <3>2. QED
        BY <2>1, <3>1, ForgetAgrees
    <2> USE DispatchAssumption DEF TypeInv, TypeOK, RegistryInv, Forgets
    <2>3. Fresh' /\ AfterRead' /\ ExitClosed'
      BY <2>1, <2>2 DEF Fresh, AfterRead, ExitClosed
    <2>4. Removing' /\ SeenClosed'
      BY <2>1, <2>2 DEF Removing, SeenClosed
    <2>6. QED
      BY <2>3, <2>4, <2>5
  <1>9. QED
    BY <1>1, <1>2, <1>3, <1>4, <1>5, <1>6, <1>7, <1>8 DEF ExecuteStep

\* The evictions of Execute go on while Run, the heartbeat and the other end
\* take their steps.
LEMMA OthersAgree ==
  ASSUME RegistriesAgree, UNCHANGED <<lb, clients>>, UNCHANGED node,
         \A t \in Threads : pc[t] = "evictLB" => pc'[t] = "evictLB",
         \A c \in Conns : run[c] = "lbRemove" => run'[c] = "lbRemove",
         lb \subseteq Conns
  PROVE  RegistriesAgree'
  BY DEF RegistriesAgree

\* So does the life of a connection.
LEMMA ConnRegistry ==
  ASSUME TypeInv, RegistryInv, CustodyInv, NEW c \in Conns,
         ServerStep(c) \/ WorkerRecv(c) \/ Disconnect(c)
  PROVE  RegistryInv'
  <1> USE DispatchAssumption DEF connVars, runVars, mgrVars, exVars, ghosts
  <1>r. RegistriesAgree /\ lb \subseteq Conns /\ clients \subseteq Conns
    BY DEF RegistryInv, TypeInv, TypeOK
  <1>q. ASSUME UNCHANGED <<queue, clients, pendKeys, pendingReqs, lb, inflight, pc, node, run>>,
               \A d \in Conns : isClosed[d] => isClosed'[d]
        PROVE  RegistryInv'
    <2> USE <1>q DEF TypeInv, TypeOK, RegistryInv
    <2>1. Fresh' /\ AfterRead' /\ ExitClosed'
      BY DEF Fresh, AfterRead, ExitClosed
    <2>2. Removing' /\ RegistriesAgree'
      BY DEF Removing, RegistriesAgree
    <2>3. \A t \in Threads : pc[t] \in {"evict", "evictLB"} => node[t] \in Conns
      BY DEF Shape
    <2>4. SeenClosed'
      BY <2>3 DEF SeenClosed
    <2>5. QED
      BY <2>1, <2>2, <2>4
  <1>1. CASE AddClient(c)
    <2>1. /\ run[c] = "none" /\ run' = [run EXCEPT ![c] = "read"]
          /\ clients' = clients \cup {c} /\ lb' = lb \cup {c}
          /\ pendKeys' = pendKeys \cup {c}
          /\ UNCHANGED <<isClosed, queue, pendingReqs, inflight, pc, node>>
      BY <1>1 DEF AddClient, P2CAdd
    <2>2. RegistriesAgree'
      <3> SUFFICES ASSUME NEW d \in lb, d \notin clients, d # c, run[d] # "lbRemove"
                   PROVE  \E t \in Threads : pc[t] = "evictLB" /\ node[t] = d
        BY <1>r, <2>1 DEF RegistriesAgree, TypeInv, TypeOK
      <3>1. QED
        BY <1>r DEF RegistriesAgree
    <2> USE DEF TypeInv, TypeOK, RegistryInv
    <2>3. Fresh' /\ AfterRead' /\ ExitClosed'
      BY <2>1 DEF Fresh, AfterRead, ExitClosed
    <2>4. Removing' /\ SeenClosed'
      BY <2>1 DEF Removing, SeenClosed, Fresh
    <2>5. QED
      BY <2>2, <2>3, <2>4
  <1>2. CASE ReadAck(c)
    <2>1. /\ UNCHANGED <<run, queue, clients, pendKeys, lb, inflight, pc, node, isClosed>>
          /\ \A d \in Conns : pendingReqs'[d] \subseteq pendingReqs[d]
      BY <1>2 DEF ReadAck, AcknowledgeRequest, TypeInv, TypeOK
    <2>2. RegistriesAgree'
      BY <1>r, <2>1, OthersAgree
    <2> USE DEF TypeInv, TypeOK, RegistryInv
    <2>3. Fresh' /\ AfterRead' /\ ExitClosed'
      BY <2>1 DEF Fresh, AfterRead, ExitClosed
    <2>4. Removing' /\ SeenClosed'
      BY <2>1 DEF Removing, SeenClosed
    <2>5. QED
      BY <2>2, <2>3, <2>4
  <1>3. CASE ReadError(c)
    <2>1. /\ UNCHANGED <<clients, lb, inflight, pc, node, isClosed>>
          /\ run[c] = "read" /\ run' = [run EXCEPT ![c] = "redispatch"]
          /\ pendKeys' = pendKeys \ {c}
          /\ pendingReqs' = [pendingReqs EXCEPT ![c] = {}]
          /\ \A d \in Conns : d # c => queue'[d] = queue[d]
      BY <1>3 DEF ReadError, DrainPending, TypeInv, TypeOK
    <2>2. RegistriesAgree'
      BY <1>r, <2>1, OthersAgree DEF TypeInv, TypeOK
    <2> USE DEF TypeInv, TypeOK, RegistryInv
    <2>3. Fresh' /\ AfterRead' /\ ExitClosed'
      BY <2>1 DEF Fresh, AfterRead, ExitClosed
    <2>4. Removing' /\ SeenClosed'
      BY <2>1 DEF Removing, SeenClosed
    <2>5. QED
      BY <2>2, <2>3, <2>4
  <1>4. CASE Redispatch(c)
    <2>1. /\ UNCHANGED <<run, clients, pendKeys, pendingReqs, lb, inflight, node, isClosed>>
          /\ pc[c] = "idle" /\ pc' = [pc EXCEPT ![c] = "get"]
          /\ run[c] = "redispatch" /\ \A d \in Conns : d # c => queue'[d] = queue[d]
      BY <1>4 DEF Redispatch, Begin, Goto, TypeInv, TypeOK
    <2>2. RegistriesAgree'
      BY <1>r, <2>1, OthersAgree DEF TypeInv, TypeOK
    <2> USE DEF TypeInv, TypeOK, RegistryInv
    <2>3. Fresh' /\ AfterRead' /\ ExitClosed'
      BY <2>1 DEF Fresh, AfterRead, ExitClosed
    <2>4. Removing' /\ SeenClosed'
      BY <2>1 DEF Removing, SeenClosed
    <2>5. QED
      BY <2>2, <2>3, <2>4
  <1>5. CASE RedispatchEnd(c)
    <2>1. /\ UNCHANGED <<queue, clients, pendKeys, pendingReqs, lb, inflight, pc, node, isClosed>>
          /\ run[c] = "redispatch" /\ queue[c] = {}
          /\ run' = [run EXCEPT ![c] = "remove"]
      BY <1>5 DEF RedispatchEnd
    <2>2. RegistriesAgree'
      BY <1>r, <2>1, OthersAgree DEF TypeInv, TypeOK
    <2> USE DEF TypeInv, TypeOK, RegistryInv
    <2>3. Fresh' /\ AfterRead' /\ ExitClosed'
      BY <2>1 DEF Fresh, AfterRead, ExitClosed
    <2>4. Removing' /\ SeenClosed'
      BY <2>1 DEF Removing, SeenClosed
    <2>5. QED
      BY <2>2, <2>3, <2>4
  <1>6. CASE RemoveClient(c)
    <2>1. /\ UNCHANGED <<queue, pendKeys, pendingReqs, lb, inflight, pc, node, isClosed>>
          /\ run[c] = "remove"
          /\ run' = [run EXCEPT ![c] = IF c \notin clients THEN "end"
                               ELSE IF isClosed[c] THEN "lbRemove" ELSE "closeConn"]
          /\ clients' = IF isClosed[c] THEN clients \ {c} ELSE clients
      BY <1>6 DEF RemoveClient
    <2>2. RegistriesAgree'
      <3> SUFFICES ASSUME NEW d \in lb, d \notin clients', run'[d] # "lbRemove"
                   PROVE  \E t \in Threads : pc[t] = "evictLB" /\ node[t] = d
        BY <1>r, <2>1 DEF RegistriesAgree
      <3>1. d \notin clients /\ run[d] # "lbRemove"
        BY <1>r, <2>1 DEF TypeInv, TypeOK
      <3>2. QED
        BY <1>r, <3>1 DEF RegistriesAgree
    <2>3. c \in lb /\ c \notin clients => isClosed[c]
      <3> SUFFICES ASSUME c \in lb, c \notin clients PROVE isClosed[c]
        OBVIOUS
      <3>1. PICK t \in Threads : pc[t] = "evictLB" /\ node[t] = c
        BY <1>r, <2>1 DEF RegistriesAgree
      <3>2. QED
        BY <3>1 DEF RegistryInv, SeenClosed
    <2> USE DEF TypeInv, TypeOK, RegistryInv
    <2>4. Fresh' /\ AfterRead' /\ ExitClosed'
      BY <2>1, <2>3 DEF Fresh, AfterRead, ExitClosed
    <2>5. Removing' /\ SeenClosed'
      BY <2>1 DEF Removing, SeenClosed
    <2>6. QED
      BY <2>2, <2>4, <2>5
  <1>7. CASE RunCloseConn(c)
    <2>1. /\ UNCHANGED <<queue, pendKeys, pendingReqs, lb, inflight, pc, node>>
          /\ run[c] = "closeConn"
          /\ isClosed' = [isClosed EXCEPT ![c] = TRUE]
          /\ \/ clients' = clients /\ run' = [run EXCEPT ![c] = "end"]
             \/ clients' = clients \ {c} /\ run' = [run EXCEPT ![c] = "lbRemove"]
      BY <1>7 DEF RunCloseConn
    <2>2. RegistriesAgree'
      <3> SUFFICES ASSUME NEW d \in lb, d \notin clients', run'[d] # "lbRemove"
                   PROVE  \E t \in Threads : pc[t] = "evictLB" /\ node[t] = d
        BY <1>r, <2>1 DEF RegistriesAgree
      <3>1. d \notin clients /\ run[d] # "lbRemove"
        BY <1>r, <2>1 DEF TypeInv, TypeOK
      <3>2. QED
        BY <1>r, <3>1 DEF RegistriesAgree
    <2> USE DEF TypeInv, TypeOK, RegistryInv
    <2>3. Fresh' /\ AfterRead' /\ ExitClosed'
      BY <2>1 DEF Fresh, AfterRead, ExitClosed
    <2>4. Removing'
      BY <2>1 DEF Removing
    <2>5. SeenClosed'
      BY <2>1 DEF SeenClosed, Shape
    <2>6. QED
      BY <2>2, <2>3, <2>4, <2>5
  <1>8. CASE RunLBRemove(c)
    <2>1. /\ UNCHANGED <<queue, clients, pendKeys, pendingReqs, pc, node, isClosed>>
          /\ run[c] = "lbRemove" /\ run' = [run EXCEPT ![c] = "end"]
          /\ lb' = lb \ {c} /\ inflight' = [inflight EXCEPT ![c] = 0]
          /\ c \notin clients
      BY <1>8 DEF RunLBRemove, P2CRemove, RegistryInv, Removing
    <2>2. RegistriesAgree'
      <3> SUFFICES ASSUME NEW d \in lb, d # c, d \notin clients, run[d] # "lbRemove"
                   PROVE  \E t \in Threads : pc[t] = "evictLB" /\ node[t] = d
        BY <1>r, <2>1 DEF RegistriesAgree, TypeInv, TypeOK
      <3>1. QED
        BY <1>r DEF RegistriesAgree
    <2> USE DEF TypeInv, TypeOK, RegistryInv
    <2>3. Fresh' /\ AfterRead' /\ ExitClosed'
      BY <2>1 DEF Fresh, AfterRead, ExitClosed
    <2>4. Removing' /\ SeenClosed'
      BY <2>1 DEF Removing, SeenClosed
    <2>5. QED
      BY <2>2, <2>3, <2>4
  <1>9. CASE PingFail(c)
    BY <1>9, <1>q DEF PingFail
  <1>10. CASE HbCloseConn(c)
    BY <1>10, <1>q DEF HbCloseConn, TypeInv, TypeOK
  <1>11. CASE WorkerRecv(c)
    BY <1>11, <1>q DEF WorkerRecv
  <1>12. CASE Disconnect(c)
    BY <1>12, <1>q DEF Disconnect
  <1>13. QED
    BY <1>1, <1>2, <1>3, <1>4, <1>5, <1>6, <1>7, <1>8, <1>9, <1>10, <1>11, <1>12
    DEF ServerStep, RunExit

LEMMA RegistryInit == Init => RegistryInv
  BY DispatchAssumption
  DEF Init, RegistryInv, Fresh, RegistriesAgree, Removing, SeenClosed, AfterRead,
      ExitClosed

LEMMA RegistryNext ==
  TypeInv /\ CustodyInv /\ RegistryInv /\ [Next]_vars => RegistryInv'
  <1> SUFFICES ASSUME TypeInv, CustodyInv, RegistryInv, [Next]_vars PROVE RegistryInv'
    OBVIOUS
  <1>1. CASE \E r \in Reqs : Call(r)
    <2>1. PICK r \in Reqs : Call(r)
      BY <1>1
    <2>2. r \in Threads /\ UNCHANGED registryVars /\ pc[r] = "idle"
      BY <2>1 DEF Call, Begin, Threads, registryVars, connVars, runVars, mgrVars
    <2>3. Forgets(r)
      BY <2>1, <2>2 DEF Call, Begin, Goto, Forgets, TypeInv, TypeOK
    <2>4. QED
      BY <2>2, <2>3, ForgetRegistry
  <1>2. CASE \E t \in Threads : ExecuteStep(t)
    BY <1>2, ExecuteRegistry
  <1>3. CASE \E c \in Conns : ServerStep(c) \/ WorkerRecv(c) \/ Disconnect(c)
    BY <1>3, ConnRegistry
  <1>4. CASE UNCHANGED vars
    BY <1>4 DEF vars, connVars, runVars, mgrVars, exVars, ghosts, RegistryInv, Fresh,
       RegistriesAgree, Removing, SeenClosed, AfterRead, ExitClosed
  <1>5. QED
    BY <1>1, <1>2, <1>3, <1>4 DEF Next

LEMMA RegistryInvariant == Spec => [](TypeInv /\ RegistryInv)
  BY CustodyInvariant, RegistryInit, RegistryNext, PTL DEF Spec

\* A client that is known can be picked, and a node whose client is gone is
\* in the balancer only while some goroutine is on its way to remove it.
THEOREM RegistriesStayTogether == Spec => []RegistriesAgree
  BY RegistryInvariant, PTL DEF RegistryInv

\* Nothing can be dispatched to a connection whose Run has returned.
THEOREM NothingAfterExit == Spec => []ExitedRunUnusable
  <1>1. RegistryInv => ExitedRunUnusable
    BY DEF RegistryInv, AfterRead, ExitClosed, ExitedRunUnusable
  <1>2. QED
    BY RegistryInvariant, <1>1, PTL
-----------------------------------------------------------------------------
(* The inflight counters.                                                  *)

Holders(c) == {t \in Threads : HoldsPick(t, c)}

LEMMA HoldersFinite == \A c \in Conns : IsFiniteSet(Holders(c))
  <1>1. IsFiniteSet(Threads)
    BY DispatchAssumption, FS_Union DEF Threads
  <1>2. \A c \in Conns : Holders(c) \subseteq Threads
    BY DEF Holders
  <1>3. QED
    BY <1>1, <1>2, FS_Subset

\* A step of thread t changes the holders of c by t at most.
LEMMA HoldersStep ==
  ASSUME NEW t \in Threads, NEW c \in Conns,
         \A u \in Threads : u # t => node'[u] = node[u] /\ pc'[u] = pc[u]
  PROVE  /\ HoldsPick(t, c) <=> HoldsPick(t, c)' => Holders(c)' = Holders(c)
         /\ ~ HoldsPick(t, c) /\ HoldsPick(t, c)' =>
              /\ Holders(c)' = Holders(c) \cup {t}
              /\ Cardinality(Holders(c)') = Cardinality(Holders(c)) + 1
         /\ HoldsPick(t, c) /\ ~ HoldsPick(t, c)' =>
              /\ Holders(c)' = Holders(c) \ {t}
              /\ Cardinality(Holders(c)') = Cardinality(Holders(c)) - 1
  <1>1. \A u \in Threads : u # t => (HoldsPick(u, c)' <=> HoldsPick(u, c))
    BY DEF HoldsPick
  <1>2. /\ HoldsPick(t, c) <=> HoldsPick(t, c)' => Holders(c)' = Holders(c)
        /\ ~ HoldsPick(t, c) /\ HoldsPick(t, c)' =>
             Holders(c)' = Holders(c) \cup {t} /\ t \notin Holders(c)
        /\ HoldsPick(t, c) /\ ~ HoldsPick(t, c)' =>
             Holders(c)' = Holders(c) \ {t} /\ t \in Holders(c)
    BY <1>1 DEF Holders
  <1>3. IsFiniteSet(Holders(c)) /\ Cardinality(Holders(c)) \in Nat
    BY HoldersFinite, FS_CardinalityType
  <1>4. QED
    BY <1>2, <1>3, FS_AddElement, FS_RemoveElement

\* InflightExact, with the holders named.
InflightInv ==
  \A c \in lb : ~ isClosed[c] => inflight[c] = Cardinality(Holders(c))

\* Execute counts a node up when it picks it and down when it is done with it.
LEMMA ExecuteInflight ==
  ASSUME TypeInv, RegistryInv, InflightInv, NEW t \in Threads, ExecuteStep(t)
  PROVE  InflightInv'
  <1> USE DispatchAssumption DEF connVars, runVars, mgrVars, exVars, ghosts
  <1>t. /\ \A u \in Threads : u # t => node'[u] = node[u] /\ pc'[u] = pc[u]
        /\ lb' \subseteq lb /\ lb \subseteq Conns /\ isClosed' = isClosed
    BY DEF ExecuteStep, Get, Load, Evict, EvictLB, Send, SendSync, Done, Track, Retry,
       Return, Goto, P2CRemove, Choices, TypeInv, TypeOK
  <1>n. pc[t] \in {"load", "evict", "evictLB", "send", "sync", "done", "track"}
          => node[t] \in Conns
    BY DEF TypeInv, Shape
  <1> SUFFICES ASSUME NEW c \in lb', ~ isClosed[c]
               PROVE  inflight'[c] = Cardinality(Holders(c)')
    BY <1>t DEF InflightInv
  <1>c. /\ c \in Conns /\ c \in lb /\ inflight[c] = Cardinality(Holders(c))
        /\ inflight \in [Conns -> Int] /\ NoConn # c
    BY <1>t DEF InflightInv, TypeInv, TypeOK
  <1>s. ASSUME HoldsPick(t, c) <=> HoldsPick(t, c)', inflight'[c] = inflight[c]
        PROVE  inflight'[c] = Cardinality(Holders(c)')
    BY <1>t, <1>c, <1>s, HoldersStep
  <1>r. Retry(t) => ~ HoldsPick(t, c)'
    BY <1>c DEF Retry, Return, Goto, HoldsPick, TypeInv, TypeOK
  <1>1. CASE Get(t)
    <2>1. ~ HoldsPick(t, c)
      BY <1>1 DEF Get, HoldsPick
    <2>2. \/ inflight' = inflight /\ pc'[t] = "idle"
          \/ \E d \in lb : /\ inflight' = [inflight EXCEPT ![d] = @ + 1]
                           /\ node'[t] = d /\ pc'[t] = "load"
      BY <1>1 DEF Get, Choices, Pick, Return, Goto, TypeInv, TypeOK
    <2>3. CASE HoldsPick(t, c)'
      <3>1. inflight'[c] = inflight[c] + 1
        BY <1>c, <2>2, <2>3 DEF HoldsPick
      <3>2. QED
        BY <1>t, <1>c, <2>1, <2>3, <3>1, HoldersStep
    <2>4. CASE ~ HoldsPick(t, c)'
      <3>1. inflight'[c] = inflight[c]
        BY <1>c, <2>2, <2>4 DEF HoldsPick
      <3>2. QED
        BY <1>s, <2>1, <2>4, <3>1
    <2>5. QED
      BY <2>3, <2>4
  <1>2. CASE Load(t)
    <2>1. CASE node[t] \notin clients
      <3>1. c # node[t] /\ inflight'[c] = inflight[c] /\ Retry(t)
        BY <1>2, <1>c, <2>1 DEF Load, P2CRemove
      <3>2. QED
        BY <1>r, <1>s, <3>1 DEF HoldsPick
    <2>2. CASE node[t] \in clients
      <3>1. /\ UNCHANGED <<inflight, node>> /\ pc[t] = "load"
            /\ pc'[t] = IF isClosed[node[t]] THEN "evict"
                        ELSE IF cur[t] \in SyncReqs THEN "sync" ELSE "send"
        BY <1>2, <2>2 DEF Load, Goto, TypeInv, TypeOK
      <3>2. QED
        BY <1>s, <3>1 DEF HoldsPick
    <2>3. QED
      BY <2>1, <2>2
  <1>3. CASE Evict(t)
    <2>1. ~ HoldsPick(t, c) /\ inflight' = inflight
      BY <1>3 DEF Evict, HoldsPick
    <2>2. ~ HoldsPick(t, c)'
      BY <1>3, <1>r DEF Evict, Goto, HoldsPick, TypeInv, TypeOK
    <2>3. QED
      BY <1>s, <2>1, <2>2
  <1>4. CASE EvictLB(t)
    <2>1. ~ HoldsPick(t, c) /\ inflight'[c] = inflight[c]
      BY <1>4, <1>c DEF EvictLB, HoldsPick, P2CRemove
    <2>2. ~ HoldsPick(t, c)'
      BY <1>4, <1>r DEF EvictLB
    <2>3. QED
      BY <1>s, <2>1, <2>2
  <1>5. CASE Send(t) \/ SendSync(t)
    <2>1. /\ UNCHANGED <<inflight, node>> /\ pc[t] \in {"send", "sync"}
          /\ pc'[t] = "done"
      BY <1>5 DEF Send, SendSync, Goto, TypeInv, TypeOK
    <2>2. QED
      BY <1>s, <2>1 DEF HoldsPick
  <1>6. CASE Done(t)
    <2>1. /\ pc[t] = "done" /\ pc'[t] \in {"track", "idle"}
          /\ inflight' = IF node[t] \in lb
                         THEN [inflight EXCEPT ![node[t]] = @ - 1] ELSE inflight
      BY <1>6 DEF Done, P2CDone, Return, Goto, TypeInv, TypeOK
    <2>2. ~ HoldsPick(t, c)'
      BY <2>1 DEF HoldsPick
    <2>3. CASE node[t] = c
      <3>1. HoldsPick(t, c) /\ inflight'[c] = inflight[c] - 1
        BY <1>c, <2>1, <2>3 DEF HoldsPick
      <3>2. QED
        BY <1>t, <1>c, <2>2, <3>1, HoldersStep
    <2>4. CASE node[t] # c
      <3>1. ~ HoldsPick(t, c) /\ inflight'[c] = inflight[c]
        BY <1>c, <2>1, <2>4 DEF HoldsPick
      <3>2. QED
        BY <1>s, <2>2, <3>1
    <2>5. QED
      BY <2>3, <2>4
  <1>7. CASE Track(t)
    <2>1. /\ inflight' = inflight /\ pc[t] = "track" /\ pc'[t] = "idle"
      BY <1>7 DEF Track, Return, Goto, TypeInv, TypeOK
    <2>2. QED
      BY <1>s, <2>1 DEF HoldsPick
  <1>8. QED
    BY <1>1, <1>2, <1>3, <1>4, <1>5, <1>6, <1>7 DEF ExecuteStep

\* The other steps pick nothing, and a node joins the balancer unpicked.
LEMMA ConnInflight ==
  ASSUME TypeInv, RegistryInv, InflightInv, NEW c \in Conns,
         ServerStep(c) \/ WorkerRecv(c) \/ Disconnect(c)
  PROVE  InflightInv'
  <1> USE DispatchAssumption DEF connVars, runVars, mgrVars, exVars, ghosts
  <1>1. /\ node' = node
        /\ \A t \in Threads : pc'[t] = pc[t] \/ (pc[t] = "idle" /\ pc'[t] = "get")
        /\ \A d \in Conns : isClosed[d] => isClosed'[d]
        /\ \A d \in lb' : \/ d \in lb /\ inflight'[d] = inflight[d]
                          \/ d = c /\ run[c] = "none" /\ inflight' = inflight
    <2>1. CASE Redispatch(c)
      BY <2>1 DEF Redispatch, Begin, Goto, TypeInv, TypeOK
    <2>2. CASE AddClient(c)
      BY <2>2 DEF AddClient, P2CAdd
    <2>3. CASE RunLBRemove(c)
      BY <2>3 DEF RunLBRemove, P2CRemove, TypeInv, TypeOK
    <2>4. CASE RunCloseConn(c) \/ HbCloseConn(c)
      <3>1. /\ UNCHANGED <<node, pc, lb, inflight>>
            /\ isClosed' = [isClosed EXCEPT ![c] = TRUE]
        BY <2>4 DEF RunCloseConn, HbCloseConn
      <3>2. \A d \in Conns : isClosed[d] => isClosed'[d]
        BY <3>1 DEF TypeInv, TypeOK
      <3>3. QED
        BY <3>1, <3>2
    <2>5. CASE \/ ReadAck(c) \/ ReadError(c) \/ RedispatchEnd(c) \/ RemoveClient(c)
               \/ PingFail(c) \/ WorkerRecv(c) \/ Disconnect(c)
      BY <2>5 DEF ReadAck, ReadError, RedispatchEnd, RemoveClient, PingFail,
         WorkerRecv, Disconnect
    <2>6. QED
      BY <2>1, <2>2, <2>3, <2>4, <2>5 DEF ServerStep, RunExit
  <1>2. \A d \in Conns : Holders(d)' = Holders(d)
    BY <1>1 DEF Holders, HoldsPick
  <1>3. run[c] = "none" => inflight[c] = Cardinality(Holders(c))
    <2> SUFFICES ASSUME run[c] = "none" PROVE inflight[c] = Cardinality(Holders(c))
      OBVIOUS
    <2>1. inflight[c] = 0 /\ Holders(c) = {}
      BY DEF RegistryInv, Fresh, Holders, HoldsPick
    <2>2. QED
      BY <2>1, FS_EmptySet
  <1>4. lb' \subseteq Conns
    BY <1>1 DEF TypeInv, TypeOK
  <1>5. QED
    BY <1>1, <1>2, <1>3, <1>4 DEF InflightInv

LEMMA InflightNext ==
  TypeInv /\ RegistryInv /\ InflightInv /\ [Next]_vars => InflightInv'
  <1> SUFFICES ASSUME TypeInv, RegistryInv, InflightInv, [Next]_vars
               PROVE  InflightInv'
    OBVIOUS
  <1>1. CASE \E r \in Reqs : Call(r)
    <2>1. PICK r \in Reqs : Call(r)
      BY <1>1
    <2>2. /\ UNCHANGED <<lb, inflight, isClosed, node>> /\ r \in Threads
          /\ pc[r] = "idle" /\ pc' = [pc EXCEPT ![r] = "get"]
      BY <2>1 DEF Call, Begin, Goto, Threads, connVars, mgrVars
    <2>3. \A c \in Conns : Holders(c)' = Holders(c)
      BY <2>2 DEF Holders, HoldsPick, TypeInv, TypeOK
    <2>4. QED
      BY <2>2, <2>3 DEF InflightInv, TypeInv, TypeOK
  <1>2. CASE \E t \in Threads : ExecuteStep(t)
    BY <1>2, ExecuteInflight
  <1>3. CASE \E c \in Conns : ServerStep(c) \/ WorkerRecv(c) \/ Disconnect(c)
    BY <1>3, ConnInflight
  <1>4. CASE UNCHANGED vars
    BY <1>4 DEF vars, connVars, mgrVars, exVars, InflightInv, Holders, HoldsPick
  <1>5. QED
    BY <1>1, <1>2, <1>3, <1>4 DEF Next

\* The inflight counter of a live node is the number of calls between Get and
\* Done on it, through every exit of Execute and every eviction of others.
THEOREM CountersExact == Spec => []InflightExact
  <1>1. Init => InflightInv
    BY DEF Init, InflightInv
  <1>2. InflightInv => InflightExact
    BY DEF InflightInv, InflightExact, Holders
  <1>3. QED
    BY <1>1, <1>2, RegistryInvariant, InflightNext, PTL DEF Spec
-----------------------------------------------------------------------------
(* Dispatch implements RequestLife.                                        *)

InCall(r)  == \E t \in Threads : cur[t] = r
InQueue(r) == \E c \in Conns : r \in queue[c]
Tracked(r) == \E c \in Conns : r \in pendingReqs[c]

\* The stages, without the pc of Execute.
StageLaw(r) ==
  /\ outcome[r] = "new" => LifeOf(r) = "new"
  /\ outcome[r] # "new" =>
       /\ InCall(r) => LifeOf(r) = "held"
       /\ ~ InCall(r) /\ InQueue(r) => LifeOf(r) = "drained"
       /\ ~ InCall(r) /\ ~ InQueue(r) /\ Tracked(r) => LifeOf(r) = "tracked"
       /\ ~ InCall(r) /\ ~ InQueue(r) /\ ~ Tracked(r) => LifeOf(r) = "over"

\* CustodyInv makes the cases of LifeOf exclusive.
LEMMA Stages ==
  /\ TypeInv /\ CustodyInv => \A r \in Reqs : StageLaw(r)
  /\ TypeInv' /\ CustodyInv' => \A r \in Reqs : StageLaw(r)'
  <1>1. ASSUME TypeInv, CustodyInv, NEW r \in Reqs PROVE StageLaw(r)
    <2>1. InCall(r) <=> \E t \in Threads : pc[t] # "idle" /\ cur[t] = r
      BY <1>1, DispatchAssumption DEF InCall, TypeInv, Shape
    <2>2. /\ outcome[r] = "new" => ~ InCall(r) /\ ~ InQueue(r) /\ ~ Tracked(r)
          /\ InCall(r) => ~ InQueue(r) /\ ~ Tracked(r)
          /\ InQueue(r) => ~ Tracked(r)
      BY <1>1 DEF InCall, InQueue, Tracked, CustodyInv, NewOut, Out, CalledNotHeld, HeldOnce
    <2>3. QED
      BY <2>1, <2>2 DEF StageLaw, LifeOf, InQueue, Tracked
  <1>2. ASSUME TypeInv', CustodyInv', NEW r \in Reqs PROVE StageLaw(r)'
    <2>1. InCall(r)' <=> \E t \in Threads : pc'[t] # "idle" /\ cur'[t] = r
      BY <1>2, DispatchAssumption DEF InCall, TypeInv, Shape
    <2>2. /\ outcome'[r] = "new" => ~ InCall(r)' /\ ~ InQueue(r)' /\ ~ Tracked(r)'
          /\ InCall(r)' => ~ InQueue(r)' /\ ~ Tracked(r)'
          /\ InQueue(r)' => ~ Tracked(r)'
      BY <1>2 DEF InCall, InQueue, Tracked, CustodyInv, NewOut, Out, CalledNotHeld, HeldOnce
    <2>3. QED
      BY <2>1, <2>2 DEF StageLaw, LifeOf, InQueue, Tracked
  <1>3. QED
    BY <1>1, <1>2

\* A step that moves no request of another one's place leaves its stage.
SamePlace(r) ==
  /\ outcome[r] = "new" <=> outcome'[r] = "new"
  /\ InCall(r)' <=> InCall(r)
  /\ InQueue(r)' <=> InQueue(r)
  /\ Tracked(r)' <=> Tracked(r)

LEMMA SameStage ==
  ASSUME TypeInv, CustodyInv, TypeInv', CustodyInv', NEW r \in Reqs, SamePlace(r)
  PROVE  LifeOf(r)' = LifeOf(r)
  BY Stages DEF SamePlace, StageLaw

LifeStep == [Life!LifeNext]_([r \in Reqs |-> LifeOf(r)])

\* A step that moves no request is a stutter of RequestLife,
LEMMA NobodyMoves ==
  ASSUME TypeInv, CustodyInv, TypeInv', CustodyInv', \A r \in Reqs : SamePlace(r)
  PROVE  LifeStep
  BY SameStage DEF LifeStep

\* and one that moves a request as RequestLife allows is a step of it.
LEMMA OneMoves ==
  ASSUME TypeInv, CustodyInv, TypeInv', CustodyInv', NEW r \in Reqs, \A q \in Reqs : q # r => SamePlace(q),
         \/ LifeOf(r) = "new"     /\ LifeOf(r)' = "held"
         \/ LifeOf(r) = "held"    /\ LifeOf(r)' \in {"tracked", "over"}
         \/ LifeOf(r) = "tracked" /\ LifeOf(r)' = "over"
         \/ LifeOf(r) = "drained" /\ LifeOf(r)' = "held"
  PROVE  LifeStep
  <1>1. \A q \in Reqs : q # r => LifeOf(q)' = LifeOf(q)
    BY SameStage
  <1>2. [q \in Reqs |-> LifeOf(q)]'
          = [[q \in Reqs |-> LifeOf(q)] EXCEPT ![r] = LifeOf(r)']
    BY <1>1
  <1>3. Life!Move(r, LifeOf(r), LifeOf(r)')
    BY <1>2 DEF Life!Move
  <1>4. QED
    BY <1>3 DEF LifeStep, Life!LifeNext

\* Leaving Execute without tracking ends the life of the request.
LEMMA ReturnLife ==
  ASSUME TypeInv, CustodyInv, TypeInv', CustodyInv', NEW t \in Threads, pc[t] # "idle",
         NEW good \in BOOLEAN, Return(t, good), UNCHANGED <<pendingReqs, queue>>
  PROVE  LifeStep
  <1>0. PICK r \in Reqs : r = cur[t]
    BY DEF TypeInv, Shape
  <1>1. /\ r \in Reqs /\ cur' = [cur EXCEPT ![t] = NoReq]
        /\ \A q \in Reqs : q # r => outcome'[q] = outcome[q]
    BY <1>0 DEF Return, TypeInv, TypeOK
  <1>2. outcome[r] # "new" /\ outcome'[r] # "new"
    <2>1. outcome[r] # "new"
      BY <1>0 DEF CustodyInv, NewOut, Out
    <2>2. QED
      BY <1>0, <2>1 DEF Return, Threads, TypeInv, TypeOK
  <1>3. InCall(r) /\ ~ InCall(r)' /\ ~ InQueue(r)' /\ ~ Tracked(r)'
    BY <1>0, <1>1, DispatchAssumption
    DEF InCall, InQueue, Tracked, CustodyInv, CalledOnce, CalledNotHeld, TypeInv, TypeOK
  <1>4. \A q \in Reqs : q # r => SamePlace(q)
    BY <1>0, <1>1, DispatchAssumption DEF SamePlace, InCall, InQueue, Tracked, TypeInv, TypeOK
  <1>5. LifeOf(r) = "held" /\ LifeOf(r)' = "over"
    BY <1>1, <1>2, <1>3, Stages DEF StageLaw
  <1>6. QED
    BY <1>1, <1>4, <1>5, OneMoves

\* The calls of Execute follow RequestLife.
LEMMA ExecuteLife ==
  ASSUME TypeInv, CustodyInv, TypeInv', CustodyInv', NEW t \in Threads, ExecuteStep(t)
  PROVE  LifeStep
  <1> USE DEF connVars, runVars, mgrVars, exVars, ghosts
  <1>u. ASSUME UNCHANGED <<cur, queue, pendingReqs, outcome>> PROVE LifeStep
    BY <1>u, NobodyMoves DEF SamePlace, InCall, InQueue, Tracked
  <1>r. ASSUME Retry(t), pc[t] # "idle", UNCHANGED <<pendingReqs, queue>> PROVE LifeStep
    BY <1>r, <1>u, ReturnLife DEF Retry
  <1>1. CASE Get(t)
    BY <1>1, <1>u, ReturnLife DEF Get
  <1>2. CASE Load(t)
    BY <1>2, <1>u, <1>r DEF Load
  <1>3. CASE Evict(t)
    BY <1>3, <1>u, <1>r DEF Evict
  <1>4. CASE EvictLB(t)
    BY <1>4, <1>r DEF EvictLB
  <1>5. CASE Send(t) \/ SendSync(t)
    BY <1>5, <1>u DEF Send, SendSync
  <1>6. CASE Done(t)
    <2>1. ok[t] \in BOOLEAN
      BY DEF TypeInv, TypeOK
    <2>2. QED
      BY <1>6, <1>u, <2>1, ReturnLife DEF Done
  <1>7. CASE Track(t)
    <2>r. PICK r \in Reqs : r = cur[t]
      BY <1>7 DEF Track, TypeInv, Shape
    <2>c. PICK c \in Conns : c = node[t]
      BY <1>7 DEF Track, TypeInv, Shape
    <2>1. CASE c \notin pendKeys
      BY <1>7, <2>c, <2>1, ReturnLife DEF Track
    <2>2. CASE c \in pendKeys
      <3>1. /\ r \in Reqs /\ c \in Conns /\ cur' = [cur EXCEPT ![t] = NoReq]
            /\ pendingReqs' = [pendingReqs EXCEPT ![c] = @ \cup {r}]
            /\ queue' = queue
            /\ \A q \in Reqs : q # r => outcome'[q] = outcome[q]
        BY <1>7, <2>r, <2>c, <2>2 DEF Track, Return, TypeInv, TypeOK, Shape
      <3>2. outcome[r] # "new" /\ outcome'[r] # "new"
        <4>1. outcome[r] # "new"
          BY <2>r DEF CustodyInv, NewOut, Out
        <4>2. QED
          BY <1>7, <2>r, <4>1 DEF Track, Return, Threads, TypeInv, TypeOK
      <3>3. InCall(r) /\ ~ InCall(r)' /\ ~ InQueue(r)'
        BY <2>r, <3>1, DispatchAssumption
        DEF InCall, InQueue, CustodyInv, CalledOnce, CalledNotHeld, TypeInv, TypeOK
      <3>4. Tracked(r)'
        BY <3>1 DEF Tracked, TypeInv, TypeOK
      <3>5. \A q \in Reqs : q # r => SamePlace(q)
        <4>1. \A q \in Reqs : q # r => (InCall(q)' <=> InCall(q))
          BY <2>r, <3>1, DispatchAssumption DEF InCall, TypeInv, TypeOK
        <4>2. \A q \in Reqs : q # r => (Tracked(q)' <=> Tracked(q))
          BY <3>1 DEF Tracked, TypeInv, TypeOK
        <4>3. QED
          BY <3>1, <4>1, <4>2 DEF SamePlace, InQueue
      <3>6. LifeOf(r) = "held" /\ LifeOf(r)' = "tracked"
        BY <3>1, <3>2, <3>3, <3>4, Stages DEF StageLaw
      <3>7. QED
        BY <3>1, <3>5, <3>6, OneMoves
    <2>3. QED
      BY <2>1, <2>2
  <1>8. QED
    BY <1>1, <1>2, <1>3, <1>4, <1>5, <1>6, <1>7 DEF ExecuteStep

\* So do Run and what is read from a connection.
LEMMA ConnLife ==
  ASSUME TypeInv, CustodyInv, TypeInv', CustodyInv', RegistryInv, NEW c \in Conns,
         ServerStep(c) \/ WorkerRecv(c) \/ Disconnect(c)
  PROVE  LifeStep
  <1> USE DEF connVars, runVars, mgrVars, exVars, ghosts
  <1>u. ASSUME UNCHANGED <<cur, queue, pendingReqs, outcome>> PROVE LifeStep
    BY <1>u, NobodyMoves DEF SamePlace, InCall, InQueue, Tracked
  <1>1. CASE ReadAck(c)
    <2>1. PICK r \in Reqs : r = Head(up[c])
      BY <1>1, QueueUpdate DEF ReadAck, TypeInv, TypeOK
    <2>2. /\ UNCHANGED <<cur, queue, outcome>>
          /\ pendingReqs' = [pendingReqs EXCEPT ![c] = @ \ {r}]
      <3>1. CASE c \in pendKeys
        BY <1>1, <2>1, <3>1 DEF ReadAck, AcknowledgeRequest
      <3>2. CASE c \notin pendKeys
        <4>1. pendingReqs[c] = {} /\ pendingReqs' = pendingReqs
          BY <1>1, <3>2 DEF ReadAck, AcknowledgeRequest, CustodyInv, KeysKept
        <4>2. QED
          BY <1>1, <4>1 DEF ReadAck, TypeInv, TypeOK
      <3>3. QED
        BY <3>1, <3>2
    <2>3. \A q \in Reqs : q # r => SamePlace(q)
      BY <2>2 DEF SamePlace, InCall, InQueue, Tracked, TypeInv, TypeOK
    <2>4. CASE r \in pendingReqs[c]
      <3>1. outcome[r] # "new" /\ ~ InCall(r) /\ ~ InQueue(r) /\ Tracked(r)
        BY <2>4 DEF InCall, InQueue, Tracked, CustodyInv, NewOut, Out, CalledNotHeld, HeldOnce
      <3>2. ~ InCall(r)' /\ ~ InQueue(r)'
        BY <2>2, <3>1 DEF InCall, InQueue
      <3>3. ~ Tracked(r)'
        BY <2>2, <2>4 DEF Tracked, CustodyInv, HeldOnce, TypeInv, TypeOK
      <3>4. LifeOf(r) = "tracked" /\ LifeOf(r)' = "over"
        BY <2>2, <3>1, <3>2, <3>3, Stages DEF StageLaw
      <3>5. QED
        BY <2>3, <3>4, OneMoves
    <2>5. CASE r \notin pendingReqs[c]
      <3>1. pendingReqs' = pendingReqs
        BY <2>2, <2>5 DEF TypeInv, TypeOK
      <3>2. QED
        BY <1>u, <2>2, <3>1
    <2>6. QED
      BY <2>4, <2>5
  <1>2. CASE ReadError(c)
    <2> DEFINE S == pendingReqs[c]
    <2>1. /\ UNCHANGED <<cur, outcome>> /\ S \subseteq Reqs
          /\ queue' = [queue EXCEPT ![c] = S]
          /\ pendingReqs' = [pendingReqs EXCEPT ![c] = {}]
      BY <1>2 DEF ReadError, DrainPending, CustodyInv, KeysKept, TypeInv, TypeOK
    <2>2. ASSUME NEW r \in S PROVE LifeOf(r) = "tracked" /\ LifeOf(r)' = "drained"
      <3>1. outcome[r] # "new" /\ ~ InCall(r) /\ ~ InQueue(r) /\ Tracked(r) /\ r \in Reqs
        BY <2>1
        DEF InCall, InQueue, Tracked, CustodyInv, NewOut, Out, CalledNotHeld, HeldOnce
      <3>2. ~ InCall(r)' /\ InQueue(r)'
        BY <2>1, <3>1 DEF InCall, InQueue, TypeInv, TypeOK
      <3>3. QED
        BY <2>1, <3>1, <3>2, Stages DEF StageLaw
    <2>3. queue[c] = {}
      BY <1>2 DEF ReadError, RegistryInv, AfterRead
    <2>4. \A r \in Reqs : r \notin S => SamePlace(r)
      BY <2>1, <2>3 DEF SamePlace, InCall, InQueue, Tracked, TypeInv, TypeOK
    <2>5. \A r \in Reqs : r \notin S => LifeOf(r)' = LifeOf(r)
      BY <2>4, SameStage
    <2> DEFINE life == [r \in Reqs |-> LifeOf(r)]
    <2>6. life' = [r \in Reqs |-> IF r \in S THEN "drained" ELSE life[r]]
      BY <2>2, <2>5
    <2>7. S \in SUBSET {r \in Reqs : life[r] = "tracked"}
      BY <2>1, <2>2
    <2>8. Life!GiveBack
      BY <2>6, <2>7 DEF Life!GiveBack
    <2>9. QED
      BY <2>8 DEF LifeStep, Life!LifeNext
  <1>3. CASE Redispatch(c)
    <2>1. PICK r \in queue[c] : /\ cur[c] = NoReq /\ cur' = [cur EXCEPT ![c] = r]
                                /\ queue' = [queue EXCEPT ![c] = @ \ {r}]
      BY <1>3 DEF Redispatch, Begin, TypeInv, Shape, Threads
    <2>2. r \in Reqs /\ UNCHANGED <<pendingReqs, outcome>> /\ c \in Threads
      BY <1>3 DEF Redispatch, TypeInv, TypeOK, Threads
    <2>3. outcome[r] # "new" /\ ~ InCall(r) /\ InQueue(r) /\ InCall(r)'
      BY <2>1, <2>2
      DEF InCall, InQueue, CustodyInv, NewOut, Out, CalledNotHeld, TypeInv, TypeOK
    <2>4. \A q \in Reqs : q # r => SamePlace(q)
      <3>1. \A q \in Reqs : q # r => (InCall(q)' <=> InCall(q))
        BY <2>1, <2>2, DispatchAssumption DEF InCall, TypeInv, TypeOK
      <3>2. \A q \in Reqs : q # r => (InQueue(q)' <=> InQueue(q))
        BY <2>1 DEF InQueue, TypeInv, TypeOK
      <3>3. QED
        BY <2>2, <3>1, <3>2 DEF SamePlace, Tracked
    <2>5. LifeOf(r) = "drained" /\ LifeOf(r)' = "held"
      BY <2>2, <2>3, Stages DEF StageLaw
    <2>6. QED
      BY <2>2, <2>4, <2>5, OneMoves
  <1>4. CASE \/ AddClient(c) \/ RedispatchEnd(c) \/ RemoveClient(c) \/ RunCloseConn(c)
             \/ RunLBRemove(c) \/ PingFail(c) \/ HbCloseConn(c) \/ WorkerRecv(c)
             \/ Disconnect(c)
    BY <1>4, <1>u DEF AddClient, RedispatchEnd, RemoveClient, RunCloseConn, RunLBRemove,
       PingFail, HbCloseConn, WorkerRecv, Disconnect
  <1>5. QED
    BY <1>1, <1>2, <1>3, <1>4 DEF ServerStep, RunExit

LEMMA NextLife ==
  TypeInv /\ CustodyInv /\ RegistryInv /\ (TypeInv /\ CustodyInv)' /\ [Next]_vars
    => LifeStep
  <1> SUFFICES ASSUME TypeInv, CustodyInv, RegistryInv, TypeInv', CustodyInv', [Next]_vars
               PROVE  LifeStep
    OBVIOUS
  <1>1. CASE \E r \in Reqs : Call(r)
    <2>1. PICK r \in Reqs : Call(r)
      BY <1>1
    <2>2. /\ r \in Threads /\ cur[r] = NoReq /\ cur' = [cur EXCEPT ![r] = r]
          /\ UNCHANGED <<queue, pendingReqs>>
          /\ outcome[r] = "new" /\ outcome'[r] = "calling"
          /\ \A q \in Reqs : q # r => outcome'[q] = outcome[q]
      BY <2>1 DEF Call, Begin, Threads, runVars, mgrVars, TypeInv, TypeOK, Shape
    <2>3. InCall(r)'
      BY <2>2 DEF InCall, TypeInv, TypeOK
    <2>4. \A q \in Reqs : q # r => SamePlace(q)
      <3>1. \A q \in Reqs : q # r => (InCall(q)' <=> InCall(q))
        BY <2>2, DispatchAssumption DEF InCall, TypeInv, TypeOK
      <3>2. QED
        BY <2>2, <3>1 DEF SamePlace, InQueue, Tracked
    <2>5. LifeOf(r) = "new" /\ LifeOf(r)' = "held"
      BY <2>2, <2>3, Stages DEF StageLaw
    <2>6. QED
      BY <2>4, <2>5, OneMoves
  <1>2. CASE \E t \in Threads : ExecuteStep(t)
    BY <1>2, ExecuteLife
  <1>3. CASE \E c \in Conns : ServerStep(c) \/ WorkerRecv(c) \/ Disconnect(c)
    BY <1>3, ConnLife
  <1>4. CASE UNCHANGED vars
    BY <1>4, NobodyMoves DEF vars, runVars, mgrVars, exVars, ghosts, SamePlace, InCall,
       InQueue, Tracked
  <1>5. QED
    BY <1>1, <1>2, <1>3, <1>4 DEF Next

\* Dispatch implements RequestLife: each of its steps, of any goroutine, moves
\* at most one request one stage on, or gives back the requests of one client.
THEOREM DispatchImplementsLife == Spec => ImplementsRequestLife
  <1>1. Init => Life!LifeInit
    <2> SUFFICES ASSUME Init PROVE \A r \in Reqs : LifeOf(r) = "new"
      BY DEF Life!LifeInit
    <2>1. TypeInv /\ CustodyInv
      BY TypeInit, CustodyInit
    <2>2. QED
      BY <2>1, Stages DEF StageLaw, Init
  <1>2. TypeInv /\ CustodyInv /\ RegistryInv /\ (TypeInv /\ CustodyInv)' /\ [Next]_vars
          => [Life!LifeNext]_([r \in Reqs |-> LifeOf(r)])
    BY NextLife DEF LifeStep
  <1>3. QED
    BY <1>1, <1>2, CustodyInvariant, RegistryInvariant, PTL DEF Spec, ImplementsRequestLife, Life!LifeSpec
-----------------------------------------------------------------------------
(* Delivery: what a request can still cost.                                *)

\* The connections that Run has drained.
Lost == {c \in Conns : run[c] \notin {"none", "read"}}

\* The copies of r written to connections and not read by a worker.
Copies(r) ==
  {p \in Conns \X Nat : p[2] \in 1..Len(down[p[1]]) /\ down[p[1]][p[2]] = r}

\* Thread t will send r.
WillSend(t, r) ==
  cur[t] = r /\ pc[t] \in {"get", "load", "evict", "evictLB", "send", "sync"}

Due(r) ==
  \/ outcome[r] = "new"
  \/ \E t \in Threads : WillSend(t, r)
  \/ InQueue(r)

Cost(r) == runs[r] + Cardinality(Copies(r)) + (IF Due(r) THEN 1 ELSE 0)

CostInv ==
  /\ runs \in [Reqs -> Nat]
  /\ \A r \in Reqs : /\ IsFiniteSet(Copies(r))
                     /\ Cost(r) <= 1 + Cardinality(Lost)
-----------------------------------------------------------------------------
(* The sets that are counted.                                              *)

\* Connections can be counted.
LEMMA LostFinite ==
  /\ IsFiniteSet(Lost) /\ Cardinality(Lost) \in Nat
  /\ IsFiniteSet(Lost') /\ Cardinality(Lost') \in Nat
  <1>1. Lost \subseteq Conns /\ Lost' \subseteq Conns /\ IsFiniteSet(Conns)
    BY DispatchAssumption DEF Lost
  <1>2. IsFiniteSet(Lost) /\ IsFiniteSet(Lost')
    BY <1>1, FS_Subset
  <1>3. QED
    BY <1>2, FS_CardinalityType

\* No connection gets out of Lost.
LEMMA LostGrows ==
  ASSUME Lost \subseteq Lost'
  PROVE  Cardinality(Lost) <= Cardinality(Lost')
  BY LostFinite, FS_Subset

\* Copies that disappear with a connection.
LEMMA CopiesVanish ==
  ASSUME TypeInv, NEW r, IsFiniteSet(Copies(r)),
         \A c \in Conns : down'[c] = down[c] \/ down'[c] = <<>>
  PROVE  /\ IsFiniteSet(Copies(r)')
         /\ Cardinality(Copies(r)') <= Cardinality(Copies(r))
  <1>1. Copies(r)' \subseteq Copies(r)
    BY DEF Copies
  <1>2. QED
    BY <1>1, FS_Subset

\* A request is written to connection c.
LEMMA CopyWritten ==
  ASSUME TypeInv, NEW c \in Conns, NEW q \in Reqs,
         down' = [down EXCEPT ![c] = Append(@, q)],
         NEW r \in Reqs, IsFiniteSet(Copies(r))
  PROVE  /\ IsFiniteSet(Copies(r)')
         /\ r # q => Cardinality(Copies(r)') = Cardinality(Copies(r))
         /\ r = q => Cardinality(Copies(r)') = Cardinality(Copies(r)) + 1
  <1> DEFINE n == Len(down[c])
  <1>1. /\ down[c] \in Seq(Reqs) /\ n \in Nat
        /\ down'[c] = Append(down[c], q)
        /\ \A d \in Conns : d # c => down'[d] = down[d]
    BY DEF TypeInv, TypeOK
  <1>2. /\ Len(down'[c]) = n + 1 /\ down'[c][n + 1] = q
        /\ \A i \in 1..n : down'[c][i] = down[c][i]
    BY <1>1
  <1>3. r # q => Copies(r)' = Copies(r)
    BY <1>1, <1>2 DEF Copies
  <1>4. r = q => Copies(r)' = Copies(r) \cup {<<c, n + 1>>}
    BY <1>1, <1>2 DEF Copies
  <1>5. <<c, n + 1>> \notin Copies(r)
    BY <1>1 DEF Copies
  <1>6. Cardinality(Copies(r)) \in Nat
    BY FS_CardinalityType
  <1>7. QED
    BY <1>3, <1>4, <1>5, <1>6, FS_AddElement

\* What Tail leaves of a queue.
LEMMA TailMovesUp ==
  ASSUME NEW S, NEW s \in Seq(S), s # <<>>
  PROVE  /\ Len(Tail(s)) = Len(s) - 1 /\ Len(s) \in Nat \ {0}
         /\ \A i \in 1..(Len(s) - 1) : Tail(s)[i] = s[i + 1]
         /\ Head(s) = s[1]
  OBVIOUS

\* The oldest request on connection c is read: the others move up.
LEMMA CopyRead ==
  ASSUME TypeInv, NEW c \in Conns, down[c] # <<>>,
         down' = [down EXCEPT ![c] = Tail(@)],
         NEW r \in Reqs, IsFiniteSet(Copies(r))
  PROVE  /\ IsFiniteSet(Copies(r)')
         /\ Cardinality(Copies(r)') <= Cardinality(Copies(r))
         /\ r = Head(down[c]) => Cardinality(Copies(r)') <= Cardinality(Copies(r)) - 1
  <1> DEFINE n == Len(down[c])
             T == Copies(r) \ {<<c, 1>>}
             f == [p \in Copies(r)' |-> IF p[1] = c THEN <<c, p[2] + 1>> ELSE p]
  <1>1. /\ down[c] \in Seq(Reqs) /\ n \in Nat \ {0}
        /\ down'[c] = Tail(down[c])
        /\ \A d \in Conns : d # c => down'[d] = down[d]
    BY DEF TypeInv, TypeOK
  <1>2. /\ Len(down'[c]) = n - 1
        /\ \A i \in 1..(n - 1) : down'[c][i] = down[c][i + 1]
        /\ Head(down[c]) = down[c][1]
    BY <1>1, TailMovesUp
  <1>3. \A p \in Copies(r)' : f[p] \in T
    <2> SUFFICES ASSUME NEW p \in Copies(r)' PROVE f[p] \in T
      OBVIOUS
    <2>1. /\ p \in Conns \X Nat /\ p = <<p[1], p[2]>>
          /\ p[2] \in 1..Len(down'[p[1]]) /\ down'[p[1]][p[2]] = r
      BY DEF Copies
    <2>2. CASE p[1] = c
      <3>1. p[2] + 1 \in 1..n /\ p[2] + 1 # 1 /\ down[c][p[2] + 1] = r
        BY <1>1, <1>2, <2>1, <2>2
      <3>2. <<c, p[2] + 1>> \in Copies(r) /\ <<c, p[2] + 1>> # <<c, 1>>
        BY <3>1 DEF Copies
      <3>3. QED
        BY <2>2, <3>2
    <2>3. CASE p[1] # c
      <3>1. p \in Copies(r) /\ p # <<c, 1>>
        BY <1>1, <2>1, <2>3 DEF Copies
      <3>2. QED
        BY <2>3, <3>1
    <2>4. QED
      BY <2>2, <2>3
  <1>4. \A p, q \in Copies(r)' : f[p] = f[q] => p = q
    <2> SUFFICES ASSUME NEW p \in Copies(r)', NEW q \in Copies(r)', f[p] = f[q]
                 PROVE  p = q
      OBVIOUS
    <2>1. /\ p = <<p[1], p[2]>> /\ p[2] \in Nat
          /\ q = <<q[1], q[2]>> /\ q[2] \in Nat
      BY DEF Copies
    <2>2. QED
      BY <2>1
  <1>5. f \in Injection(Copies(r)', T)
    BY <1>3, <1>4 DEF Injection, IsInjective
  <1>6. /\ IsFiniteSet(T)
        /\ Cardinality(T) = IF <<c, 1>> \in Copies(r) THEN Cardinality(Copies(r)) - 1
                                                     ELSE Cardinality(Copies(r))
    BY FS_RemoveElement
  <1>7. IsFiniteSet(Copies(r)') /\ Cardinality(Copies(r)') <= Cardinality(T)
    BY <1>5, <1>6, FS_Injection
  <1>8. r = Head(down[c]) => <<c, 1>> \in Copies(r)
    BY <1>1, <1>2 DEF Copies
  <1>9. Cardinality(Copies(r)) \in Nat /\ Cardinality(Copies(r)') \in Nat
    BY <1>7, FS_CardinalityType
  <1>10. QED
    BY <1>6, <1>7, <1>8, <1>9
-----------------------------------------------------------------------------
(* The steps.                                                              *)

\* A step that makes nothing due, writes nothing and runs nothing.
LEMMA QuietCost ==
  ASSUME TypeInv, CostInv, runs' = runs, Lost \subseteq Lost',
         \A c \in Conns : down'[c] = down[c] \/ down'[c] = <<>>,
         \A r \in Reqs : Due(r)' => Due(r)
  PROVE  CostInv'
  <1> SUFFICES ASSUME NEW r \in Reqs
               PROVE  IsFiniteSet(Copies(r)') /\ Cost(r)' <= 1 + Cardinality(Lost')
    BY DEF CostInv
  <1>1. /\ IsFiniteSet(Copies(r)) /\ Cost(r) <= 1 + Cardinality(Lost)
        /\ runs[r] \in Nat /\ (Due(r)' => Due(r))
    BY DEF CostInv
  <1>2. IsFiniteSet(Copies(r)') /\ Cardinality(Copies(r)') <= Cardinality(Copies(r))
    BY <1>1, CopiesVanish
  <1>3. Cardinality(Copies(r)) \in Nat /\ Cardinality(Copies(r)') \in Nat
    BY <1>1, <1>2, FS_CardinalityType
  <1>4. QED
    BY <1>1, <1>2, <1>3, LostFinite, LostGrows DEF Cost

\* The step makes nothing due.
NothingDue ==
  \A r \in Reqs : /\ outcome'[r] = "new" => outcome[r] = "new"
                  /\ \A t \in Threads : WillSend(t, r)' => WillSend(t, r)

\* Leaving Execute makes nothing due,
LEMMA ReturnDue ==
  ASSUME TypeInv, NEW t \in Threads, NEW good \in BOOLEAN, Return(t, good)
  PROVE  NothingDue
  BY DispatchAssumption DEF Return, Goto, TypeInv, TypeOK, NothingDue, WillSend

\* nor does another round of GetClientByBalance,
LEMMA RetryDue ==
  ASSUME TypeInv, NEW t \in Threads, Retry(t),
         pc[t] \in {"load", "evict", "evictLB"}
  PROVE  NothingDue
  <1>1. CASE Return(t, FALSE)
    BY <1>1, ReturnDue
  <1>2. CASE UNCHANGED <<cur, outcome>> /\ Goto(t, "get")
    BY <1>2 DEF Goto, TypeInv, TypeOK, NothingDue, WillSend
  <1>3. QED
    BY <1>1, <1>2 DEF Retry

\* nor any step of Execute.
LEMMA ExecuteDue ==
  ASSUME TypeInv, NEW t \in Threads, ExecuteStep(t)
  PROVE  NothingDue
  <1> USE DEF ghosts
  <1>g. ASSUME NEW l, Goto(t, l), UNCHANGED <<cur, outcome>>,
               \/ l \notin {"get", "load", "evict", "evictLB", "send", "sync"}
               \/ pc[t] \in {"get", "load", "evict", "evictLB", "send", "sync"}
        PROVE  NothingDue
    BY <1>g DEF Goto, TypeInv, TypeOK, NothingDue, WillSend
  <1>1. CASE Get(t)
    <2>1. CASE Return(t, FALSE)
      BY <2>1, ReturnDue
    <2>2. CASE Goto(t, "load") /\ UNCHANGED <<cur, outcome>>
      BY <1>1, <1>g, <2>2 DEF Get
    <2>3. QED
      BY <1>1, <2>1, <2>2 DEF Get
  <1>2. CASE Load(t)
    <2>1. CASE node[t] \notin clients
      BY <1>2, <2>1, RetryDue DEF Load
    <2>2. CASE node[t] \in clients
      BY <1>2, <2>2, <1>g DEF Load
    <2>3. QED
      BY <2>1, <2>2
  <1>3. CASE Evict(t)
    <2>1. CASE node[t] \notin clients
      BY <1>3, <2>1, RetryDue DEF Evict
    <2>2. CASE node[t] \in clients
      BY <1>3, <2>2, <1>g DEF Evict
    <2>3. QED
      BY <2>1, <2>2
  <1>4. CASE EvictLB(t)
    BY <1>4, RetryDue DEF EvictLB
  <1>5. CASE Send(t) \/ SendSync(t)
    BY <1>5, <1>g DEF Send, SendSync
  <1>6. CASE Done(t)
    <2>1. ok[t] \in BOOLEAN
      BY DEF TypeInv, TypeOK
    <2>2. CASE Goto(t, "track") /\ UNCHANGED <<cur, outcome>>
      BY <2>2, <1>g
    <2>3. QED
      BY <1>6, <2>1, <2>2, ReturnDue DEF Done
  <1>7. CASE Track(t)
    BY <1>7, ReturnDue DEF Track
  <1>8. QED
    BY <1>1, <1>2, <1>3, <1>4, <1>5, <1>6, <1>7 DEF ExecuteStep

\* A request that is written is due no longer: no other call has it.
LEMMA SendCost ==
  ASSUME TypeInv, CustodyInv, CostInv, NEW t \in Threads, Send(t), NEW q \in Reqs,
         q = cur[t], NEW c \in Conns, down' = [down EXCEPT ![c] = Append(@, q)],
         runs' = runs
  PROVE  CostInv'
  <1>1. /\ UNCHANGED <<run, queue, cur, outcome>> /\ Lost' = Lost
        /\ pc[t] = "send" /\ pc'[t] = "done"
    BY DEF Send, Goto, runVars, ghosts, Lost, TypeInv, TypeOK
  <1>2. NothingDue
    BY ExecuteDue DEF ExecuteStep
  <1>3. Due(q)
    BY <1>1 DEF Due, WillSend
  <1>4. ~ Due(q)'
    <2>1. outcome[q] # "new" /\ ~ InQueue(q)
      BY DEF CustodyInv, NewOut, Out, CalledNotHeld, InQueue
    <2>2. \A u \in Threads : u # t => cur[u] # q
      BY DispatchAssumption DEF CustodyInv, CalledOnce
    <2>3. QED
      BY <1>1, <2>1, <2>2 DEF Due, WillSend, InQueue
  <1> SUFFICES ASSUME NEW r \in Reqs
               PROVE  IsFiniteSet(Copies(r)') /\ Cost(r)' <= 1 + Cardinality(Lost')
    BY DEF CostInv
  <1>5. /\ IsFiniteSet(Copies(r)) /\ Cost(r) <= 1 + Cardinality(Lost)
        /\ runs[r] \in Nat /\ (Due(r)' => Due(r))
    BY <1>1, <1>2 DEF CostInv, Due, NothingDue, InQueue
  <1>6. /\ IsFiniteSet(Copies(r)')
        /\ r # q => Cardinality(Copies(r)') = Cardinality(Copies(r))
        /\ r = q => Cardinality(Copies(r)') = Cardinality(Copies(r)) + 1
    BY <1>5, CopyWritten
  <1>7. Cardinality(Copies(r)) \in Nat
    BY <1>5, FS_CardinalityType
  <1>8. CASE r = q
    BY <1>1, <1>3, <1>4, <1>5, <1>6, <1>7, <1>8, LostFinite DEF Cost
  <1>9. CASE r # q
    BY <1>1, <1>5, <1>6, <1>7, <1>9, LostFinite DEF Cost
  <1>10. QED
    BY <1>6, <1>8, <1>9

\* Execute keeps the account.
LEMMA ExecuteCost ==
  ASSUME TypeInv, CustodyInv, CostInv, NEW t \in Threads, ExecuteStep(t), runs' = runs
  PROVE  CostInv'
  <1>1. UNCHANGED <<run, queue>> /\ Lost' = Lost
    BY DEF ExecuteStep, Get, Load, Evict, EvictLB, Send, SendSync, Done, Track,
       runVars, Lost
  <1>2. CASE down' = down
    <2>1. \A r \in Reqs : Due(r)' => Due(r)
      BY <1>1, ExecuteDue DEF Due, NothingDue, InQueue
    <2>2. QED
      BY <1>1, <1>2, <2>1, QuietCost
  <1>3. CASE Send(t) /\ down' # down
    <2>1. PICK q \in Reqs, c \in Conns : q = cur[t] /\ c = node[t]
      BY <1>3 DEF Send, TypeInv, Shape
    <2>2. down' = [down EXCEPT ![c] = Append(@, q)]
      BY <1>3, <2>1 DEF Send
    <2>3. QED
      BY <1>3, <2>1, <2>2, SendCost
  <1>4. ~ Send(t) => down' = down
    BY DEF ExecuteStep, Get, Load, Evict, EvictLB, SendSync, Done, Track, connVars
  <1>5. QED
    BY <1>2, <1>3, <1>4

\* Run makes due what it drains, once for every connection.
LEMMA DrainCost ==
  ASSUME TypeInv, CostInv, NEW c \in Conns, ReadError(c), runs' = runs
  PROVE  CostInv'
  <1>1. /\ UNCHANGED <<down, cur, outcome, pc>> /\ c \notin Lost /\ Lost' = Lost \cup {c}
    BY DEF ReadError, connVars, exVars, ghosts, Lost, TypeInv, TypeOK
  <1>2. Cardinality(Lost') = Cardinality(Lost) + 1
    BY <1>1, LostFinite, FS_AddElement
  <1> SUFFICES ASSUME NEW r \in Reqs
               PROVE  IsFiniteSet(Copies(r)') /\ Cost(r)' <= 1 + Cardinality(Lost')
    BY DEF CostInv
  <1>3. /\ IsFiniteSet(Copies(r)) /\ Cost(r) <= 1 + Cardinality(Lost)
        /\ runs[r] \in Nat /\ Copies(r)' = Copies(r)
    BY <1>1 DEF CostInv, Copies
  <1>4. Cardinality(Copies(r)) \in Nat
    BY <1>3, FS_CardinalityType
  <1>5. QED
    BY <1>2, <1>3, <1>4, LostFinite DEF Cost

\* So do the steps of Run, of the heartbeat and of the network.
LEMMA ConnCost ==
  ASSUME TypeInv, CustodyInv, CostInv, NEW c \in Conns,
         ServerStep(c) \/ Disconnect(c), runs' = runs
  PROVE  CostInv'
  <1>1. CASE ReadError(c)
    BY <1>1, DrainCost
  <1>2. CASE Redispatch(c)
    <2>1. PICK r \in queue[c] : /\ cur[c] = NoReq /\ cur' = [cur EXCEPT ![c] = r]
                                /\ queue' = [queue EXCEPT ![c] = @ \ {r}]
      BY <1>2 DEF Redispatch, Begin, TypeInv, Shape, Threads
    <2>2. /\ UNCHANGED <<down, outcome, run>> /\ Lost' = Lost
          /\ \A t \in Threads : t # c => pc'[t] = pc[t]
      BY <1>2 DEF Redispatch, Begin, Goto, connVars, ghosts, Lost, TypeInv, TypeOK
    <2>3. \A q \in Reqs : Due(q)' => Due(q)
      <3> SUFFICES ASSUME NEW q \in Reqs, Due(q)' PROVE Due(q)
        OBVIOUS
      <3>1. CASE outcome'[q] = "new" \/ InQueue(q)'
        BY <2>1, <2>2, <3>1 DEF Due, InQueue, TypeInv, TypeOK
      <3>2. CASE \E t \in Threads : WillSend(t, q)'
        <4>1. PICK t \in Threads : WillSend(t, q)'
          BY <3>2
        <4>2. CASE t = c
          <5>1. q = r
            BY <2>1, <4>1, <4>2 DEF WillSend, TypeInv, TypeOK
          <5>2. QED
            BY <2>1, <5>1 DEF Due, InQueue
        <4>3. CASE t # c
          BY <2>1, <2>2, <4>1, <4>3 DEF Due, WillSend, TypeInv, TypeOK
        <4>4. QED
          BY <4>2, <4>3
      <3>3. QED
        BY <3>1, <3>2 DEF Due
    <2>4. QED
      BY <2>2, <2>3, QuietCost
  <1>3. CASE \/ AddClient(c) \/ ReadAck(c) \/ RedispatchEnd(c) \/ RemoveClient(c)
             \/ RunCloseConn(c) \/ RunLBRemove(c) \/ PingFail(c) \/ HbCloseConn(c)
             \/ Disconnect(c)
    <2>1. UNCHANGED <<pc, cur, queue, outcome>>
      BY <1>3 DEF AddClient, ReadAck, RedispatchEnd, RemoveClient, RunCloseConn,
         RunLBRemove, PingFail, HbCloseConn, Disconnect, runVars, exVars, ghosts
    <2>2. \A d \in Conns : down'[d] = down[d] \/ down'[d] = <<>>
      BY <1>3 DEF AddClient, ReadAck, RedispatchEnd, RemoveClient, RunCloseConn,
         RunLBRemove, PingFail, HbCloseConn, Disconnect, Shut, connVars, TypeInv, TypeOK
    <2>3. Lost \subseteq Lost'
      BY <1>3 DEF AddClient, ReadAck, RedispatchEnd, RemoveClient, RunCloseConn,
         RunLBRemove, PingFail, HbCloseConn, Disconnect, runVars, Lost, TypeInv, TypeOK
    <2>4. \A r \in Reqs : Due(r)' => Due(r)
      BY <2>1 DEF Due, WillSend, InQueue
    <2>5. QED
      BY <2>2, <2>3, <2>4, QuietCost
  <1>4. QED
    BY <1>1, <1>2, <1>3 DEF ServerStep, RunExit

\* The worker trades a copy for a run.
LEMMA WorkerCost ==
  ASSUME TypeInv, CostInv, NEW c \in Conns, WorkerRead(c)
  PROVE  CostInv'
  <1>1. /\ down[c] # <<>> /\ down' = [down EXCEPT ![c] = Tail(@)]
        /\ UNCHANGED <<run, queue, pc, cur, outcome>> /\ Lost' = Lost
        /\ runs' = [runs EXCEPT ![Head(down[c])] = @ + 1]
        /\ Head(down[c]) \in Reqs
    BY QueueUpdate DEF WorkerRead, WorkerRecv, runVars, exVars, ghosts, Lost, TypeInv, TypeOK
  <1>2. runs' \in [Reqs -> Nat]
    BY <1>1 DEF CostInv
  <1> SUFFICES ASSUME NEW r \in Reqs
               PROVE  IsFiniteSet(Copies(r)') /\ Cost(r)' <= 1 + Cardinality(Lost')
    BY <1>2 DEF CostInv
  <1>3. /\ IsFiniteSet(Copies(r)) /\ Cost(r) <= 1 + Cardinality(Lost)
        /\ runs[r] \in Nat /\ (Due(r)' <=> Due(r))
        /\ runs'[r] = runs[r] + (IF r = Head(down[c]) THEN 1 ELSE 0)
    BY <1>1 DEF CostInv, Due, WillSend, InQueue
  <1>4. /\ IsFiniteSet(Copies(r)')
        /\ Cardinality(Copies(r)') <= Cardinality(Copies(r))
        /\ r = Head(down[c]) => Cardinality(Copies(r)') <= Cardinality(Copies(r)) - 1
    BY <1>1, <1>3, CopyRead
  <1>5. Cardinality(Copies(r)) \in Nat /\ Cardinality(Copies(r)') \in Nat
    BY <1>3, <1>4, FS_CardinalityType
  <1>6. QED
    BY <1>1, <1>3, <1>4, <1>5, LostFinite DEF Cost
-----------------------------------------------------------------------------
(* The invariant.                                                          *)

LEMMA CostInit == DInit => CostInv
  <1> SUFFICES ASSUME DInit PROVE CostInv
    OBVIOUS
  <1>1. runs \in [Reqs -> Nat] /\ \A r \in Reqs : runs[r] = 0 /\ Copies(r) = {}
    BY DEF DInit, Init, Copies
  <1>2. QED
    BY <1>1, LostFinite, FS_EmptySet DEF CostInv, Cost

\* A step of Delivery is one of Dispatch, or the end of a run.
LEMMA DispatchSteps == DNext => [Next]_vars
  BY DEF DNext, Next, WorkerRead, WorkerFinish, WorkerCrash

\* Delivery adds nothing to what the server does (websocket/server/client.go): with
\* workers that run, finish and crash as they like, the dispatcher still behaves
\* as Dispatch says, so that every theorem about Spec holds of DSpec.
THEOREM DeliveryIsDispatch == DSpec => Spec
  <1>1. DInit => Init
    BY DEF DInit
  <1>2. [DNext]_allVars => [Next]_vars
    BY DispatchSteps DEF allVars
  <1>3. QED
    BY <1>1, <1>2, PTL DEF DSpec, Spec

LEMMA CostNext ==
  TypeInv /\ CustodyInv /\ CostInv /\ [DNext]_allVars => CostInv'
  <1> SUFFICES ASSUME TypeInv, CustodyInv, CostInv, [DNext]_allVars PROVE CostInv'
    OBVIOUS
  <1>s. ASSUME UNCHANGED <<vars, runs>> PROVE CostInv'
    BY <1>s DEF vars, connVars, runVars, mgrVars, exVars, ghosts, CostInv, Cost, Copies,
       Lost, Due, WillSend, InQueue
  <1>1. ASSUME NEW r \in Reqs, Call(r), UNCHANGED deliveryVars PROVE CostInv'
    <2>1. /\ UNCHANGED <<down, run, queue, runs>> /\ Lost' = Lost
          /\ outcome[r] = "new" /\ cur' = [cur EXCEPT ![r] = r]
          /\ \A q \in Reqs : q # r => outcome'[q] = outcome[q]
          /\ \A t \in Threads : t # r => pc'[t] = pc[t]
      BY <1>1 DEF Call, Begin, Goto, connVars, runVars, deliveryVars, Lost, TypeInv, TypeOK
    <2>2. \A q \in Reqs : Due(q)' => Due(q)
      <3> SUFFICES ASSUME NEW q \in Reqs, q # r, Due(q)' PROVE Due(q)
        BY <2>1 DEF Due
      <3>1. \A t \in Threads : WillSend(t, q)' => WillSend(t, q)
        BY <2>1 DEF WillSend, TypeInv, TypeOK
      <3>2. QED
        BY <2>1, <3>1 DEF Due, InQueue
    <2>3. QED
      BY <2>1, <2>2, QuietCost
  <1>2. ASSUME NEW t \in Threads, ExecuteStep(t), UNCHANGED deliveryVars PROVE CostInv'
    BY <1>2, ExecuteCost DEF deliveryVars
  <1>3. ASSUME NEW c \in Conns, ServerStep(c) \/ Disconnect(c), UNCHANGED deliveryVars
        PROVE  CostInv'
    BY <1>3, ConnCost DEF deliveryVars
  <1>4. ASSUME NEW c \in Conns, WorkerRead(c) PROVE CostInv'
    BY <1>4, WorkerCost
  <1>5. ASSUME NEW c \in Conns, WorkerFinish(c) PROVE CostInv'
    BY <1>5, <1>s DEF WorkerFinish
  <1>6. ASSUME NEW c \in Conns, WorkerCrash(c) PROVE CostInv'
    BY <1>6, ConnCost DEF WorkerCrash
  <1>7. CASE UNCHANGED allVars
    BY <1>7, <1>s DEF allVars, deliveryVars
  <1>8. QED
    BY <1>1, <1>2, <1>3, <1>4, <1>5, <1>6, <1>7 DEF DNext

\* n ended connections cost at most n more executions of a request, for any
\* number of connections, requests, crashes and redispatches.
THEOREM RerunsArePaidFor == DSpec => []RerunCostsConnection
  <1>1. TypeInv /\ CostInv => RerunCostsConnection
    <2> SUFFICES ASSUME TypeInv, CostInv, NEW r \in Reqs
                 PROVE  runs[r] <= 1 + Cardinality({c \in Conns : Ended(c)})
      BY DEF RerunCostsConnection
    <2> DEFINE E == {c \in Conns : Ended(c)}
    <2>1. Lost \subseteq E /\ E \subseteq Conns
      BY DEF Lost, Ended
    <2>2. IsFiniteSet(E)
      BY <2>1, DispatchAssumption, FS_Subset
    <2>3. Cardinality(Lost) <= Cardinality(E) /\ Cardinality(E) \in Nat
      BY <2>1, <2>2, FS_Subset, FS_CardinalityType
    <2>4. /\ runs[r] \in Nat /\ Cost(r) <= 1 + Cardinality(Lost)
          /\ Cardinality(Copies(r)) \in Nat
      BY FS_CardinalityType DEF CostInv
    <2>5. QED
      BY <2>3, <2>4, LostFinite DEF Cost
  <1>2. DInit => TypeInv /\ CustodyInv /\ CostInv
    BY TypeInit, CustodyInit, CostInit DEF DInit
  <1>3. TypeInv /\ CustodyInv /\ CostInv /\ [DNext]_allVars
          => (TypeInv /\ CustodyInv /\ CostInv)'
    <2>1. [DNext]_allVars => [Next]_vars
      BY DispatchSteps DEF allVars
    <2>2. QED
      BY <2>1, TypeNext, CustodyNext, CostNext
  <1>4. QED
    BY <1>1, <1>2, <1>3, PTL DEF DSpec
=============================================================================
