------------------------------ MODULE Delivery ------------------------------
(***************************************************************************)
(* Dispatch composed with the workers at the other end of its connections: *)
(* a worker (InnerServer's loop, WebsocketClientImpl.Read) takes one       *)
(* request at a time, acknowledges it, runs it and reads the next.  It may *)
(* crash while it runs a request.  What the server and the workers do with *)
(* a request is recorded, to say what "reliable delivery" amounts to.      *)
(***************************************************************************)
EXTENDS Dispatch

VARIABLES
  running,   \* the request the worker on each connection is running
  runs,      \* how many times a worker has started each request
  finished   \* requests that a worker has run to the end

deliveryVars == <<running, runs, finished>>
allVars == <<vars, deliveryVars>>

DInit ==
  /\ Init
  /\ running = [c \in Conns |-> NoReq]
  /\ runs = [r \in Reqs |-> 0]
  /\ finished = {}

\* Read returns a request to the loop: the ACK goes out first.
WorkerRead(c) ==
  /\ running[c] = NoReq
  /\ WorkerRecv(c)
  /\ running' = [running EXCEPT ![c] = Head(down[c])]
  /\ runs' = [runs EXCEPT ![Head(down[c])] = @ + 1]
  /\ UNCHANGED finished

\* RunCode and the delivery of its result are over.
WorkerFinish(c) ==
  /\ running[c] # NoReq
  /\ finished' = finished \cup {running[c]}
  /\ running' = [running EXCEPT ![c] = NoReq]
  /\ UNCHANGED <<vars, runs>>

\* The worker process dies in the middle of a request.
WorkerCrash(c) ==
  /\ running[c] # NoReq
  /\ tcp[c] = "up"
  /\ Disconnect(c)
  /\ running' = [running EXCEPT ![c] = NoReq]
  /\ UNCHANGED <<runs, finished>>

DNext ==
  \/ \E r \in Reqs : Call(r) /\ UNCHANGED deliveryVars
  \/ \E t \in Threads : ExecuteStep(t) /\ UNCHANGED deliveryVars
  \/ \E c \in Conns : \/ (ServerStep(c) \/ Disconnect(c)) /\ UNCHANGED deliveryVars
                      \/ WorkerRead(c) \/ WorkerFinish(c) \/ WorkerCrash(c)

DSpec == DInit /\ [][DNext]_allVars

\* Nothing is asked of the workers.
DFairSpec == DSpec /\ Fairness
-----------------------------------------------------------------------------
\* Connection c has failed, or the server has given it up.
Ended(c) == run[c] # "none" /\ (tcp[c] # "up" \/ run[c] # "read")

\* A request is started again only at the price of a connection: without a
\* failure of TrackRequest's client a request runs at most once, and n ended
\* connections allow at most n more starts.
RerunCostsConnection ==
  \A r \in Reqs : runs[r] <= 1 + Cardinality({c \in Conns : Ended(c)})
-----------------------------------------------------------------------------
(* What the repository says of delivery and the code does not do.          *)

\* The design document: a message that has not been acknowledged counts as
\* unprocessed and can be delivered again at any time.  TrackRequest runs
\* after Send, so it can come after DrainPending and track nothing.
UnackedRedeliverable ==
  \A r \in Reqs \ SyncReqs :
    outcome[r] = "accepted" /\ runs[r] = 0 =>
      \/ Custody(r) # {}
      \/ \E c \in Conns : \E i \in DOMAIN down[c] : down[c][i] = r

\* The same document, known limitation 3: when the worker crashes between its
\* ACK and the end of the execution, the request is sent again.  So a request
\* that was acknowledged is run to the end, is being run, or is on its way to
\* a worker once more.  The ACK has settled it, and no later step of the server
\* finds it again (SettledNotResent).
AckedCrashResent ==
  \A r \in settled :
    \/ r \in finished
    \/ \E c \in Conns : running[c] = r \/ \E i \in DOMAIN down[c] : down[c][i] = r
    \/ Custody(r) # {}
=============================================================================
