------------------------------ MODULE SyncCall ------------------------------
(***************************************************************************)
(* The inside of WebsocketClientImpl.SendSync on one connection: callers   *)
(* wait on a channel of capacity one that they store in pendingSync under  *)
(* their request id; the goroutine in Read routes every result message to  *)
(* the channel it finds there; a caller gives up at its timeout.  The      *)
(* worker at the other end answers requests one by one, if at all.         *)
(*                                                                         *)
(* Two calls may use one id: the agent's confirmation handler executes a   *)
(* proposal under its proposal id, and a proposal can be confirmed twice.  *)
(***************************************************************************)
EXTENDS Integers, Sequences

CONSTANTS
  Calls,    \* invocations of SendSync on this connection
  Ids,      \* request ids
  IdOf,     \* the id each call sends
  NoCall

ASSUME SyncAssumption ==
  /\ IdOf \in [Calls -> Ids]
  /\ NoCall \notin Calls

VARIABLES
  pc,           \* where each call is
  ch,           \* the buffered channel of each call
  result,       \* the call whose answer SendSync returned, or NoCall
  pendingSync,  \* id -> the call whose channel is stored
  conn,         \* the connection
  down, up,     \* requests to the worker, result messages from it
  reader,       \* the goroutine in Read: reading, or sending to a channel
  missed        \* calls that were waiting when an answer was thrown away

callVars == <<pc, ch, result>>
wireVars == <<conn, down, up>>
vars == <<callVars, pendingSync, wireVars, reader, missed>>

Reading == [at |-> "read", to |-> NoCall, payload |-> NoCall]
Stopped == [at |-> "stopped", to |-> NoCall, payload |-> NoCall]

TypeOK ==
  /\ pc \in [Calls -> {"new", "write", "wait", "return", "done"}]
  /\ ch \in [Calls -> {<<>>} \cup {<<k>> : k \in Calls}]
  /\ result \in [Calls -> Calls \cup {NoCall}]
  /\ pendingSync \in [Ids -> Calls \cup {NoCall}]
  /\ conn \in {"up", "broken"}
  /\ down \in Seq(Calls)
  /\ up \in Seq(Calls)
  /\ reader \in {Reading, Stopped}
       \cup [at : {"send"}, to : Calls, payload : Calls]
  /\ missed \subseteq Calls

Init ==
  /\ pc = [k \in Calls |-> "new"]
  /\ ch = [k \in Calls |-> <<>>]
  /\ result = [k \in Calls |-> NoCall]
  /\ pendingSync = [i \in Ids |-> NoCall]
  /\ conn = "up"
  /\ down = <<>>
  /\ up = <<>>
  /\ reader = Reading
  /\ missed = {}
-----------------------------------------------------------------------------
(* SendSync, call k.                                                       *)

FaultyStore(k) ==
  /\ pc[k] = "new"
  /\ pc' = [pc EXCEPT ![k] = "write"]
  /\ UNCHANGED <<ch, result, pendingSync, wireVars, reader, missed>>

\* The channel is stored before the request goes out.
Store(k) ==
  /\ pc[k] = "new"
  /\ pc' = [pc EXCEPT ![k] = "write"]
  /\ pendingSync' = [pendingSync EXCEPT ![IdOf[k]] = k]
  /\ UNCHANGED <<ch, result, wireVars, reader, missed>>

FaultyWriteNoDelete(k) ==
  /\ pc[k] = "write"
  /\ \/ /\ conn = "up"
        /\ down' = Append(down, k)
        /\ pc' = [pc EXCEPT ![k] = "wait"]
     \/ /\ conn = "broken"
        /\ pc' = [pc EXCEPT ![k] = "done"]
        /\ UNCHANGED down
  /\ UNCHANGED <<ch, result, pendingSync, conn, up, reader, missed>>

\* WriteMessage.  On a broken connection it fails, or succeeds into a buffer
\* that nobody will read.
Write(k) ==
  /\ pc[k] = "write"
  /\ \/ /\ conn = "up"
        /\ down' = Append(down, k)
        /\ pc' = [pc EXCEPT ![k] = "wait"]
     \/ /\ conn = "broken"
        /\ pc' \in {[pc EXCEPT ![k] = l] : l \in {"wait", "return"}}
        /\ UNCHANGED down
  /\ UNCHANGED <<ch, result, pendingSync, conn, up, reader, missed>>

Receive(k) ==
  /\ pc[k] = "wait"
  /\ ch[k] # <<>>
  /\ result' = [result EXCEPT ![k] = Head(ch[k])]
  /\ ch' = [ch EXCEPT ![k] = <<>>]
  /\ pc' = [pc EXCEPT ![k] = "return"]
  /\ UNCHANGED <<pendingSync, wireVars, reader, missed>>

FaultyTimeoutReset(k) ==
  /\ pc[k] = "wait"
  /\ conn = "up"
  /\ pc' = [pc EXCEPT ![k] = "return"]
  /\ UNCHANGED <<ch, result, pendingSync, wireVars, reader, missed>>

\* time.After fires; select may prefer it to an answer that is there.
Timeout(k) ==
  /\ pc[k] = "wait"
  /\ pc' = [pc EXCEPT ![k] = "return"]
  /\ UNCHANGED <<ch, result, pendingSync, wireVars, reader, missed>>

\* The deferred Delete removes whatever is stored under the id.
Delete(k) ==
  /\ pc[k] = "return"
  /\ pc' = [pc EXCEPT ![k] = "done"]
  /\ pendingSync' = [pendingSync EXCEPT ![IdOf[k]] = NoCall]
  /\ UNCHANGED <<ch, result, wireVars, reader, missed>>
-----------------------------------------------------------------------------
(* The goroutine in Read.                                                  *)

FaultyRoute(m) == IF \E k \in Calls : pc[k] = "wait"
                  THEN CHOOSE k \in Calls : pc[k] = "wait" ELSE NoCall

\* The call a result message is routed to.
Route(m) == pendingSync[IdOf[m]]

ReadResult ==
  /\ reader = Reading
  /\ up # <<>>
  /\ up' = Tail(up)
  /\ LET m == Head(up)  k == Route(m) IN
     \/ /\ k = NoCall
        /\ missed' = missed \cup {j \in Calls : pc[j] = "wait" /\ IdOf[j] = IdOf[m]}
        /\ UNCHANGED reader
     \/ /\ k # NoCall
        /\ reader' = [at |-> "send", to |-> k, payload |-> m]
        /\ UNCHANGED missed
  /\ UNCHANGED <<callVars, pendingSync, conn, down>>

FaultyDeliverUnbuffered ==
  /\ reader.at = "send"
  /\ pc[reader.to] = "wait"
  /\ result' = [result EXCEPT ![reader.to] = reader.payload]
  /\ pc' = [pc EXCEPT ![reader.to] = "return"]
  /\ reader' = Reading
  /\ UNCHANGED <<ch, pendingSync, wireVars, missed>>

\* The send waits for room in a channel of capacity one.
Deliver ==
  /\ reader.at = "send"
  /\ ch[reader.to] = <<>>
  /\ ch' = [ch EXCEPT ![reader.to] = <<reader.payload>>]
  /\ reader' = Reading
  /\ UNCHANGED <<pc, result, pendingSync, wireVars, missed>>

ReadFails ==
  /\ reader = Reading
  /\ conn = "broken"
  /\ reader' = Stopped
  /\ UNCHANGED <<callVars, pendingSync, wireVars, missed>>
-----------------------------------------------------------------------------
(* The other end.                                                          *)

\* The worker runs the next request and sends its result, or fails to.
WorkerAnswer ==
  /\ down # <<>>
  /\ down' = Tail(down)
  /\ up' \in {up, Append(up, Head(down))}
  /\ UNCHANGED <<callVars, pendingSync, conn, reader, missed>>

\* The connection breaks; results that have arrived may still be read.
Break ==
  /\ conn = "up"
  /\ conn' = "broken"
  /\ down' = <<>>
  /\ UNCHANGED <<callVars, pendingSync, up, reader, missed>>
-----------------------------------------------------------------------------
CallStep(k) == Store(k) \/ Write(k) \/ Receive(k) \/ Timeout(k) \/ Delete(k)

Reader == ReadResult \/ Deliver \/ ReadFails

Next == (\E k \in Calls : CallStep(k)) \/ Reader \/ WorkerAnswer \/ Break

Spec == Init /\ [][Next]_vars

\* A call that has begun goes on, its timer fires, and Read returns what has
\* arrived; the worker need not answer.
FairSpec ==
  /\ Spec
  /\ \A k \in Calls : /\ WF_vars(pc[k] # "new" /\ CallStep(k))
                      /\ WF_vars(Timeout(k))
  /\ WF_vars(Reader)
-----------------------------------------------------------------------------
\* An answer goes to a caller of the request it answers: a late result, read
\* after its caller timed out, never reaches the call of another request.
OwnResult ==
  \A k \in Calls : result[k] # NoCall => IdOf[result[k]] = IdOf[k]

\* A call that has returned leaves no channel of its own in pendingSync,
\* whichever of its exits it took.
NoLeftover ==
  \A k \in Calls : pc[k] = "done" => pendingSync[IdOf[k]] # k

\* SendSync returns, whatever happens to the worker and the connection.
CallReturns ==
  \A k \in Calls : pc[k] = "write" ~> pc[k] = "done"

\* No other call uses the id of call k.
Unshared(k) == \A j \in Calls : IdOf[j] = IdOf[k] => j = k

\* With an id of its own, the one buffered element of a call is enough: Read
\* is never left blocked on its channel after the call has gone, and so ACKs,
\* pongs and the other results keep being read.
ReaderFree ==
  \A k \in Calls : Unshared(k) =>
    (reader.at = "send" /\ reader.to = k ~> reader.at # "send")

\* The comment in Read: a result message is routed to the waiting SendSync
\* call.  No call with an id of its own waits while its answer is thrown
\* away, however early the answer and however late the other calls return.
ResultRouted == \A k \in missed : ~Unshared(k)
=============================================================================
