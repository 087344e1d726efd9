----------------------------- MODULE WorkerLink -----------------------------
(***************************************************************************)
(* The worker's side of its websocket: the lifecycle of the connection     *)
(* (Dail, connect, reconnect, heartBeat, Close) and the serial loop of     *)
(* ServiceImpl.Run over it: Read, RunCode, and the answer by callback or   *)
(* by result message.  A section under lifecycleMu is one step.            *)
(*                                                                         *)
(* Connections are numbered as they are dialled; 0 stands for nil.         *)
(***************************************************************************)
EXTENDS Integers

CONSTANTS
  MaxConns,        \* bound: connections dialled in one behaviour
  InitialBackoff,  \* reconnectInitialBackoff, seconds
  MaxBackoff,      \* reconnectMaxBackoff
  BackoffFactor,   \* reconnectBackoffFactor
  MaxBacklog,      \* bound: messages read out of the buffers of lost connections
  CallbackRetries  \* callbackMaxRetries

ASSUME LinkAssumption ==
  /\ MaxConns \in Nat \ {0}
  /\ InitialBackoff \in Nat \ {0}
  /\ MaxBackoff \in Nat /\ InitialBackoff <= MaxBackoff
  /\ BackoffFactor \in Nat \ {0}
  /\ MaxBacklog \in Nat
  /\ CallbackRetries \in Nat \ {0}

VARIABLES
  conn, stopCh, closed,   \* the fields under lifecycleMu
  net,         \* the state of every connection
  stopClosed,  \* stop channels that have been closed
  hb,          \* running heartBeat goroutines
  pc,          \* the goroutine of ServiceImpl.Run
  local,       \* the connection that Read or connect works on
  boot,        \* connect was called by Dail
  job,         \* type of the request in hand
  attempt,     \* callback attempts made
  backlog,     \* messages that lost connections may still hand over
  backoff,     \* reconnect's backoff
  fault        \* why the process panicked

Ids == 1..MaxConns

fieldVars == <<conn, stopCh, closed>>
netVars == <<net, stopClosed, hb>>
loopVars == <<job, attempt, backlog>>
vars == <<fieldVars, netVars, pc, local, boot, loopVars, backoff, fault>>

TypeOK ==
  /\ conn \in 0..MaxConns
  /\ stopCh \in 0..MaxConns
  /\ closed \in BOOLEAN
  /\ net \in [Ids -> {"unused", "up", "dead", "closed"}]
  /\ stopClosed \subseteq Ids
  /\ hb \subseteq Ids
  /\ pc \in {"dial", "install", "read", "reading", "reconnect", "check", "sleep",
             "run", "duration", "reply", "stopped", "panic"}
  /\ local \in 0..MaxConns
  /\ boot \in BOOLEAN
  /\ job \in {"none", "execute", "execute_sync"}
  /\ attempt \in 0..(CallbackRetries - 1)
  /\ backlog \in 0..MaxBacklog
  /\ backoff \in InitialBackoff..MaxBackoff
  /\ fault \in {"none", "nilResponse", "closedTwice"}

Init ==
  /\ conn = 0 /\ stopCh = 0 /\ closed = FALSE
  /\ net = [i \in Ids |-> "unused"]
  /\ stopClosed = {}
  /\ hb = {}
  /\ pc = "dial"
  /\ local = 0
  /\ boot = TRUE
  /\ job = "none"
  /\ attempt = 0
  /\ backlog = MaxBacklog
  /\ backoff = InitialBackoff
  /\ fault = "none"
-----------------------------------------------------------------------------
\* close(currentStopCh) if there is one; closing a closed channel panics.
CloseStop ==
  /\ stopClosed' = IF stopCh = 0 THEN stopClosed ELSE stopClosed \cup {stopCh}
  /\ fault' = IF stopCh # 0 /\ stopCh \in stopClosed THEN "closedTwice" ELSE fault

\* connect: the dial.  A failed one ends Run (Dail) or is slept upon.
DialFails ==
  /\ pc = "dial"
  /\ pc' = IF boot THEN "stopped" ELSE "sleep"
  /\ UNCHANGED <<fieldVars, netVars, local, boot, loopVars, backoff, fault>>

DialSucceeds ==
  /\ pc = "dial"
  /\ \E i \in Ids :
       /\ net[i] = "unused"
       /\ \A j \in Ids : j < i => net[j] # "unused"
       /\ net' = [net EXCEPT ![i] = "up"]
       /\ local' = i
  /\ pc' = "install"
  /\ UNCHANGED <<fieldVars, stopClosed, hb, boot, loopVars, backoff, fault>>

\* connect: the section under lifecycleMu, and the start of the heartbeat.
Install ==
  /\ pc = "install"
  /\ local' = 0
  /\ \/ /\ closed
        /\ net' = [net EXCEPT ![local] = "closed"]
        /\ pc' = IF boot THEN "stopped" ELSE "sleep"
        /\ UNCHANGED <<conn, stopCh, stopClosed, hb, boot, fault>>
     \/ /\ ~closed
        /\ CloseStop
        /\ stopCh' = local /\ conn' = local
        /\ hb' = hb \cup {local}
        /\ pc' = "read"
        /\ boot' = FALSE
        /\ UNCHANGED net
  /\ UNCHANGED <<closed, loopVars, backoff>>

\* Read looks at the fields.
ReadFields ==
  /\ pc = "read"
  /\ pc' = IF closed \/ conn = 0 THEN "stopped" ELSE "reading"
  /\ local' = IF closed \/ conn = 0 THEN 0 ELSE conn
  /\ UNCHANGED <<fieldVars, netVars, boot, loopVars, backoff, fault>>

\* ReadMessage returns a message.  A connection that has been lost or closed
\* still hands over what had arrived before, and no more.
Receive ==
  /\ pc = "reading"
  /\ local' = 0
  /\ \/ /\ net[local] = "up"
        /\ UNCHANGED backlog
     \/ /\ net[local] # "up" /\ backlog > 0
        /\ backlog' = backlog - 1

\* A request arrives.  The ACK of an execute is written to the connection it
\* came from; a failure to write it is only logged.
ReadMessage ==
  /\ Receive
  /\ job' \in {"execute", "execute_sync"}
  /\ pc' = "run"
  /\ UNCHANGED <<fieldVars, netVars, boot, attempt, backoff, fault>>

\* A message that does not unmarshal ends Run; its ACK may have gone out.
ReadMalformed ==
  /\ Receive
  /\ pc' = "stopped"
  /\ UNCHANGED <<fieldVars, netVars, boot, job, attempt, backoff, fault>>

FaultyReadFails ==
  /\ pc = "reading"
  /\ pc' = "read"
  /\ local' = 0
  /\ UNCHANGED <<fieldVars, netVars, boot, loopVars, backoff, fault>>

\* ReadMessage fails: the connection is gone, maybe as soon as it was made,
\* or the read deadline has passed since the last message, ping or pong.
ReadFails ==
  /\ pc = "reading"
  /\ pc' = "reconnect"
  /\ local' = 0
  /\ UNCHANGED <<fieldVars, netVars, boot, loopVars, backoff, fault>>

FaultyTeardown ==
  /\ pc = "reconnect"
  /\ CloseStop
  /\ net' = IF conn = 0 THEN net ELSE [net EXCEPT ![conn] = "closed"]
  /\ conn' = 0
  /\ pc' = IF closed THEN "stopped" ELSE "check"
  /\ backoff' = InitialBackoff
  /\ UNCHANGED <<stopCh, closed, hb, local, boot, loopVars>>

FaultyTeardownLeaks ==
  /\ pc = "reconnect"
  /\ CloseStop
  /\ stopCh' = 0
  /\ conn' = 0
  /\ pc' = IF closed THEN "stopped" ELSE "check"
  /\ backoff' = InitialBackoff
  /\ UNCHANGED <<closed, net, hb, local, boot, loopVars>>

FaultyTeardownPings ==
  /\ pc = "reconnect"
  /\ stopCh' = 0
  /\ net' = IF conn = 0 THEN net ELSE [net EXCEPT ![conn] = "closed"]
  /\ conn' = 0
  /\ pc' = IF closed THEN "stopped" ELSE "check"
  /\ backoff' = InitialBackoff
  /\ UNCHANGED <<closed, stopClosed, hb, local, boot, loopVars, fault>>

\* reconnect up to its loop: stop the heartbeat, drop the old connection.
Teardown ==
  /\ pc = "reconnect"
  /\ \/ /\ closed
        /\ pc' = "stopped"
        /\ UNCHANGED <<conn, stopCh, net, stopClosed, fault, backoff>>
     \/ /\ ~closed
        /\ CloseStop
        /\ stopCh' = 0
        /\ net' = IF conn = 0 THEN net ELSE [net EXCEPT ![conn] = "closed"]
        /\ conn' = 0
        /\ pc' = "check"
        /\ backoff' = InitialBackoff
  /\ UNCHANGED <<closed, hb, local, boot, loopVars>>

FaultyCheck ==
  /\ pc = "check"
  /\ pc' = "dial"
  /\ UNCHANGED <<fieldVars, netVars, local, boot, loopVars, backoff, fault>>

\* The test of closed at the head of reconnect's loop.
Check ==
  /\ pc = "check"
  /\ pc' = IF closed THEN "stopped" ELSE "dial"
  /\ UNCHANGED <<fieldVars, netVars, local, boot, loopVars, backoff, fault>>

NextBackoff(b) ==
  IF b >= MaxBackoff THEN b
  ELSE IF b * BackoffFactor > MaxBackoff THEN MaxBackoff ELSE b * BackoffFactor

\* sleepFn(backoff).
Sleep ==
  /\ pc = "sleep"
  /\ pc' = "check"
  /\ backoff' = NextBackoff(backoff)
  /\ UNCHANGED <<fieldVars, netVars, local, boot, loopVars, fault>>
-----------------------------------------------------------------------------
(* The request in hand.                                                    *)

\* Container.RunCode; its error skips the duration message.
RunCode ==
  /\ pc = "run"
  /\ pc' \in {"duration", "reply"}
  /\ UNCHANGED <<fieldVars, netVars, local, boot, loopVars, backoff, fault>>

\* Whether a WebsocketSend can fail, and whether it can succeed.
SendMayFail == ~ (conn # 0 /\ net[conn] = "up")
SendMayWork == conn # 0 /\ net[conn] \in {"up", "dead"}

\* sendResponseDuration.  Its error makes RunCode return a nil response, and
\* the answer dereferences it.
SendDuration ==
  /\ pc = "duration"
  /\ \/ SendMayWork /\ pc' = "reply" /\ UNCHANGED fault
     \/ SendMayFail /\ pc' = "panic" /\ fault' = "nilResponse"
  /\ UNCHANGED <<fieldVars, netVars, local, boot, loopVars, backoff>>

\* SendResult for execute_sync: one try, a failure is logged.
SendResult ==
  /\ pc = "reply"
  /\ job = "execute_sync"
  /\ pc' = "read"
  /\ job' = "none"
  /\ UNCHANGED <<fieldVars, netVars, local, boot, attempt, backlog, backoff, fault>>

\* One attempt of CallBackSend; the last one's failure loses the result.
CallBack ==
  /\ pc = "reply"
  /\ job = "execute"
  /\ \/ /\ pc' = "read" /\ job' = "none" /\ attempt' = 0
     \/ /\ attempt + 1 < CallbackRetries
        /\ attempt' = attempt + 1
        /\ UNCHANGED <<pc, job>>
  /\ UNCHANGED <<fieldVars, netVars, local, boot, backlog, backoff, fault>>
-----------------------------------------------------------------------------
(* The other goroutines and the network.  A panic ends the whole process.  *)

Running == fault = "none"

\* heartBeat returns when its channel is closed or a ping fails.
HeartBeatExit(i) ==
  /\ Running
  /\ i \in hb
  /\ i \in stopClosed \/ net[i] # "up"
  /\ hb' = hb \ {i}
  /\ UNCHANGED <<fieldVars, net, stopClosed, pc, local, boot, loopVars, backoff, fault>>

Close ==
  /\ Running
  /\ ~closed
  /\ closed' = TRUE
  /\ CloseStop
  /\ stopCh' = 0
  /\ net' = IF conn = 0 THEN net ELSE [net EXCEPT ![conn] = "closed"]
  /\ conn' = 0
  /\ UNCHANGED <<hb, pc, local, boot, loopVars, backoff>>

\* A connection is lost.  The last one that may be dialled stays, so that
\* running out of numbers is not taken for a failure to reconnect.
NetFails(i) ==
  /\ Running
  /\ i < MaxConns
  /\ net[i] = "up"
  /\ net' = [net EXCEPT ![i] = "dead"]
  /\ UNCHANGED <<fieldVars, stopClosed, hb, pc, local, boot, loopVars, backoff, fault>>
-----------------------------------------------------------------------------
LoopStep ==
  \/ DialFails \/ DialSucceeds \/ Install \/ ReadFields
  \/ ReadMessage \/ ReadMalformed
  \/ Teardown \/ Check \/ Sleep \/ RunCode \/ SendDuration \/ SendResult \/ CallBack

\* A deadline that passes on the last connection would need one more number.
ReadError == ReadFails /\ (net[local] # "up" \/ local < MaxConns)

Next ==
  \/ LoopStep \/ ReadError \/ Close
  \/ \E i \in Ids : HeartBeatExit(i) \/ NetFails(i)

Spec == Init /\ [][Next]_vars

\* The loop runs, a dead connection fails its read at the latest when the
\* deadline passes, and the server can be reached again from time to time.
Fairness ==
  /\ WF_vars(LoopStep /\ pc # "reading")
  /\ WF_vars(pc = "reading" /\ net[local] # "up" /\ ReadFails)
  /\ SF_vars(DialSucceeds)

FairSpec == Spec /\ Fairness
-----------------------------------------------------------------------------
\* No stop channel is closed twice, whichever way Close and the reconnect of
\* the read loop interleave: the panic lifecycleMu is there to prevent.
NoDoubleClose == fault # "closedTwice"

\* Of the heartbeat goroutines that have not been told to stop there is at
\* most one, and it pings the connection in use.
OneHeartbeat ==
  \A i \in hb \ stopClosed : i = conn /\ i = stopCh

\* No socket is lost: one that is open is the connection in use or is just
\* being installed, and a closed client is left without a connection, even
\* when Close comes while reconnect is dialling.
NoSocketLeak ==
  /\ \A i \in Ids : net[i] \in {"up", "dead"} =>
       i = conn \/ (pc = "install" /\ i = local)
  /\ closed => conn = 0

\* After Close the loop ends, out of whatever it was doing.
CloseStops ==
  closed ~> pc \in {"stopped", "panic"}

\* A lost connection is replaced, unless the worker ends: the loop does not
\* stay on a dead one.
LinkHeals ==
  (conn # 0 /\ net[conn] = "dead") ~>
    (closed \/ pc \in {"stopped", "panic"} \/ (conn # 0 /\ net[conn] = "up"))

\* The design of reliable delivery: when the connection breaks during an
\* execution, the result still gets out through the callback.  The duration
\* message comes first, and its failure crashes the worker.
ResultSurvivesDisconnect == closed \/ fault # "nilResponse"
=============================================================================
