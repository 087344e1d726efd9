-------------------------- MODULE WorkerLinkProofs --------------------------
(***************************************************************************)
(* Proofs about WorkerLink, for any number of connections, any backoff and *)
(* any number of callback attempts.                                        *)
(*                                                                         *)
(* What makes the lifecycle safe is that conn and stopCh always name the   *)
(* same connection (OnePair), that a number nobody has dialled is nowhere  *)
(* (Untouched), that connect finds nothing to replace (NothingToReplace),  *)
(* because Dail and reconnect have both dropped the old connection first,  *)
(* and that the stop channel in the field has not been closed yet.         *)
(***************************************************************************)
EXTENDS WorkerLink, TLAPS

OnePair ==
  /\ conn = stopCh
  /\ stopCh \notin stopClosed

Untouched ==
  \A i \in Ids : net[i] = "unused" =>
    i \notin stopClosed /\ i \notin hb /\ i # conn /\ i # local

NothingToReplace ==
  pc \in {"check", "sleep", "dial", "install"} => conn = 0

\* The connection that connect has dialled and not yet installed.
Dialled ==
  pc = "install" =>
    local \in Ids /\ local \notin stopClosed /\ local \notin hb

LinkInv ==
  /\ OnePair /\ Untouched /\ NothingToReplace /\ Dialled
  /\ NoDoubleClose /\ OneHeartbeat /\ NoSocketLeak
-----------------------------------------------------------------------------
(* Types.                                                                  *)

\* The backoff grows and stays within its limit.
LEMMA BackoffBounds ==
  ASSUME NEW b \in InitialBackoff..MaxBackoff
  PROVE  NextBackoff(b) \in b..MaxBackoff
  <1>1. \A x, y \in Nat \ {0} : x * y \in Nat /\ x <= x * y
    OBVIOUS
  <1>2. b * BackoffFactor \in Nat /\ b <= b * BackoffFactor
    BY <1>1, LinkAssumption
  <1>3. QED
    BY <1>2, LinkAssumption DEF NextBackoff

\* connect has a connection in hand when it comes to install it, and Read when
\* it comes to read from it.
InHand == pc \in {"install", "reading"} => local \in Ids

TypeInv == TypeOK /\ InHand

LEMMA InitTypes == Init => TypeInv
  <1> SUFFICES ASSUME Init
               PROVE  TypeInv
    OBVIOUS
  <1>1. closed \in BOOLEAN /\ boot \in BOOLEAN
    BY Zenon DEF Init
  <1>2. QED
    BY <1>1, LinkAssumption DEF Init, TypeInv, TypeOK, InHand, Ids

LEMMA StopTypes ==
  ASSUME TypeInv, CloseStop
  PROVE  stopClosed' \subseteq Ids /\ fault' \in {"none", "nilResponse", "closedTwice"}
  <1>1. stopClosed' \subseteq Ids
    BY DEF TypeInv, TypeOK, CloseStop, Ids
  <1>2. fault' = fault \/ fault' = "closedTwice"
    BY DEF CloseStop
  <1>3. QED
    BY <1>1, <1>2 DEF TypeInv, TypeOK

LEMMA NextTypes == TypeInv /\ [Next]_vars => TypeInv'
  <1> SUFFICES ASSUME TypeInv, [Next]_vars
               PROVE  TypeInv'
    OBVIOUS
  <1> USE LinkAssumption DEF TypeInv, TypeOK, InHand, Ids, fieldVars, netVars, loopVars
  <1>1. CASE DialFails
    BY <1>1 DEF DialFails
  <1>2. CASE DialSucceeds
    BY <1>2 DEF DialSucceeds
  <1>3. CASE Install
    <2>1. stopClosed' \subseteq Ids
      BY <1>3, StopTypes DEF Install
    <2>2. fault' \in {"none", "nilResponse", "closedTwice"}
      <3>1. CASE fault' = fault
        BY <3>1
      <3>2. CASE CloseStop
        BY <3>2, StopTypes
      <3>3. QED
        BY <1>3, <3>1, <3>2 DEF Install
    <2>3. /\ hb' \subseteq Ids
          /\ net' \in [Ids -> {"unused", "up", "dead", "closed"}]
          /\ conn' \in 0..MaxConns /\ stopCh' \in 0..MaxConns
      BY <1>3 DEF Install
    <2>4. boot' \in BOOLEAN /\ closed' \in BOOLEAN
      BY <1>3, Zenon DEF Install
    <2>5. pc' \in {"read", "sleep", "stopped"}
      BY <1>3 DEF Install
    <2>6. QED
      BY <1>3, <2>1, <2>2, <2>3, <2>4, <2>5 DEF Install
  <1>4. CASE ReadFields
    BY <1>4 DEF ReadFields
  <1>5. CASE ReadMessage
    BY <1>5 DEF ReadMessage, Receive
  <1>6. CASE ReadMalformed \/ ReadFails
    <2>1. CASE ReadMalformed
      BY <2>1 DEF ReadMalformed, Receive
    <2>2. CASE ReadFails
      BY <2>2 DEF ReadFails
    <2>3. QED
      BY <1>6, <2>1, <2>2
  <1>7. CASE Teardown
    <2>1. stopClosed' \subseteq Ids
      BY <1>7, StopTypes DEF Teardown
    <2>2. fault' \in {"none", "nilResponse", "closedTwice"}
      <3>1. CASE fault' = fault
        BY <3>1
      <3>2. CASE CloseStop
        BY <3>2, StopTypes
      <3>3. QED
        BY <1>7, <3>1, <3>2 DEF Teardown
    <2>3. QED
      BY <1>7, <2>1, <2>2 DEF Teardown
  <1>8. CASE Check \/ RunCode
    BY <1>8 DEF Check, RunCode
  <1>9. CASE Sleep
    BY <1>9, BackoffBounds DEF Sleep
  <1>10. CASE SendDuration \/ SendResult
    BY <1>10 DEF SendDuration, SendResult
  <1>11. CASE CallBack
    BY <1>11 DEF CallBack
  <1>12. CASE Close
    <2>1. stopClosed' \subseteq Ids /\ fault' \in {"none", "nilResponse", "closedTwice"}
      BY <1>12, StopTypes DEF Close
    <2>2. QED
      BY <1>12, <2>1 DEF Close
  <1>13. ASSUME NEW i \in Ids, HeartBeatExit(i) \/ NetFails(i)
         PROVE  TypeInv'
    BY <1>13 DEF HeartBeatExit, NetFails
  <1>14. CASE UNCHANGED vars
    BY <1>14 DEF vars
  <1>15. QED
    BY <1>1, <1>2, <1>3, <1>4, <1>5, <1>6, <1>7, <1>8, <1>9, <1>10, <1>11, <1>12,
       <1>13, <1>14 DEF Next, LoopStep, ReadError

\* Type correctness of the worker's connection and loop.
THEOREM LinkTypeCorrect == Spec => []TypeOK
  <1>1. TypeInv => TypeOK
    BY DEF TypeInv
  <1>2. QED
    BY <1>1, InitTypes, NextTypes, PTL DEF Spec
-----------------------------------------------------------------------------
(* The lifecycle.                                                          *)

LEMMA InitLink == Init => LinkInv
  BY LinkAssumption DEF Init, LinkInv, OnePair, Untouched, NothingToReplace, Dialled,
    NoDoubleClose, OneHeartbeat, NoSocketLeak, Ids

\* The stop channel in the field is open, so that closing it is safe.
LEMMA StopClosesOnce ==
  ASSUME TypeInv, LinkInv, CloseStop
  PROVE  /\ fault' = fault
         /\ stopClosed' = IF conn = 0 THEN stopClosed ELSE stopClosed \cup {conn}
         /\ \A i \in hb : i \in stopClosed'
  BY DEF CloseStop, LinkInv, OnePair, OneHeartbeat, TypeInv, TypeOK, Ids

\* Close and reconnect drop the connection in use, and all that goes with it.
LEMMA DropKeepsLink ==
  ASSUME TypeInv, LinkInv, CloseStop,
         stopCh' = 0, conn' = 0, hb' = hb, local' = local,
         net' = IF conn = 0 THEN net ELSE [net EXCEPT ![conn] = "closed"],
         pc' = pc \/ (pc # "install" /\ pc' # "install")
  PROVE  LinkInv'
  <1>1. /\ fault' = fault
        /\ stopClosed' = IF conn = 0 THEN stopClosed ELSE stopClosed \cup {conn}
        /\ \A i \in hb : i \in stopClosed'
    BY StopClosesOnce
  <1> USE DEF LinkInv, TypeInv, TypeOK, Ids
  <1>2. OnePair' /\ NothingToReplace'
    BY <1>1, LinkAssumption DEF OnePair, NothingToReplace
  <1>3. Untouched'
    BY <1>1 DEF Untouched, OnePair
  <1>4. Dialled'
    BY <1>1 DEF Dialled, NothingToReplace
  <1>5. NoDoubleClose' /\ OneHeartbeat'
    BY <1>1 DEF NoDoubleClose, OneHeartbeat
  <1>6. NoSocketLeak'
    BY DEF NoSocketLeak, NothingToReplace
  <1>7. QED
    BY <1>2, <1>3, <1>4, <1>5, <1>6

LEMMA LinkStep == TypeInv /\ LinkInv /\ [Next]_vars => LinkInv'
  <1> SUFFICES ASSUME TypeInv, LinkInv, [Next]_vars
               PROVE  LinkInv'
    OBVIOUS
  <1> USE DEF fieldVars, netVars, loopVars
  <1> DEFINE Idle == UNCHANGED <<conn, stopCh, closed, net, stopClosed, hb>>
  <1>1. ASSUME Idle, fault' \in {fault, "nilResponse"},
               local' \in {local, 0, conn},
               pc' # "install",
               pc' \in {"check", "sleep", "dial"} =>
                 pc \in {"check", "sleep", "dial", "install"},
               pc = "install" => net[local] \notin {"up", "dead"}
        PROVE  LinkInv'
    BY <1>1, LinkAssumption DEF LinkInv, OnePair, Untouched, NothingToReplace, Dialled,
       NoDoubleClose, OneHeartbeat, NoSocketLeak, Ids
  <1>2. CASE DialFails \/ Check \/ Sleep
    BY <1>1, <1>2 DEF DialFails, Check, Sleep
  <1>3. CASE ReadFields \/ ReadMessage \/ ReadMalformed
    BY <1>1, <1>3 DEF ReadFields, ReadMessage, ReadMalformed, Receive
  <1>4. CASE ReadFails
    BY <1>1, <1>4 DEF ReadFails
  <1>5. CASE RunCode \/ SendDuration \/ SendResult \/ CallBack
    BY <1>1, <1>5 DEF RunCode, SendDuration, SendResult, CallBack
  <1>6. CASE DialSucceeds
    <2>1. PICK i \in Ids : /\ net[i] = "unused"
                           /\ net' = [net EXCEPT ![i] = "up"]
                           /\ local' = i
      BY <1>6 DEF DialSucceeds
    <2>2. pc = "dial" /\ pc' = "install"
          /\ UNCHANGED <<conn, stopCh, closed, stopClosed, hb, fault>>
      BY <1>6 DEF DialSucceeds
    <2>3. OnePair' /\ NothingToReplace' /\ NoDoubleClose' /\ OneHeartbeat'
      BY <2>2 DEF LinkInv, OnePair, NothingToReplace, NoDoubleClose, OneHeartbeat
    <2>4. Untouched' /\ Dialled'
      BY <2>1, <2>2 DEF LinkInv, Untouched, Dialled, TypeInv, TypeOK
    <2>5. NoSocketLeak'
      BY <2>1, <2>2 DEF LinkInv, NoSocketLeak, TypeInv, TypeOK
    <2>6. QED
      BY <2>3, <2>4, <2>5 DEF LinkInv
  <1>7. CASE Install
    <2>1. /\ pc = "install" /\ pc' \in {"read", "sleep", "stopped"}
          /\ local \in Ids /\ local' = 0 /\ closed' = closed
          /\ conn = 0 /\ stopCh = 0
      BY <1>7 DEF Install, LinkInv, Dialled, NothingToReplace, OnePair
    <2>2. CASE closed
      <3>1. /\ net' = [net EXCEPT ![local] = "closed"]
            /\ UNCHANGED <<conn, stopCh, stopClosed, hb, fault>>
        BY <1>7, <2>2 DEF Install
      <3>2. OnePair' /\ NothingToReplace' /\ Dialled' /\ NoDoubleClose' /\ OneHeartbeat'
        BY <2>1, <3>1 DEF LinkInv, OnePair, NothingToReplace, Dialled, NoDoubleClose,
           OneHeartbeat
      <3>3. Untouched' /\ NoSocketLeak'
        BY <2>1, <3>1, LinkAssumption
           DEF LinkInv, Untouched, NoSocketLeak, TypeInv, TypeOK, Ids
      <3>4. QED
        BY <3>2, <3>3 DEF LinkInv
    <2>3. CASE ~ closed
      <3>1. /\ CloseStop /\ stopCh' = local /\ conn' = local
            /\ hb' = hb \cup {local} /\ pc' = "read" /\ net' = net
        BY <1>7, <2>3 DEF Install
      <3>2. fault' = fault /\ stopClosed' = stopClosed /\ hb \subseteq stopClosed
        BY <2>1, <3>1, StopClosesOnce
      <3>3. OnePair' /\ NothingToReplace' /\ Dialled' /\ NoDoubleClose' /\ OneHeartbeat'
        BY <2>1, <3>1, <3>2 DEF LinkInv, OnePair, NothingToReplace, Dialled,
           NoDoubleClose, OneHeartbeat
      <3>4. Untouched' /\ NoSocketLeak'
        BY <2>1, <2>3, <3>1, <3>2, LinkAssumption
           DEF LinkInv, Untouched, NoSocketLeak, Ids
      <3>5. QED
        BY <3>3, <3>4 DEF LinkInv
    <2>4. QED
      BY <2>2, <2>3
  <1>8. CASE Teardown
    <2>1. CASE closed
      BY <1>1, <1>8, <2>1 DEF Teardown
    <2>2. CASE ~ closed
      BY <1>8, <2>2, DropKeepsLink DEF Teardown
    <2>3. QED
      BY <2>1, <2>2
  <1>9. CASE Close
    BY <1>9, DropKeepsLink DEF Close
  <1>10. ASSUME NEW i \in Ids, HeartBeatExit(i)
         PROVE  LinkInv'
    BY <1>10 DEF HeartBeatExit, LinkInv, OnePair, Untouched, NothingToReplace, Dialled,
       NoDoubleClose, OneHeartbeat, NoSocketLeak, Ids
  <1>11. ASSUME NEW i \in Ids, NetFails(i)
         PROVE  LinkInv'
    BY <1>11 DEF NetFails, LinkInv, OnePair, Untouched, NothingToReplace, Dialled,
       NoDoubleClose, OneHeartbeat, NoSocketLeak, TypeInv, TypeOK
  <1>12. CASE UNCHANGED vars
    BY <1>12 DEF vars, LinkInv, OnePair, Untouched, NothingToReplace, Dialled,
       NoDoubleClose, OneHeartbeat, NoSocketLeak
  <1>13. QED
    BY <1>2, <1>3, <1>4, <1>5, <1>6, <1>7, <1>8, <1>9, <1>10, <1>11, <1>12
       DEF Next, LoopStep, ReadError

LEMMA LinkAlways == Spec => []LinkInv
  BY InitTypes, NextTypes, InitLink, LinkStep, PTL DEF Spec

\* For any number of connections: no stop channel is closed twice, whichever
\* way Close and reconnect (websocket/client/client.go) interleave.
THEOREM ClosedOnce == Spec => []NoDoubleClose
  <1>1. LinkInv => NoDoubleClose
    BY DEF LinkInv
  <1>2. QED
    BY <1>1, LinkAlways, PTL

\* For any number of connections: at most one heartbeat that has not been told
\* to stop, and it pings the connection in use.
THEOREM HeartbeatUnique == Spec => []OneHeartbeat
  <1>1. LinkInv => OneHeartbeat
    BY DEF LinkInv
  <1>2. QED
    BY <1>1, LinkAlways, PTL

\* For any number of connections: every open socket is in use or just being
\* installed, and a closed client has none.
THEOREM SocketsAccountedFor == Spec => []NoSocketLeak
  <1>1. LinkInv => NoSocketLeak
    BY DEF LinkInv
  <1>2. QED
    BY <1>1, LinkAlways, PTL

\* What CloseStops and LinkHeals rest on.  The read loop works on the connection
\* it has copied out of the fields (ReadFields) while Close and the network go
\* on.  If the socket it waits on is open then it is the one in the fields, which
\* Close will close: no read is left waiting on a connection that nobody holds
\* any more.  (What the buffers of a lost connection still hand over is another
\* matter: such a read returns.)
ReadCanBeWoken ==
  pc = "reading" => local \in Ids /\ (net[local] = "up" => local = conn /\ ~ closed)

\* For any number of connections, whatever Close (client.go) and the network do
\* between the copy of the connection and the read.
THEOREM NoReadLeftBehind == Spec => []ReadCanBeWoken
  <1>1. TypeInv /\ LinkInv => ReadCanBeWoken
    BY DEF TypeInv, InHand, LinkInv, NoSocketLeak, ReadCanBeWoken, Ids
  <1>2. QED
    BY <1>1, InitTypes, NextTypes, InitLink, LinkStep, PTL DEF Spec
=============================================================================
