--------------------------- MODULE SyncCallProofs ---------------------------
(***************************************************************************)
(* Proofs about SyncCall, for any number of calls, any ids, and any calls  *)
(* that share an id.                                                       *)
(*                                                                         *)
(* An answer stays with its id from pendingSync through Read and the       *)
(* channel to the caller (IdKept); a call with an id of its own is stored  *)
(* for as long as it waits (StoredWhileWaiting); and no answer is under    *)
(* way twice (Once), so that the one place in the channel of such a call   *)
(* is free when Read has something for it.                                 *)
(***************************************************************************)
EXTENDS SyncCall, TLAPS

IdKept ==
  /\ \A i \in Ids : pendingSync[i] # NoCall => IdOf[pendingSync[i]] = i
  /\ reader.at = "send" => IdOf[reader.payload] = IdOf[reader.to]
  /\ \A k, m \in Calls : ch[k] = <<m>> => IdOf[m] = IdOf[k]

StoredWhileWaiting ==
  \A k \in Calls : Unshared(k) /\ pc[k] \in {"write", "wait"} =>
    pendingSync[IdOf[k]] = k

In(s) == {s[i] : i \in 1..Len(s)}

NoRepeat(s) == \A i, j \in 1..Len(s) : s[i] = s[j] => i = j

New == {k \in Calls : pc[k] \in {"new", "write"}}

Sent == IF reader.at = "send" THEN {reader.payload} ELSE {}

Buffered == {k \in Calls : \E j \in Calls : ch[j] = <<k>>}

\* A request, and then its answer, is in at most one place.
Once ==
  /\ NoRepeat(down) /\ NoRepeat(up)
  /\ New \cap (In(down) \cup In(up) \cup Sent \cup Buffered) = {}
  /\ In(down) \cap (In(up) \cup Sent \cup Buffered) = {}
  /\ In(up) \cap (Sent \cup Buffered) = {}
  /\ Sent \cap Buffered = {}

\* Read never waits for room in the channel of a call with an id of its own.
RoomForAnswer ==
  reader.at = "send" /\ Unshared(reader.to) => ch[reader.to] = <<>>
-----------------------------------------------------------------------------
(* Sequences without repetition.                                           *)

\* A call that is not in a queue joins it.
LEMMA AppendOnce ==
  ASSUME NEW S, NEW s \in Seq(S), NEW x \in S
  PROVE  /\ Append(s, x) \in Seq(S)
         /\ In(Append(s, x)) = In(s) \cup {x}
         /\ NoRepeat(s) /\ x \notin In(s) => NoRepeat(Append(s, x))
  <1>1. /\ Append(s, x) \in Seq(S)
        /\ Len(Append(s, x)) = Len(s) + 1
        /\ \A i \in 1..Len(s) : Append(s, x)[i] = s[i]
        /\ Append(s, x)[Len(s) + 1] = x
        /\ Len(s) \in Nat
    OBVIOUS
  <1>2. QED
    BY <1>1 DEF In, NoRepeat

\* The first of a queue leaves it.
LEMMA TailOnce ==
  ASSUME NEW S, NEW s \in Seq(S), s # <<>>
  PROVE  /\ Tail(s) \in Seq(S)
         /\ Head(s) \in S /\ Head(s) \in In(s)
         /\ In(Tail(s)) \subseteq In(s)
         /\ NoRepeat(s) => NoRepeat(Tail(s)) /\ Head(s) \notin In(Tail(s))
  <1>1. /\ Tail(s) \in Seq(S)
        /\ Len(s) \in Nat \ {0}
        /\ Len(Tail(s)) = Len(s) - 1
        /\ \A i \in 1..Len(s) - 1 : Tail(s)[i] = s[i + 1]
        /\ Head(s) = s[1] /\ Head(s) \in S
    OBVIOUS
  <1>2. QED
    BY <1>1 DEF In, NoRepeat

LEMMA EmptyOnce == In(<<>>) = {} /\ NoRepeat(<<>>)
  BY DEF In, NoRepeat
-----------------------------------------------------------------------------
(* Types.                                                                  *)

LEMMA InitTypes == Init => TypeOK
  BY SyncAssumption DEF Init, TypeOK, Reading

LEMMA NextTypes == TypeOK /\ [Next]_vars => TypeOK'
  <1> SUFFICES ASSUME TypeOK, [Next]_vars
               PROVE  TypeOK'
    OBVIOUS
  <1> USE SyncAssumption DEF TypeOK, callVars, wireVars
  <1>1. ASSUME NEW k \in Calls, Store(k)
        PROVE  TypeOK'
    BY <1>1 DEF Store
  <1>2. ASSUME NEW k \in Calls, Write(k)
        PROVE  TypeOK'
    <2>1. Append(down, k) \in Seq(Calls)
      BY AppendOnce
    <2>2. QED
      BY <1>2, <2>1 DEF Write
  <1>3. ASSUME NEW k \in Calls, Receive(k)
        PROVE  TypeOK'
    <2>1. Head(ch[k]) \in Calls
      BY <1>3 DEF Receive
    <2>2. QED
      BY <1>3, <2>1 DEF Receive
  <1>4. ASSUME NEW k \in Calls, Timeout(k)
        PROVE  TypeOK'
    BY <1>4 DEF Timeout
  <1>5. ASSUME NEW k \in Calls, Delete(k)
        PROVE  TypeOK'
    BY <1>5 DEF Delete
  <1>6. CASE ReadResult
    <2>1. Tail(up) \in Seq(Calls) /\ Head(up) \in Calls
      BY <1>6, TailOnce DEF ReadResult
    <2>2. Route(Head(up)) \in Calls \cup {NoCall}
      BY <2>1 DEF Route
    <2>3. reader' \in {Reading, Stopped} \cup [at : {"send"}, to : Calls, payload : Calls]
      BY <1>6, <2>1, <2>2 DEF ReadResult
    <2>4. missed' \subseteq Calls
      BY <1>6 DEF ReadResult
    <2>5. QED
      BY <1>6, <2>1, <2>3, <2>4 DEF ReadResult
  <1>7. CASE Deliver
    <2>1. reader \in [at : {"send"}, to : Calls, payload : Calls]
      BY <1>7 DEF Deliver, Reading, Stopped
    <2>2. QED
      BY <1>7, <2>1 DEF Deliver
  <1>8. CASE ReadFails
    BY <1>8 DEF ReadFails
  <1>9. CASE WorkerAnswer
    BY <1>9, AppendOnce, TailOnce DEF WorkerAnswer
  <1>10. CASE Break
    BY <1>10 DEF Break
  <1>11. CASE UNCHANGED vars
    BY <1>11 DEF vars
  <1>12. QED
    BY <1>1, <1>2, <1>3, <1>4, <1>5, <1>6, <1>7, <1>8, <1>9, <1>10, <1>11
       DEF Next, CallStep, Reader

\* Type correctness of SendSync and Read (websocket/server/client.go).
THEOREM SyncTypeCorrect == Spec => []TypeOK
  BY InitTypes, NextTypes, PTL DEF Spec
-----------------------------------------------------------------------------
(* An answer keeps to its id.                                              *)

\* What Read is sending, and where.
LEMMA Sending ==
  ASSUME TypeOK, reader.at = "send"
  PROVE  reader.to \in Calls /\ reader.payload \in Calls
  BY DEF TypeOK, Reading, Stopped

LEMMA IdKeptStep == TypeOK /\ IdKept /\ [Next]_vars => IdKept'
  <1> SUFFICES ASSUME TypeOK, IdKept, [Next]_vars
               PROVE  IdKept'
    OBVIOUS
  <1> USE SyncAssumption DEF IdKept, callVars, wireVars
  <1>1. ASSUME NEW k \in Calls, Store(k)
        PROVE  IdKept'
    BY <1>1 DEF TypeOK, Store
  <1>2. ASSUME NEW k \in Calls, Receive(k)
        PROVE  IdKept'
    BY <1>2 DEF TypeOK, Receive
  <1>3. ASSUME NEW k \in Calls, Delete(k)
        PROVE  IdKept'
    BY <1>3 DEF TypeOK, Delete
  <1>4. CASE ReadResult
    <2>1. Head(up) \in Calls
      BY <1>4, TailOnce DEF TypeOK, ReadResult
    <2>2. Route(Head(up)) # NoCall => IdOf[Route(Head(up))] = IdOf[Head(up)]
      BY <2>1 DEF Route
    <2>3. reader'.at = "send" => IdOf[reader'.payload] = IdOf[reader'.to]
      BY <1>4, <2>2 DEF ReadResult, Reading
    <2>4. QED
      BY <1>4, <2>3 DEF ReadResult
  <1>5. CASE Deliver
    <2>1. reader.to \in Calls /\ reader.payload \in Calls
      BY <1>5, Sending DEF Deliver
    <2>2. reader'.at # "send"
      BY <1>5 DEF Deliver, Reading
    <2>3. \A j, m \in Calls : ch'[j] = <<m>> =>
            ch[j] = <<m>> \/ (j = reader.to /\ m = reader.payload)
      BY <1>5, <2>1 DEF TypeOK, Deliver
    <2>4. QED
      BY <1>5, <2>1, <2>2, <2>3 DEF Deliver
  <1>6. CASE ReadFails
    BY <1>6 DEF ReadFails, Stopped
  <1>7. CASE UNCHANGED <<pendingSync, reader, ch>>
    BY <1>7
  <1>8. QED
    BY <1>1, <1>2, <1>3, <1>4, <1>5, <1>6, <1>7
       DEF Next, CallStep, Reader, Write, Timeout, WorkerAnswer, Break, vars

LEMMA OwnResultStep == TypeOK /\ IdKept /\ OwnResult /\ [Next]_vars => OwnResult'
  <1> SUFFICES ASSUME TypeOK, IdKept, OwnResult, [Next]_vars
               PROVE  OwnResult'
    OBVIOUS
  <1>1. ASSUME NEW k \in Calls, Receive(k)
        PROVE  OwnResult'
    <2>1. PICK m \in Calls : ch[k] = <<m>>
      BY <1>1 DEF TypeOK, Receive
    <2>2. result' = [result EXCEPT ![k] = m] /\ IdOf[m] = IdOf[k]
      BY <1>1, <2>1 DEF Receive, IdKept
    <2>3. QED
      BY <2>2 DEF TypeOK, OwnResult
  <1>2. CASE UNCHANGED result
    BY <1>2 DEF OwnResult
  <1>3. QED
    BY <1>1, <1>2 DEF Next, CallStep, Reader, Store, Write, Timeout, Delete, ReadResult,
       Deliver, ReadFails, WorkerAnswer, Break, vars, callVars

\* For any number of calls on a connection, whatever ids they share: an answer
\* reaches only a caller of the request it answers, however late it comes.
THEOREM AnswersReachTheirCaller == Spec => []OwnResult
  <1>1. Init => IdKept /\ OwnResult
    BY DEF Init, IdKept, OwnResult, Reading
  <1>2. QED
    BY <1>1, SyncTypeCorrect, IdKeptStep, OwnResultStep, PTL DEF Spec
-----------------------------------------------------------------------------
(* Who is stored in pendingSync.                                           *)

LEMMA NoLeftoverStep == TypeOK /\ NoLeftover /\ [Next]_vars => NoLeftover'
  <1> SUFFICES ASSUME TypeOK, NoLeftover, [Next]_vars
               PROVE  NoLeftover'
    OBVIOUS
  <1> USE SyncAssumption DEF TypeOK, NoLeftover, callVars
  <1>1. ASSUME NEW k \in Calls, Store(k)
        PROVE  NoLeftover'
    BY <1>1 DEF Store
  <1>2. ASSUME NEW k \in Calls, Write(k) \/ Receive(k) \/ Timeout(k)
        PROVE  NoLeftover'
    BY <1>2 DEF Write, Receive, Timeout
  <1>3. ASSUME NEW k \in Calls, Delete(k)
        PROVE  NoLeftover'
    BY <1>3 DEF Delete
  <1>4. CASE UNCHANGED <<pc, pendingSync>>
    BY <1>4
  <1>5. QED
    BY <1>1, <1>2, <1>3, <1>4 DEF Next, CallStep, Reader, ReadResult, Deliver,
       ReadFails, WorkerAnswer, Break, vars

\* For any number of calls: one that has returned has left no channel of its
\* own in pendingSync (the deferred Delete of SendSync).
THEOREM NothingLeftBehind == Spec => []NoLeftover
  <1>1. Init => NoLeftover
    BY DEF Init, NoLeftover
  <1>2. QED
    BY <1>1, SyncTypeCorrect, NoLeftoverStep, PTL DEF Spec

LEMMA StoredStep ==
  TypeOK /\ StoredWhileWaiting /\ [Next]_vars => StoredWhileWaiting'
  <1> SUFFICES ASSUME TypeOK, StoredWhileWaiting, [Next]_vars,
                      NEW j \in Calls, Unshared(j), pc'[j] \in {"write", "wait"}
               PROVE  pendingSync'[IdOf[j]] = j
    BY DEF StoredWhileWaiting, Unshared
  <1> USE SyncAssumption DEF TypeOK, StoredWhileWaiting, Unshared, callVars
  <1>1. ASSUME NEW k \in Calls, Store(k)
        PROVE  pendingSync'[IdOf[j]] = j
    BY <1>1 DEF Store
  <1>2. ASSUME NEW k \in Calls, Write(k) \/ Receive(k) \/ Timeout(k)
        PROVE  pendingSync'[IdOf[j]] = j
    BY <1>2 DEF Write, Receive, Timeout
  <1>3. ASSUME NEW k \in Calls, Delete(k)
        PROVE  pendingSync'[IdOf[j]] = j
    BY <1>3 DEF Delete
  <1>4. CASE UNCHANGED <<pc, pendingSync>>
    BY <1>4
  <1>5. QED
    BY <1>1, <1>2, <1>3, <1>4 DEF Next, CallStep, Reader, ReadResult, Deliver,
       ReadFails, WorkerAnswer, Break, vars

LEMMA RoutedStep ==
  TypeOK /\ StoredWhileWaiting /\ ResultRouted /\ [Next]_vars => ResultRouted'
  <1> SUFFICES ASSUME TypeOK, StoredWhileWaiting, ResultRouted, [Next]_vars
               PROVE  ResultRouted'
    OBVIOUS
  <1>1. CASE ReadResult
    <2> SUFFICES ASSUME NEW j \in Calls, pc[j] = "wait", IdOf[j] = IdOf[Head(up)],
                        Route(Head(up)) = NoCall
                 PROVE  ~ Unshared(j)
      BY <1>1 DEF ReadResult, ResultRouted, Unshared
    <2>1. pendingSync[IdOf[j]] = NoCall
      BY DEF Route
    <2>2. QED
      BY <2>1, SyncAssumption DEF StoredWhileWaiting
  <1>2. CASE UNCHANGED missed
    BY <1>2 DEF ResultRouted, Unshared
  <1>3. QED
    BY <1>1, <1>2 DEF Next, CallStep, Reader, Store, Write, Receive, Timeout, Delete,
       Deliver, ReadFails, WorkerAnswer, Break, vars

\* For any number of calls: no call with an id of its own waits while Read
\* throws its answer away.
THEOREM AnswersFindTheirCaller == Spec => []ResultRouted
  <1>1. Init => StoredWhileWaiting /\ ResultRouted
    BY DEF Init, StoredWhileWaiting, ResultRouted
  <1>2. QED
    BY <1>1, SyncTypeCorrect, StoredStep, RoutedStep, PTL DEF Spec
-----------------------------------------------------------------------------
(* Room in the channel.                                                    *)

LEMMA OnceStep == TypeOK /\ Once /\ [Next]_vars => Once'
  <1> SUFFICES ASSUME TypeOK, Once, [Next]_vars
               PROVE  Once'
    OBVIOUS
  <1>t. down \in Seq(Calls) /\ up \in Seq(Calls)
    BY DEF TypeOK
  <1>1. ASSUME NEW k \in Calls, Store(k) \/ Timeout(k) \/ Delete(k)
        PROVE  Once'
    <2>1. /\ UNCHANGED <<down, up, reader, ch>>
          /\ New' \subseteq New
      BY <1>1 DEF TypeOK, Store, Timeout, Delete, New, wireVars
    <2>2. Sent' = Sent /\ Buffered' = Buffered
      BY <2>1 DEF Sent, Buffered
    <2>3. QED
      BY <2>1, <2>2 DEF Once
  <1>2. ASSUME NEW k \in Calls, Write(k)
        PROVE  Once'
    <2>1. /\ UNCHANGED <<up, reader, ch>>
          /\ k \in New /\ New' = New \ {k}
          /\ down' = Append(down, k) \/ down' = down
      BY <1>2 DEF TypeOK, Write, New
    <2>2. Sent' = Sent /\ Buffered' = Buffered
      BY <2>1 DEF Sent, Buffered
    <2>3. In(down') \subseteq In(down) \cup {k} /\ NoRepeat(down')
      <3>1. k \notin In(down) /\ NoRepeat(down)
        BY <2>1 DEF Once
      <3>2. In(Append(down, k)) = In(down) \cup {k} /\ NoRepeat(Append(down, k))
        BY <1>t, <3>1, AppendOnce
      <3>3. QED
        BY <2>1, <3>1, <3>2
    <2>4. QED
      BY <2>1, <2>2, <2>3 DEF Once
  <1>3. ASSUME NEW k \in Calls, Receive(k)
        PROVE  Once'
    <2>1. /\ UNCHANGED <<down, up, reader>>
          /\ New' = New
          /\ Buffered' \subseteq Buffered
      BY <1>3 DEF TypeOK, Receive, New, Buffered, wireVars
    <2>2. Sent' = Sent
      BY <2>1 DEF Sent
    <2>3. QED
      BY <2>1, <2>2 DEF Once
  <1>4. CASE ReadResult
    <2>1. /\ UNCHANGED <<down, ch, pc>>
          /\ up # <<>> /\ up' = Tail(up)
          /\ reader = Reading
          /\ reader' = reader \/ (reader'.at = "send" /\ reader'.payload = Head(up))
      BY <1>4 DEF ReadResult, callVars
    <2>2. /\ New' = New /\ Buffered' = Buffered
          /\ Sent' \subseteq {Head(up)}
      BY <2>1 DEF New, Buffered, Sent, Reading
    <2>3. /\ Head(up) \in In(up) /\ NoRepeat(up')
          /\ In(up') \subseteq In(up) \ {Head(up)}
      BY <1>t, <2>1, TailOnce DEF Once
    <2>4. QED
      BY <2>1, <2>2, <2>3 DEF Once
  <1>5. CASE Deliver
    <2>1. /\ UNCHANGED <<down, up, pc>>
          /\ reader.at = "send" /\ reader' = Reading
          /\ ch' = [ch EXCEPT ![reader.to] = <<reader.payload>>]
      BY <1>5 DEF Deliver, wireVars
    <2>2. reader.to \in Calls /\ reader.payload \in Calls
      BY <2>1, Sending
    <2>3. /\ New' = New
          /\ Sent = {reader.payload} /\ Sent' = {}
          /\ Buffered' \subseteq Buffered \cup {reader.payload}
      BY <2>1, <2>2 DEF TypeOK, New, Sent, Buffered, Reading
    <2>4. QED
      BY <2>1, <2>3 DEF Once
  <1>6. CASE WorkerAnswer
    <2>1. /\ UNCHANGED <<pc, ch, reader>>
          /\ down # <<>> /\ down' = Tail(down)
          /\ up' = up \/ up' = Append(up, Head(down))
      BY <1>6 DEF WorkerAnswer, callVars
    <2>2. New' = New /\ Sent' = Sent /\ Buffered' = Buffered
      BY <2>1 DEF New, Sent, Buffered
    <2>3. /\ Head(down) \in In(down) /\ Head(down) \in Calls /\ NoRepeat(down')
          /\ In(down') \subseteq In(down) \ {Head(down)}
      BY <1>t, <2>1, TailOnce DEF Once
    <2>4. In(up') \subseteq In(up) \cup {Head(down)} /\ NoRepeat(up')
      <3>1. Head(down) \notin In(up) /\ NoRepeat(up)
        BY <2>3 DEF Once
      <3>2. /\ In(Append(up, Head(down))) = In(up) \cup {Head(down)}
            /\ NoRepeat(Append(up, Head(down)))
        BY <1>t, <2>3, <3>1, AppendOnce
      <3>3. QED
        BY <2>1, <3>1, <3>2
    <2>5. QED
      BY <2>2, <2>3, <2>4 DEF Once
  <1>7. CASE Break \/ ReadFails
    <2>1. /\ UNCHANGED <<pc, ch, up>>
          /\ down' = <<>> \/ down' = down
          /\ reader' = reader \/ reader' = Stopped
      BY <1>7 DEF Break, ReadFails, callVars, wireVars
    <2>2. New' = New /\ Sent' \subseteq Sent /\ Buffered' = Buffered
      BY <2>1 DEF New, Sent, Buffered, Stopped
    <2>3. In(down') \subseteq In(down) /\ NoRepeat(down')
      BY <2>1, EmptyOnce DEF Once
    <2>4. QED
      BY <2>1, <2>2, <2>3 DEF Once
  <1>8. CASE UNCHANGED vars
    <2>1. UNCHANGED <<pc, ch, down, up, reader>>
      BY <1>8 DEF vars, callVars, wireVars
    <2>2. New' = New /\ Sent' = Sent /\ Buffered' = Buffered
      BY <2>1 DEF New, Sent, Buffered
    <2>3. QED
      BY <2>1, <2>2 DEF Once
  <1>9. QED
    BY <1>1, <1>2, <1>3, <1>4, <1>5, <1>6, <1>7, <1>8 DEF Next, CallStep, Reader

LEMMA OnceGivesRoom == TypeOK /\ IdKept /\ Once => RoomForAnswer
  <1> SUFFICES ASSUME TypeOK, IdKept, Once, reader.at = "send", Unshared(reader.to)
               PROVE  ch[reader.to] = <<>>
    BY DEF RoomForAnswer
  <1>1. reader.to \in Calls /\ reader.payload \in Calls
    BY Sending
  <1>2. reader.payload = reader.to
    BY <1>1 DEF IdKept, Unshared
  <1>3. \A m \in Calls : ch[reader.to] # <<m>>
    BY <1>1, <1>2 DEF IdKept, Unshared, Once, Sent, Buffered
  <1>4. QED
    BY <1>1, <1>3 DEF TypeOK

\* For any number of calls: with an id of its own, the one buffered element of
\* a call is enough, and Read (websocket/server/client.go) sends to its channel
\* without waiting for anybody: the safety half of ReaderFree.
THEOREM ReadNeverWaits == Spec => []RoomForAnswer
  <1>1. Init => Once
    BY EmptyOnce DEF Init, Once, New, Sent, Buffered, Reading
  <1>2. Init => IdKept
    BY DEF Init, IdKept, Reading
  <1>3. QED
    BY <1>1, <1>2, SyncTypeCorrect, IdKeptStep, OnceStep, OnceGivesRoom, PTL DEF Spec
=============================================================================
