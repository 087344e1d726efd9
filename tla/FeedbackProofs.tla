--------------------------- MODULE FeedbackProofs ---------------------------
(***************************************************************************)
(* Proofs about Feedback, for any limits, window lengths and calls.        *)
(*                                                                         *)
(* WindowBounds speaks of what was admitted, the limiter only of counts in *)
(* a bucket.  The inductive invariant says what the counts stand for: the  *)
(* last count entries of admitted lie in the window (Remembered), those    *)
(* before them are older than the window, and those that are even limit    *)
(* entries further back are a whole length older (Window, for the bucket   *)
(* in the map).  A bucket that is gone was idle for a day (Idle), so that  *)
(* the next one need not know of it.                                       *)
(***************************************************************************)
EXTENDS Feedback, FiniteSetTheorems, TLAPS

\* The calls that hold a bucket, and the janitor's victim.
Shape ==
  /\ \A c \in Calls : pc[c] = "allow" <=> ref[c] # None
  /\ doomed => inMap # None

Times == 0..MaxTime

\* Admissions are in order, and over.
Ordered(s, t) ==
  /\ \A i, j \in 1..Len(s) : i <= j => s[i] <= s[j]
  /\ \A i \in 1..Len(s) : s[i] <= t

\* No window has begun later than now.
Begun ==
  \A b \in Buckets : /\ bucket[b].minuteReset <= now + Minute
                     /\ bucket[b].dayReset <= now + Day

\* The last count entries of s are not before start.
Recent(s, count, start) ==
  /\ count <= Len(s)
  /\ \A i \in 1..Len(s) : i > Len(s) - count => s[i] >= start

Remembered ==
  \A b \in Buckets : /\ Recent(admitted, bucket[b].minuteCount, bucket[b].minuteReset - Minute)
                     /\ Recent(admitted, bucket[b].dayCount, bucket[b].dayReset - Day)

\* What s holds beside the count entries of the window that ends at reset.
Window(s, count, reset, limit, length) ==
  \A i \in 1..Len(s) :
    /\ s[i] <= reset
    /\ i <= Len(s) - count => s[i] < reset - length
    /\ i <= Len(s) - count - limit => s[i] + length < reset - length

\* Only the bucket in the map is in use, and it knows all that matters.
Idle ==
  \A i \in 1..Len(admitted) : admitted[i] < now - Day

KnowsAll(b) ==
  /\ Window(admitted, b.minuteCount, b.minuteReset, PerMinute, Minute)
  /\ Window(admitted, b.dayCount, b.dayReset, PerDay, Day)

LastSeen(b) == \A i \in 1..Len(admitted) : admitted[i] <= b.lastSeen

OneBucket ==
  ~raced =>
    /\ \A c \in Calls : ref[c] \in {None, inMap}
    /\ inMap = None => Idle
    /\ inMap # None =>
         /\ KnowsAll(bucket[inMap])
         /\ bucket[inMap].lastSeen = Never => \E c \in Calls : ref[c] = inMap
         /\ bucket[inMap].lastSeen # Never => LastSeen(bucket[inMap])

LimitInv ==
  /\ TypeOK /\ Shape /\ Ordered(admitted, now) /\ Begun
  /\ Remembered /\ OneBucket /\ WindowBounds
-----------------------------------------------------------------------------
(* Types.                                                                  *)

LEMMA Numbers ==
  /\ PerMinute \in Nat /\ PerDay \in Nat /\ MaxTime \in Nat
  /\ Minute \in Nat \ {0} /\ Day \in Nat \ {0} /\ Minute <= Day
  /\ Never \in Int /\ Never < -Day
  BY FeedbackAssumption DEF Never

\* LoadOrStore finds a bucket that no call holds.
LEMMA FreshBucket ==
  ASSUME TypeOK, NEW c \in Calls, ref[c] = None
  PROVE  \E b \in Buckets : \A d \in Calls : ref[d] # b
  <1> SUFFICES ASSUME \A b \in Buckets : \E d \in Calls : ref[d] = b
               PROVE  FALSE
    OBVIOUS
  <1> DEFINE S == Calls \ {c}
             T == {ref[d] : d \in S}
             f == [d \in S |-> ref[d]]
  <1>1. /\ IsFiniteSet(S)
        /\ Cardinality(S) = Cardinality(Calls) - 1
    BY FeedbackAssumption, FS_RemoveElement
  <1>2. f \in Surjection(S, T)
    BY DEF Surjection
  <1>3. IsFiniteSet(T) /\ Cardinality(T) <= Cardinality(S)
    BY <1>1, <1>2, FS_Surjection
  <1>4. Buckets \subseteq T
    BY FeedbackAssumption
  <1>5. Cardinality(Buckets) <= Cardinality(T)
    BY <1>3, <1>4, FS_Subset
  <1>6. Cardinality(Calls) \in Nat /\ Cardinality(Buckets) \in Nat /\ Cardinality(T) \in Nat
    BY <1>3, FeedbackAssumption, FS_CardinalityType
  <1>7. QED
    BY <1>1, <1>3, <1>5, <1>6, FeedbackAssumption

\* The records a bucket can be.
BucketType ==
  [minuteCount : 0..PerMinute, minuteReset : 0..(MaxTime + Minute),
   dayCount : 0..PerDay, dayReset : 0..(MaxTime + Day),
   lastSeen : 0..MaxTime \cup {Never}]

LEMMA NewBucketType == TypeOK => NewBucket \in BucketType
  BY FeedbackAssumption DEF TypeOK, NewBucket, BucketType

LEMMA BucketFields ==
  ASSUME NEW b \in BucketType
  PROVE  /\ b.minuteCount \in 0..PerMinute /\ b.minuteReset \in 0..(MaxTime + Minute)
         /\ b.dayCount \in 0..PerDay /\ b.dayReset \in 0..(MaxTime + Day)
         /\ b.minuteCount \in Nat /\ b.minuteReset \in Nat
         /\ b.dayCount \in Nat /\ b.dayReset \in Nat
  <1>1. /\ b.minuteCount \in 0..PerMinute /\ b.minuteReset \in 0..(MaxTime + Minute)
        /\ b.dayCount \in 0..PerDay /\ b.dayReset \in 0..(MaxTime + Day)
    BY DEF BucketType
  <1>2. QED
    BY <1>1, Numbers

\* The fields that Allow writes.
LEMMA RenewedFields ==
  ASSUME NEW b \in BucketType
  PROVE  LET d == Renewed(b) IN
         /\ d.lastSeen = now
         /\ d.minuteCount = IF now > b.minuteReset THEN 0 ELSE b.minuteCount
         /\ d.minuteReset = IF now > b.minuteReset THEN now + Minute ELSE b.minuteReset
         /\ d.dayCount = IF now > b.dayReset THEN 0 ELSE b.dayCount
         /\ d.dayReset = IF now > b.dayReset THEN now + Day ELSE b.dayReset
  BY DEF Renewed, BucketType

LEMMA CountedFields ==
  ASSUME NEW b \in BucketType
  PROVE  LET d == Counted(b) IN
         /\ d.lastSeen = b.lastSeen
         /\ d.minuteCount = b.minuteCount + 1 /\ d.minuteReset = b.minuteReset
         /\ d.dayCount = b.dayCount + 1 /\ d.dayReset = b.dayReset
  <1>1. b.minuteCount \in Nat /\ b.dayCount \in Nat
    BY BucketFields
  <1>2. QED
    BY <1>1 DEF Counted, BucketType

LEMMA RenewedType ==
  ASSUME TypeOK, NEW b \in BucketType
  PROVE  /\ Renewed(b) \in BucketType
         /\ ~Full(Renewed(b)) => Counted(Renewed(b)) \in BucketType
  <1> DEFINE d == Renewed(b)
  <1>1. now \in 0..MaxTime /\ now \in Nat
    BY Numbers DEF TypeOK
  <1>2. /\ b.minuteCount \in 0..PerMinute /\ b.minuteReset \in 0..(MaxTime + Minute)
        /\ b.dayCount \in 0..PerDay /\ b.dayReset \in 0..(MaxTime + Day)
    BY BucketFields
  <1>3. /\ d.minuteCount \in 0..PerMinute /\ d.minuteReset \in 0..(MaxTime + Minute)
        /\ d.dayCount \in 0..PerDay /\ d.dayReset \in 0..(MaxTime + Day)
        /\ d.lastSeen = now
    BY <1>1, <1>2, RenewedFields, Numbers
  <1>4. d \in BucketType
    <2>1. [b EXCEPT !.lastSeen = now, !.minuteCount = d.minuteCount,
                    !.minuteReset = d.minuteReset, !.dayCount = d.dayCount,
                    !.dayReset = d.dayReset] \in BucketType
      BY <1>1, <1>3 DEF BucketType
    <2>2. d = [b EXCEPT !.lastSeen = now, !.minuteCount = d.minuteCount,
                        !.minuteReset = d.minuteReset, !.dayCount = d.dayCount,
                        !.dayReset = d.dayReset]
      BY RenewedFields DEF Renewed
    <2>3. QED
      BY <2>1, <2>2
  <1>5. ASSUME ~Full(d)
        PROVE  d.minuteCount + 1 \in 0..PerMinute /\ d.dayCount + 1 \in 0..PerDay
    BY <1>3, <1>5, Numbers DEF Full
  <1>6. ~Full(d) => Counted(d) \in BucketType
    <2> SUFFICES ASSUME ~Full(d)
                 PROVE  Counted(d) \in BucketType
      OBVIOUS
    <2>1. \A m \in 0..PerMinute, n \in 0..PerDay :
            [d EXCEPT !.minuteCount = m, !.dayCount = n] \in BucketType
      BY <1>4 DEF BucketType
    <2>2. QED
      BY <1>5, <2>1 DEF Counted
  <1>7. QED
    BY <1>4, <1>6

LEMMA InitTypes == Init => TypeOK /\ Shape
  <1> SUFFICES ASSUME Init
               PROVE  TypeOK /\ Shape
    OBVIOUS
  <1>1. now \in 0..MaxTime
    BY FeedbackAssumption DEF Init
  <1>2. NewBucket \in BucketType
    BY <1>1, FeedbackAssumption DEF NewBucket, BucketType
  <1>3. bucket \in [Buckets -> BucketType] /\ admitted \in Seq(Times)
    BY <1>2 DEF Init
  <1>4. QED
    BY <1>1, <1>3 DEF Init, TypeOK, Shape, BucketType, Times

LEMMA NextTypes == TypeOK /\ Shape /\ [Next]_vars => (TypeOK /\ Shape)'
  <1> SUFFICES ASSUME TypeOK, Shape, [Next]_vars
               PROVE  (TypeOK /\ Shape)'
    OBVIOUS
  <1> USE DEF Shape, Goto, Tell
  <1>1. ASSUME NEW c \in Calls, Lookup(c)
        PROVE  (TypeOK /\ Shape)'
    <2>1. /\ pc[c] = "idle" /\ ref[c] = None
          /\ pc' = [pc EXCEPT ![c] = "allow"]
          /\ mail' = [mail EXCEPT ![c] = "none"]
          /\ reply' = [reply EXCEPT ![c] = "none"]
          /\ UNCHANGED <<now, due, doomed, raced, admitted>>
      BY <1>1 DEF Lookup, TypeOK
    <2>2. PICK b \in Buckets : /\ ref' = [ref EXCEPT ![c] = b] /\ inMap' = b
                               /\ bucket' \in [Buckets -> BucketType]
      <3>1. CASE inMap # None
        BY <1>1, <3>1 DEF Lookup, TypeOK, BucketType
      <3>2. CASE inMap = None
        <4> DEFINE b == CHOOSE x \in Buckets : \A d \in Calls : ref[d] # x
        <4>1. b \in Buckets
          BY <2>1, FreshBucket
        <4>2. bucket' = [bucket EXCEPT ![b] = NewBucket] /\ inMap' = b
              /\ ref' = [ref EXCEPT ![c] = b]
          BY <1>1, <3>2 DEF Lookup
        <4>3. bucket' \in [Buckets -> BucketType]
          BY <4>1, <4>2, NewBucketType DEF TypeOK, BucketType
        <4>4. QED
          BY <4>1, <4>2, <4>3
      <3>3. QED
        BY <3>1, <3>2
    <2>3. TypeOK'
      BY <2>1, <2>2 DEF TypeOK, BucketType
    <2>4. Shape'
      BY <2>1, <2>2, FeedbackAssumption DEF TypeOK
    <2>5. QED
      BY <2>3, <2>4
  <1>2. ASSUME NEW c \in Calls, Allow(c)
        PROVE  (TypeOK /\ Shape)'
    <2> DEFINE b == Renewed(bucket[ref[c]])
    <2>1. pc[c] = "allow" /\ ref[c] \in Buckets
      BY <1>2, FeedbackAssumption DEF Allow, TypeOK
    <2>2. /\ b \in BucketType
          /\ ~Full(b) => Counted(b) \in BucketType
      <3>1. bucket[ref[c]] \in BucketType
        BY <2>1 DEF TypeOK, BucketType
      <3>2. QED
        BY <3>1, RenewedType
    <2>3. PICK d \in BucketType : bucket' = [bucket EXCEPT ![ref[c]] = d]
      BY <1>2, <2>2 DEF Allow
    <2>4. bucket' \in [Buckets -> BucketType]
      BY <2>1, <2>3 DEF TypeOK, BucketType
    <2>5. admitted' \in Seq(Times)
      <3>1. CASE UNCHANGED admitted
        BY <3>1 DEF TypeOK, Times
      <3>2. CASE admitted' = Append(admitted, now)
        BY <3>2 DEF TypeOK, Times
      <3>3. QED
        BY <1>2, <3>1, <3>2 DEF Allow
    <2>6. /\ ref' = [ref EXCEPT ![c] = None]
          /\ UNCHANGED <<now, inMap, due, doomed, raced>>
          /\ \/ pc' = [pc EXCEPT ![c] = "idle"] \/ pc' = [pc EXCEPT ![c] = "wait"]
          /\ UNCHANGED mail \/ mail' = [mail EXCEPT ![c] = "dialing"]
          /\ \/ UNCHANGED reply
             \/ \E v \in {"limited", "invalid"} : reply' = [reply EXCEPT ![c] = v]
      BY <1>2 DEF Allow
    <2>7. TypeOK'
      <3>1. pc' \in [Calls -> {"idle", "allow", "wait"}]
        BY <2>6 DEF TypeOK
      <3>2. mail' \in [Calls -> {"none", "dialing", "ok", "err"}]
        BY <2>6 DEF TypeOK
      <3>3. reply' \in [Calls -> {"none", "limited", "invalid", "sent", "failed"}]
        BY <2>6 DEF TypeOK
      <3>4. ref' \in [Calls -> Buckets \cup {None}]
        BY <2>6 DEF TypeOK
      <3>5. QED
        BY <2>4, <2>5, <2>6, <3>1, <3>2, <3>3, <3>4 DEF TypeOK, BucketType, Times, Never
    <2>8. Shape'
      BY <2>6 DEF TypeOK
    <2>9. QED
      BY <2>7, <2>8
  <1>3. ASSUME NEW c \in Calls, MailDone(c) \/ Receive(c) \/ Timeout(c)
        PROVE  (TypeOK /\ Shape)'
    <2>1. /\ UNCHANGED <<now, inMap, bucket, due, doomed, raced, ref, admitted>>
          /\ UNCHANGED mail \/ \E v \in {"ok", "err"} : mail' = [mail EXCEPT ![c] = v]
          /\ \/ UNCHANGED <<pc, reply>>
             \/ /\ pc[c] = "wait" /\ pc' = [pc EXCEPT ![c] = "idle"]
                /\ \E v \in {"sent", "failed"} : reply' = [reply EXCEPT ![c] = v]
      BY <1>3 DEF MailDone, Receive, Timeout
    <2>2. TypeOK'
      <3>1. pc' \in [Calls -> {"idle", "allow", "wait"}]
        BY <2>1 DEF TypeOK
      <3>2. mail' \in [Calls -> {"none", "dialing", "ok", "err"}]
        BY <2>1 DEF TypeOK
      <3>3. reply' \in [Calls -> {"none", "limited", "invalid", "sent", "failed"}]
        BY <2>1 DEF TypeOK
      <3>4. QED
        BY <2>1, <3>1, <3>2, <3>3 DEF TypeOK
    <2>3. Shape'
      BY <2>1 DEF TypeOK
    <2>4. QED
      BY <2>2, <2>3
  <1>4. CASE JanitorInspect
    BY <1>4 DEF JanitorInspect, callVars, TypeOK
  <1>5. CASE JanitorDelete
    BY <1>5 DEF JanitorDelete, callVars, TypeOK
  <1>6. CASE Tick
    BY <1>6, FeedbackAssumption DEF Tick, callVars, TypeOK
  <1>7. CASE UNCHANGED vars
    BY <1>7 DEF vars, callVars, TypeOK
  <1>8. QED
    BY <1>1, <1>2, <1>3, <1>4, <1>5, <1>6, <1>7 DEF Next

\* Type correctness of the feedback service, for any calls and limits.
THEOREM FeedbackTypeCorrect == Spec => []TypeOK
  <1>1. QED
    BY InitTypes, NextTypes, PTL DEF Spec
-----------------------------------------------------------------------------
(* Counts and what they stand for.                                         *)

LEMMA AppendTime ==
  ASSUME NEW s \in Seq(Times), NEW t \in Times
  PROVE  /\ Append(s, t) \in Seq(Times) /\ Len(s) \in Nat
         /\ Len(Append(s, t)) = Len(s) + 1
         /\ \A i \in 1..Len(s) : Append(s, t)[i] = s[i] /\ s[i] \in Nat
         /\ Append(s, t)[Len(s) + 1] = t
         /\ \A i \in 1..(Len(s) + 1) : i \in 1..Len(s) \/ i = Len(s) + 1
         /\ t \in Nat
  <1>1. Times \subseteq Nat
    BY Numbers DEF Times
  <1>2. /\ Len(s) \in Nat /\ \A i \in 1..Len(s) : s[i] \in Times
        /\ Append(s, t) \in Seq(Times)
        /\ Len(Append(s, t)) = Len(s) + 1
        /\ \A i \in 1..Len(s) : Append(s, t)[i] = s[i]
        /\ Append(s, t)[Len(s) + 1] = t
    OBVIOUS
  <1>3. \A i \in 1..(Len(s) + 1) : i \in 1..Len(s) \/ i = Len(s) + 1
    BY <1>2
  <1>4. t \in Nat /\ \A i \in 1..Len(s) : s[i] \in Nat
    BY <1>1, <1>2
  <1>5. QED
    BY <1>2, <1>3, <1>4

LEMMA OrderedAppend ==
  ASSUME NEW s \in Seq(Times), NEW t \in Times, Ordered(s, t)
  PROVE  Ordered(Append(s, t), t)
  BY AppendTime DEF Ordered

\* A call counted in one bucket makes no other bucket remember too much.
LEMMA RecentAppend ==
  ASSUME NEW s \in Seq(Times), NEW t \in Times,
         NEW count \in Nat, NEW start \in Int, start <= t, Recent(s, count, start)
  PROVE  Recent(Append(s, t), count, start) /\ Recent(Append(s, t), count + 1, start)
  BY AppendTime DEF Recent

LEMMA RecentNone ==
  ASSUME NEW s \in Seq(Times), NEW start
  PROVE  Recent(s, 0, start)
  BY DEF Recent

\* A window that is renewed.
LEMMA WindowRenewed ==
  ASSUME NEW s \in Seq(Times), NEW t \in Times,
         NEW count \in Nat, NEW limit \in Nat, count <= limit,
         NEW length \in Nat, NEW reset \in Int, reset < t,
         Window(s, count, reset, limit, length)
  PROVE  Window(s, 0, t + length, limit, length)
  <1>1. ASSUME NEW i \in 1..Len(s)
        PROVE  /\ s[i] <= t + length
               /\ s[i] < t + length - length
               /\ i <= Len(s) - limit => s[i] + length < t + length - length
    <2>1. s[i] \in Nat /\ t \in Nat /\ Len(s) \in Nat
      BY AppendTime
    <2>2. /\ s[i] <= reset
          /\ i <= Len(s) - count => s[i] < reset - length
      BY DEF Window
    <2>3. QED
      BY <2>1, <2>2
  <1>2. QED
    BY <1>1, AppendTime DEF Window

\* A call that is counted.
LEMMA WindowCounted ==
  ASSUME NEW s \in Seq(Times), NEW t \in Times,
         NEW count \in Nat, NEW limit \in Nat,
         NEW length \in Nat, NEW reset \in Int, t <= reset,
         Window(s, count, reset, limit, length)
  PROVE  Window(Append(s, t), count + 1, reset, limit, length)
  <1> SUFFICES ASSUME NEW i \in 1..(Len(s) + 1)
               PROVE  LET u == Append(s, t) IN
                      /\ u[i] <= reset
                      /\ i <= Len(s) + 1 - (count + 1) => u[i] < reset - length
                      /\ i <= Len(s) + 1 - (count + 1) - limit
                           => u[i] + length < reset - length
    BY AppendTime DEF Window
  <1>1. CASE i = Len(s) + 1
    BY <1>1, AppendTime
  <1>2. CASE i \in 1..Len(s)
    <2>1. /\ Append(s, t)[i] = s[i] /\ s[i] \in Nat /\ Len(s) \in Nat
      BY <1>2, AppendTime
    <2>2. /\ s[i] <= reset
          /\ i <= Len(s) - count => s[i] < reset - length
          /\ i <= Len(s) - count - limit => s[i] + length < reset - length
      BY <1>2 DEF Window
    <2>3. QED
      BY <2>1, <2>2
  <1>3. QED
    BY <1>1, <1>2, AppendTime

\* More than limit calls apart is more than a length apart, twice over.
Apart(s, limit, length) ==
  \A i \in 1..(Len(s) - limit) : s[i + limit] > s[i] + length

LEMMA ApartAppend ==
  ASSUME NEW s \in Seq(Times), NEW t \in Times,
         NEW count \in Nat, NEW limit \in Nat, count < limit,
         NEW length \in Nat, NEW reset \in Int, reset - length <= t,
         Window(s, count, reset, limit, length), Apart(s, 2 * limit, length)
  PROVE  Apart(Append(s, t), 2 * limit, length)
  <1> SUFFICES ASSUME NEW i \in 1..(Len(s) + 1 - 2 * limit)
               PROVE  Append(s, t)[i + 2 * limit] > Append(s, t)[i] + length
    BY AppendTime DEF Apart
  <1>1. /\ i \in 1..Len(s) /\ Append(s, t)[i] = s[i] /\ s[i] \in Nat
        /\ Len(s) \in Nat /\ t \in Nat
    BY AppendTime
  <1>2. CASE i + 2 * limit = Len(s) + 1
    <2>1. i <= Len(s) - count - limit
      BY <1>1, <1>2
    <2>2. s[i] + length < reset - length
      BY <1>1, <2>1 DEF Window
    <2>3. Append(s, t)[i + 2 * limit] = t
      BY <1>2, AppendTime
    <2>4. QED
      BY <1>1, <2>2, <2>3
  <1>3. CASE i + 2 * limit # Len(s) + 1
    <2>1. i \in 1..(Len(s) - 2 * limit) /\ i + 2 * limit \in 1..Len(s)
      BY <1>1, <1>3
    <2>2. s[i + 2 * limit] > s[i] + length
      BY <2>1 DEF Apart
    <2>3. Append(s, t)[i + 2 * limit] = s[i + 2 * limit]
      BY <2>1, AppendTime
    <2>4. QED
      BY <1>1, <2>2, <2>3
  <1>4. QED
    BY <1>2, <1>3
-----------------------------------------------------------------------------
(* The limiter.                                                            *)

LEMMA Values ==
  ASSUME TypeOK
  PROVE  /\ now \in Times /\ now \in Nat /\ admitted \in Seq(Times)
         /\ bucket \in [Buckets -> BucketType]
         /\ \A b \in Buckets : /\ bucket[b].minuteCount \in 0..PerMinute
                               /\ bucket[b].dayCount \in 0..PerDay
                               /\ bucket[b].minuteCount \in Nat
                               /\ bucket[b].dayCount \in Nat
                               /\ bucket[b].minuteReset \in Nat
                               /\ bucket[b].dayReset \in Nat
         /\ Len(admitted) \in Nat /\ \A i \in 1..Len(admitted) : admitted[i] \in Nat
  <1>1. /\ now \in Times /\ now \in Nat /\ admitted \in Seq(Times)
        /\ bucket \in [Buckets -> BucketType]
    BY Numbers DEF TypeOK, Times, BucketType
  <1>2. Len(admitted) \in Nat /\ \A i \in 1..Len(admitted) : admitted[i] \in Nat
    BY <1>1, AppendTime
  <1>3. QED
    BY <1>1, <1>2, BucketFields

LEMMA NewBucketFields ==
  /\ NewBucket.minuteCount = 0 /\ NewBucket.minuteReset = now + Minute
  /\ NewBucket.dayCount = 0 /\ NewBucket.dayReset = now + Day
  /\ NewBucket.lastSeen = Never
  BY DEF NewBucket

LEMMA InitLimit == Init => LimitInv
  <1> SUFFICES ASSUME Init
               PROVE  LimitInv
    OBVIOUS
  <1>1. TypeOK /\ Shape
    BY InitTypes
  <1>2. Len(admitted) = 0
    BY DEF Init
  <1>3. Ordered(admitted, now) /\ Idle /\ WindowBounds
    BY <1>2, Numbers DEF Ordered, Idle, WindowBounds, AtMostIn
  <1>4. Begun
    BY NewBucketFields, Numbers DEF Begun, Init
  <1>5. Remembered
    BY <1>1, Values, NewBucketFields, RecentNone DEF Remembered, Init
  <1>6. OneBucket
    BY <1>3 DEF OneBucket, Init
  <1>7. QED
    BY <1>1, <1>3, <1>4, <1>5, <1>6 DEF LimitInv

\* A new bucket, when all that was admitted is a day ago.
LEMMA NewKnowsAll ==
  ASSUME TypeOK, Idle
  PROVE  KnowsAll(NewBucket)
  <1>1. ASSUME NEW length \in Nat, length <= Day, NEW limit \in Nat
        PROVE  Window(admitted, 0, now + length, limit, length)
    BY <1>1, Values, Numbers DEF Window, Idle
  <1>2. QED
    BY <1>1, NewBucketFields, Numbers DEF KnowsAll

LEMMA LookupStep ==
  ASSUME LimitInv, NEW c \in Calls, Lookup(c), (TypeOK /\ Shape)'
  PROVE  LimitInv'
  <1> USE DEF LimitInv
  <1>1. UNCHANGED <<now, admitted, raced>> /\ ref[c] = None
    BY DEF Lookup, Shape, TypeOK
  <1>2. Ordered(admitted, now)' /\ WindowBounds'
    BY <1>1 DEF Ordered, WindowBounds, AtMostIn
  <1>3. CASE inMap # None
    <2>1. /\ UNCHANGED <<inMap, bucket>>
          /\ ref' = [ref EXCEPT ![c] = inMap]
      BY <1>3 DEF Lookup
    <2>2. Begun' /\ Remembered'
      BY <1>1, <2>1 DEF Begun, Remembered, Recent
    <2>3. OneBucket'
      BY <1>1, <1>3, <2>1 DEF OneBucket, KnowsAll, Window, LastSeen, TypeOK
    <2>4. QED
      BY <1>2, <2>2, <2>3
  <1>4. CASE inMap = None
    <2> DEFINE b == CHOOSE x \in Buckets : \A d \in Calls : ref[d] # x
    <2>1. b \in Buckets
      BY <1>1, FreshBucket
    <2>2. /\ bucket' = [bucket EXCEPT ![b] = NewBucket] /\ inMap' = b
          /\ ref' = [ref EXCEPT ![c] = b]
      BY <1>4 DEF Lookup
    <2> HIDE DEF b
    <2>3. /\ bucket'[b] = NewBucket
          /\ \A x \in Buckets : x # b => bucket'[x] = bucket[x]
      BY <2>1, <2>2, Values
    <2>4. Begun'
      <3>1. NewBucket.minuteReset <= now + Minute /\ NewBucket.dayReset <= now + Day
        BY NewBucketFields, Values, Numbers
      <3>2. QED
        BY <1>1, <2>3, <3>1 DEF Begun
    <2>5. Remembered'
      <3>1. /\ Recent(admitted, bucket'[b].minuteCount, bucket'[b].minuteReset - Minute)
            /\ Recent(admitted, bucket'[b].dayCount, bucket'[b].dayReset - Day)
        BY <2>3, NewBucketFields, Values, RecentNone
      <3>2. QED
        BY <1>1, <2>3, <3>1 DEF Remembered
    <2>6. OneBucket'
      <3>0. bucket'[inMap'] = NewBucket' /\ bucket'[inMap'].lastSeen = Never
        BY <1>1, <2>2, <2>3, NewBucketFields DEF NewBucket
      <3> SUFFICES ASSUME ~raced
                   PROVE  /\ \A d \in Calls : ref'[d] \in {None, b}
                          /\ KnowsAll(NewBucket)'
                          /\ ref'[c] = b
        BY <1>1, <2>1, <2>2, <3>0, FeedbackAssumption DEF OneBucket
      <3>1. Idle /\ \A d \in Calls : ref[d] = None
        BY <1>4 DEF OneBucket
      <3>2. KnowsAll(NewBucket)
        BY <3>1, NewKnowsAll
      <3>3. KnowsAll(NewBucket)'
        BY <1>1, <3>2, NewBucketFields DEF KnowsAll, NewBucket
      <3>4. QED
        BY <2>2, <3>1, <3>3 DEF TypeOK
    <2>7. QED
      BY <1>2, <2>4, <2>5, <2>6
  <1>5. QED
    BY <1>3, <1>4

\* One of the two windows of a bucket, through Allow.
LEMMA WindowAllow ==
  ASSUME NEW s \in Seq(Times), NEW t \in Times,
         NEW count \in Nat, NEW reset \in Int,
         NEW limit \in Nat, count <= limit, NEW length \in Nat,
         Recent(s, count, reset - length), reset <= t + length,
         NEW n \in Nat, n = (IF t > reset THEN 0 ELSE count),
         NEW r \in Int, r = (IF t > reset THEN t + length ELSE reset)
  PROVE  /\ r <= t + length /\ t <= r
         /\ Recent(s, n, r - length)
         /\ Recent(Append(s, t), n + 1, r - length)
         /\ Window(s, count, reset, limit, length) =>
              /\ Window(s, n, r, limit, length)
              /\ Window(Append(s, t), n + 1, r, limit, length)
              /\ n < limit /\ Apart(s, 2 * limit, length)
                   => Apart(Append(s, t), 2 * limit, length)
  <1>1. t \in Nat
    BY AppendTime
  <1>2. r <= t + length /\ t <= r /\ r - length <= t
    BY <1>1
  <1>3. Recent(s, n, r - length)
    BY RecentNone
  <1>4. Recent(Append(s, t), n + 1, r - length)
    BY <1>2, <1>3, RecentAppend
  <1>5. ASSUME Window(s, count, reset, limit, length)
        PROVE  Window(s, n, r, limit, length)
    <2>1. CASE t > reset
      BY <1>1, <1>5, <2>1, WindowRenewed
    <2>2. CASE ~(t > reset)
      BY <1>5, <2>2
    <2>3. QED
      BY <2>1, <2>2
  <1>6. QED
    BY <1>2, <1>3, <1>4, <1>5, WindowCounted, ApartAppend

\* What Allow makes of the bucket it has looked up.
LEMMA AllowBucket ==
  ASSUME LimitInv, NEW b \in Buckets
  PROVE  LET d == Renewed(bucket[b])
             e == Counted(d)
             s == Append(admitted, now)
         IN
         /\ d \in BucketType /\ d.lastSeen = now /\ e.lastSeen = now
         /\ d.minuteReset <= now + Minute /\ e.minuteReset <= now + Minute
         /\ d.dayReset <= now + Day /\ e.dayReset <= now + Day
         /\ now <= d.minuteReset /\ now <= d.dayReset
         /\ Recent(admitted, d.minuteCount, d.minuteReset - Minute)
         /\ Recent(admitted, d.dayCount, d.dayReset - Day)
         /\ Recent(s, e.minuteCount, e.minuteReset - Minute)
         /\ Recent(s, e.dayCount, e.dayReset - Day)
         /\ Window(admitted, bucket[b].minuteCount, bucket[b].minuteReset, PerMinute, Minute) =>
              /\ Window(admitted, d.minuteCount, d.minuteReset, PerMinute, Minute)
              /\ Window(s, e.minuteCount, e.minuteReset, PerMinute, Minute)
              /\ d.minuteCount < PerMinute /\ Apart(admitted, 2 * PerMinute, Minute)
                   => Apart(s, 2 * PerMinute, Minute)
         /\ Window(admitted, bucket[b].dayCount, bucket[b].dayReset, PerDay, Day) =>
              /\ Window(admitted, d.dayCount, d.dayReset, PerDay, Day)
              /\ Window(s, e.dayCount, e.dayReset, PerDay, Day)
              /\ d.dayCount < PerDay /\ Apart(admitted, 2 * PerDay, Day)
                   => Apart(s, 2 * PerDay, Day)
  <1> DEFINE o == bucket[b]
             d == Renewed(o)
             e == Counted(d)
  <1> USE DEF LimitInv
  <1>1. o \in BucketType
    BY Values
  <1>2. d \in BucketType
    BY <1>1, RenewedType
  <1>3. /\ d.lastSeen = now
        /\ d.minuteCount = IF now > o.minuteReset THEN 0 ELSE o.minuteCount
        /\ d.minuteReset = IF now > o.minuteReset THEN now + Minute ELSE o.minuteReset
        /\ d.dayCount = IF now > o.dayReset THEN 0 ELSE o.dayCount
        /\ d.dayReset = IF now > o.dayReset THEN now + Day ELSE o.dayReset
    BY <1>1, RenewedFields
  <1>4. /\ e.lastSeen = d.lastSeen
        /\ e.minuteCount = d.minuteCount + 1 /\ e.minuteReset = d.minuteReset
        /\ e.dayCount = d.dayCount + 1 /\ e.dayReset = d.dayReset
    BY <1>2, CountedFields
  <1>5. /\ o.minuteCount \in Nat /\ o.minuteReset \in Nat /\ o.minuteCount <= PerMinute
        /\ o.dayCount \in Nat /\ o.dayReset \in Nat /\ o.dayCount <= PerDay
        /\ d.minuteCount \in Nat /\ d.minuteReset \in Nat
        /\ d.dayCount \in Nat /\ d.dayReset \in Nat
    BY <1>1, <1>2, BucketFields, Numbers
  <1>6. /\ o.minuteReset <= now + Minute /\ o.dayReset <= now + Day
        /\ Recent(admitted, o.minuteCount, o.minuteReset - Minute)
        /\ Recent(admitted, o.dayCount, o.dayReset - Day)
    BY DEF Begun, Remembered
  <1>7. admitted \in Seq(Times) /\ now \in Times
    BY Values
  <1> HIDE DEF o, d, e
  <1>8. /\ d.minuteReset <= now + Minute /\ now <= d.minuteReset
        /\ Recent(admitted, d.minuteCount, d.minuteReset - Minute)
        /\ Recent(Append(admitted, now), d.minuteCount + 1, d.minuteReset - Minute)
        /\ Window(admitted, o.minuteCount, o.minuteReset, PerMinute, Minute) =>
             /\ Window(admitted, d.minuteCount, d.minuteReset, PerMinute, Minute)
             /\ Window(Append(admitted, now), d.minuteCount + 1, d.minuteReset, PerMinute, Minute)
             /\ d.minuteCount < PerMinute /\ Apart(admitted, 2 * PerMinute, Minute)
                  => Apart(Append(admitted, now), 2 * PerMinute, Minute)
    <2>1. /\ PerMinute \in Nat /\ Minute \in Nat /\ o.minuteReset \in Int /\ d.minuteReset \in Int
          /\ d.minuteCount = (IF now > o.minuteReset THEN 0 ELSE o.minuteCount)
          /\ d.minuteReset = (IF now > o.minuteReset THEN now + Minute ELSE o.minuteReset)
      BY <1>3, <1>5, Numbers
    <2>2. QED
      BY <1>5, <1>6, <1>7, <2>1, WindowAllow
  <1>9. /\ d.dayReset <= now + Day /\ now <= d.dayReset
        /\ Recent(admitted, d.dayCount, d.dayReset - Day)
        /\ Recent(Append(admitted, now), d.dayCount + 1, d.dayReset - Day)
        /\ Window(admitted, o.dayCount, o.dayReset, PerDay, Day) =>
             /\ Window(admitted, d.dayCount, d.dayReset, PerDay, Day)
             /\ Window(Append(admitted, now), d.dayCount + 1, d.dayReset, PerDay, Day)
             /\ d.dayCount < PerDay /\ Apart(admitted, 2 * PerDay, Day)
                  => Apart(Append(admitted, now), 2 * PerDay, Day)
    <2>1. /\ PerDay \in Nat /\ Day \in Nat /\ o.dayReset \in Int /\ d.dayReset \in Int
          /\ d.dayCount = (IF now > o.dayReset THEN 0 ELSE o.dayCount)
          /\ d.dayReset = (IF now > o.dayReset THEN now + Day ELSE o.dayReset)
      BY <1>3, <1>5, Numbers
    <2>2. QED
      BY <1>5, <1>6, <1>7, <2>1, WindowAllow
  <1>10. QED
    BY <1>2, <1>3, <1>4, <1>8, <1>9 DEF o, d, e

\* A refused call leaves its bucket renewed, an admitted one counted.
LEMMA AllowStep ==
  ASSUME LimitInv, NEW c \in Calls, Allow(c), (TypeOK /\ Shape)'
  PROVE  LimitInv'
  <1> DEFINE b == ref[c]
             d == Renewed(bucket[b])
             e == Counted(d)
             s == Append(admitted, now)
  <1> USE DEF LimitInv
  <1>1. b \in Buckets
    BY FeedbackAssumption DEF Allow, Shape, TypeOK
  <1>2. /\ UNCHANGED <<now, inMap, raced>> /\ ref' = [ref EXCEPT ![c] = None]
        /\ \/ /\ Full(d) /\ UNCHANGED admitted
              /\ bucket' = [bucket EXCEPT ![b] = d]
           \/ /\ ~Full(d) /\ admitted' = s
              /\ bucket' = [bucket EXCEPT ![b] = e]
    BY DEF Allow
  <1>3. PICK f : /\ bucket' = [bucket EXCEPT ![b] = f]
                 /\ \/ f = d /\ Full(d) /\ UNCHANGED admitted
                    \/ f = e /\ ~Full(d) /\ admitted' = s
    BY <1>2
  <1>4. /\ bucket'[b] = f
        /\ \A x \in Buckets : x # b => bucket'[x] = bucket[x]
    BY <1>1, <1>3, Values
  <1>5. Ordered(admitted, now)'
    BY <1>2, OrderedAppend, Values DEF Ordered
  <1>6. f.lastSeen = now /\ f.minuteReset <= now + Minute /\ f.dayReset <= now + Day
    BY <1>1, <1>3, AllowBucket
  <1>7. Begun'
    BY <1>2, <1>4, <1>6 DEF Begun
  <1>8. Remembered'
    <2>1. /\ Recent(admitted', f.minuteCount, f.minuteReset - Minute)
          /\ Recent(admitted', f.dayCount, f.dayReset - Day)
      BY <1>1, <1>3, AllowBucket
    <2>2. ASSUME NEW x \in Buckets
          PROVE  /\ Recent(admitted', bucket[x].minuteCount, bucket[x].minuteReset - Minute)
                 /\ Recent(admitted', bucket[x].dayCount, bucket[x].dayReset - Day)
      <3>1. /\ Recent(admitted, bucket[x].minuteCount, bucket[x].minuteReset - Minute)
            /\ Recent(admitted, bucket[x].dayCount, bucket[x].dayReset - Day)
        BY DEF Remembered
      <3>2. bucket[x].minuteReset - Minute <= now /\ bucket[x].dayReset - Day <= now
        BY Values, Numbers DEF Begun
      <3>3. bucket[x].minuteReset - Minute \in Int /\ bucket[x].dayReset - Day \in Int
        BY Values, Numbers
      <3>4. /\ Recent(s, bucket[x].minuteCount, bucket[x].minuteReset - Minute)
            /\ Recent(s, bucket[x].dayCount, bucket[x].dayReset - Day)
        BY <3>1, <3>2, <3>3, Values, RecentAppend
      <3>5. QED
        BY <1>2, <3>1, <3>4
    <2>3. QED
      BY <1>4, <2>1, <2>2 DEF Remembered
  <1>9. ASSUME ~raced
        PROVE  /\ inMap = b
               /\ KnowsAll(bucket[b])
               /\ Window(admitted', f.minuteCount, f.minuteReset, PerMinute, Minute)
               /\ Window(admitted', f.dayCount, f.dayReset, PerDay, Day)
               /\ WindowBounds'
    <2>1. inMap = b /\ inMap # None
      BY <1>1, <1>9, FeedbackAssumption DEF OneBucket
    <2>2. KnowsAll(bucket[b])
      BY <1>9, <2>1 DEF OneBucket
    <2>3. /\ Window(admitted', f.minuteCount, f.minuteReset, PerMinute, Minute)
          /\ Window(admitted', f.dayCount, f.dayReset, PerDay, Day)
      BY <1>1, <1>3, <2>2, AllowBucket DEF KnowsAll
    <2>4. /\ Apart(admitted, 2 * PerMinute, Minute) /\ Apart(admitted, 2 * PerDay, Day)
      BY <1>9 DEF WindowBounds, AtMostIn, Apart
    <2>5. /\ Apart(admitted', 2 * PerMinute, Minute) /\ Apart(admitted', 2 * PerDay, Day)
      <3>1. CASE UNCHANGED admitted
        BY <2>4, <3>1
      <3>2. CASE ~Full(d) /\ admitted' = s
        <4>1. d \in BucketType
          BY <1>1, AllowBucket
        <4>2. d.minuteCount < PerMinute /\ d.dayCount < PerDay
          BY <3>2, <4>1, BucketFields, Numbers DEF Full
        <4>3. QED
          BY <1>1, <2>2, <2>4, <3>2, <4>2, AllowBucket DEF KnowsAll
      <3>3. QED
        BY <1>3, <3>1, <3>2
    <2>6. QED
      BY <2>1, <2>2, <2>3, <2>5 DEF WindowBounds, AtMostIn, Apart
  <1>10. WindowBounds'
    BY <1>2, <1>9 DEF WindowBounds
  <1>11. OneBucket'
    <2> SUFFICES ASSUME ~raced
                 PROVE  /\ \A x \in Calls : ref'[x] \in {None, inMap}
                        /\ KnowsAll(f)'
                        /\ f.lastSeen # Never
                        /\ \A i \in 1..Len(admitted') : admitted'[i] <= f.lastSeen
      BY <1>1, <1>2, <1>4, <1>9, FeedbackAssumption DEF OneBucket, LastSeen, KnowsAll
    <2>1. \A x \in Calls : ref'[x] \in {None, inMap}
      BY <1>2 DEF OneBucket, TypeOK
    <2>2. f.lastSeen # Never
      BY <1>6, Values, Numbers
    <2>3. \A i \in 1..Len(admitted') : admitted'[i] <= f.lastSeen
      BY <1>2, <1>5, <1>6 DEF Ordered
    <2>4. QED
      BY <1>9, <2>1, <2>2, <2>3 DEF KnowsAll
  <1>12. QED
    BY <1>5, <1>7, <1>8, <1>10, <1>11

\* The janitor, and time.
LEMMA OtherSteps ==
  ASSUME LimitInv, (TypeOK /\ Shape)',
         \/ \E c \in Calls : MailDone(c) \/ Receive(c) \/ Timeout(c)
         \/ JanitorInspect \/ JanitorDelete \/ Tick \/ UNCHANGED vars
  PROVE  LimitInv'
  <1> USE DEF LimitInv
  <1>1. UNCHANGED <<bucket, admitted, ref>>
    BY DEF MailDone, Receive, Timeout, JanitorInspect, JanitorDelete, Tick, vars, callVars
  <1>2. now' = now \/ now' = now + 1
    BY DEF MailDone, Receive, Timeout, JanitorInspect, JanitorDelete, Tick, vars, callVars
  <1>3. now \in Nat /\ now' \in Nat /\ now <= now'
    BY <1>2, Values
  <1>4. Ordered(admitted, now)' /\ Begun' /\ Remembered'
    <2>1. Ordered(admitted, now)'
      BY <1>1, <1>3, Values DEF Ordered
    <2>2. Begun'
      BY <1>1, <1>3, Values, Numbers DEF Begun
    <2>3. Remembered'
      BY <1>1 DEF Remembered, Recent
    <2>4. QED
      BY <2>1, <2>2, <2>3
  <1>5. CASE UNCHANGED <<inMap, raced>>
    <2>1. WindowBounds'
      BY <1>1, <1>5 DEF WindowBounds, AtMostIn
    <2>2. Idle => Idle'
      BY <1>1, <1>3, Values, Numbers DEF Idle
    <2>3. OneBucket'
      BY <1>1, <1>5, <2>2 DEF OneBucket, KnowsAll, Window, LastSeen, Never
    <2>4. QED
      BY <1>4, <2>1, <2>3
  <1>6. CASE JanitorDelete
    <2>1. /\ inMap' = None /\ inMap \in Buckets
          /\ raced' = (\/ raced
                       \/ bucket[inMap].lastSeen >= now - Day
                       \/ \E c \in Calls : ref[c] = inMap)
          /\ UNCHANGED now
      BY <1>6 DEF JanitorDelete, Shape, TypeOK
    <2>2. WindowBounds'
      BY <1>1, <2>1 DEF WindowBounds, AtMostIn
    <2>3. ASSUME ~raced'
          PROVE  Idle /\ \A c \in Calls : ref[c] = None
      <3>1. /\ ~raced /\ ~(bucket[inMap].lastSeen >= now - Day)
            /\ \A c \in Calls : ref[c] = None
        BY <2>1, <2>3 DEF OneBucket
      <3>2. LastSeen(bucket[inMap])
        BY <2>1, <3>1, FeedbackAssumption DEF OneBucket
      <3>3. bucket[inMap].lastSeen \in Int
        BY <2>1, Values, Numbers DEF BucketType
      <3>4. Idle
        BY <3>1, <3>2, <3>3, Values, Numbers DEF Idle, LastSeen
      <3>5. QED
        BY <3>1, <3>4
    <2>4. OneBucket'
      BY <1>1, <2>1, <2>3 DEF OneBucket, Idle
    <2>5. QED
      BY <1>4, <2>2, <2>4
  <1>7. QED
    BY <1>5, <1>6 DEF MailDone, Receive, Timeout, JanitorInspect, Tick, vars, callVars

LEMMA LimitStep == LimitInv /\ [Next]_vars => LimitInv'
  <1> SUFFICES ASSUME LimitInv, [Next]_vars
               PROVE  LimitInv'
    OBVIOUS
  <1>1. (TypeOK /\ Shape)'
    BY NextTypes DEF LimitInv
  <1>2. QED
    BY <1>1, LookupStep, AllowStep, OtherSteps DEF Next

LEMMA LimitAlways == Spec => []LimitInv
  BY InitLimit, LimitStep, PTL DEF Spec

\* For any limits and windows: no minute admits more than twice its limit, and
\* no day, unless the janitor (ratelimit.go:75) deletes a bucket in use.
THEOREM WindowsBounded == Spec => []WindowBounds
  BY LimitAlways, PTL DEF LimitInv

\* For any limits, and whatever the janitor deletes: who is told to wait has
\* used up the limit of the last minute or of the last day.
THEOREM RefusalsJustified == Spec => RefusedOnlyWhenFull
  <1>1. ASSUME LimitInv, [Next]_vars,
               NEW c \in Calls, reply[c] # "limited", reply'[c] = "limited"
        PROVE  UsedUp(PerMinute, Minute) \/ UsedUp(PerDay, Day)
    <2>1. Allow(c) /\ Full(Renewed(bucket[ref[c]]))
      <3>1. reply \in [Calls -> {"none", "limited", "invalid", "sent", "failed"}]
        BY <1>1 DEF LimitInv, TypeOK
      <3>2. PICK d \in Calls : Lookup(d) \/ Allow(d) \/ Receive(d) \/ Timeout(d)
        BY <1>1 DEF Next, MailDone, JanitorInspect, JanitorDelete, Tick, vars, callVars
      <3>3. /\ d = c
            /\ ~Lookup(d) /\ ~Receive(d) /\ ~Timeout(d)
        BY <1>1, <3>1, <3>2 DEF Lookup, Allow, Receive, Timeout, Tell
      <3>4. QED
        BY <1>1, <3>1, <3>2, <3>3 DEF Allow, Tell
    <2> DEFINE d == Renewed(bucket[ref[c]])
    <2>2. ref[c] \in Buckets
      BY <1>1, <2>1, FeedbackAssumption DEF LimitInv, Allow, Shape, TypeOK
    <2>3. /\ d \in BucketType
          /\ now <= d.minuteReset /\ now <= d.dayReset
          /\ Recent(admitted, d.minuteCount, d.minuteReset - Minute)
          /\ Recent(admitted, d.dayCount, d.dayReset - Day)
      BY <1>1, <2>2, AllowBucket
    <2>4. /\ d.minuteCount >= PerMinute \/ d.dayCount >= PerDay
          /\ d.minuteCount \in Nat /\ d.dayCount \in Nat
          /\ d.minuteReset \in Nat /\ d.dayReset \in Nat
      BY <2>1, <2>3, BucketFields DEF Full
    <2>5. ASSUME NEW limit \in Nat, NEW count \in Nat, limit <= count,
                 NEW length \in Nat, NEW reset \in Nat, now <= reset,
                 Recent(admitted, count, reset - length)
          PROVE  UsedUp(limit, length)
      <3> HIDE DEF d
      <3>1. /\ admitted \in Seq(Times) /\ now \in Int /\ Len(admitted) \in Nat
            /\ \A i \in 1..Len(admitted) : admitted[i] \in Int
        BY <1>1, Values DEF LimitInv
      <3>2. /\ count <= Len(admitted)
            /\ \A i \in 1..Len(admitted) : i > Len(admitted) - count
                                          => admitted[i] >= reset - length
        BY <2>5 DEF Recent
      <3>3. ASSUME NEW i \in 1..Len(admitted), i > Len(admitted) - limit
            PROVE  admitted[i] >= now - length
        <4>1. i > Len(admitted) - count
          BY <2>5, <3>1, <3>3
        <4>2. admitted[i] \in Int /\ admitted[i] >= reset - length
          BY <3>1, <3>2, <4>1
        <4>3. QED
          BY <2>5, <3>1, <4>2
      <3>4. Len(admitted) >= limit
        BY <2>5, <3>1, <3>2
      <3>5. QED
        BY <3>3, <3>4 DEF UsedUp
    <2>6. QED
      BY <2>3, <2>4, <2>5, Numbers
  <1>2. LimitInv /\ [Next]_vars =>
          [(\E c \in Calls : reply[c] # "limited" /\ reply'[c] = "limited") =>
             UsedUp(PerMinute, Minute) \/ UsedUp(PerDay, Day)]_vars
    BY <1>1
  <1>3. QED
    BY <1>2, LimitAlways, PTL DEF Spec, RefusedOnlyWhenFull

\* A call that is under way has not been answered.
Unanswered == \A c \in Calls : pc[c] # "idle" => reply[c] = "none"

\* For any calls: thanks are given only for a mail the server has taken,
\* whichever of its result and the timers comes first.
THEOREM ThanksForDeliveredMail == Spec => []SentIsDelivered
  <1> USE DEF SentIsDelivered, Unanswered
  <1>1. Init => SentIsDelivered /\ Unanswered
    BY DEF Init
  <1>2. TypeOK /\ SentIsDelivered /\ Unanswered /\ [Next]_vars
          => (SentIsDelivered /\ Unanswered)'
    <2> SUFFICES ASSUME TypeOK, SentIsDelivered, Unanswered, [Next]_vars
                 PROVE  (SentIsDelivered /\ Unanswered)'
      OBVIOUS
    <2> USE DEF Tell, Goto, TypeOK
    <2>1. ASSUME NEW c \in Calls, Lookup(c)
          PROVE  (SentIsDelivered /\ Unanswered)'
      <3>1. /\ pc' = [pc EXCEPT ![c] = "allow"]
            /\ reply' = [reply EXCEPT ![c] = "none"]
            /\ mail' = [mail EXCEPT ![c] = "none"]
        BY <2>1 DEF Lookup
      <3>2. QED
        BY <3>1
    <2>2. ASSUME NEW c \in Calls, Allow(c)
          PROVE  (SentIsDelivered /\ Unanswered)'
      <3>1. /\ pc[c] = "allow"
            /\ \/ /\ pc' = [pc EXCEPT ![c] = "idle"] /\ UNCHANGED mail
                  /\ \E v \in {"limited", "invalid"} : reply' = [reply EXCEPT ![c] = v]
               \/ /\ pc' = [pc EXCEPT ![c] = "wait"] /\ UNCHANGED reply
                  /\ mail' = [mail EXCEPT ![c] = "dialing"]
        BY <2>2 DEF Allow
      <3>2. QED
        BY <3>1
    <2>3. ASSUME NEW c \in Calls, MailDone(c) \/ Receive(c) \/ Timeout(c)
          PROVE  (SentIsDelivered /\ Unanswered)'
      <3>1. CASE MailDone(c)
        BY <3>1 DEF MailDone
      <3>2. CASE Receive(c) \/ Timeout(c)
        BY <3>2 DEF Receive, Timeout
      <3>3. QED
        BY <2>3, <3>1, <3>2
    <2>4. CASE JanitorInspect \/ JanitorDelete \/ Tick \/ UNCHANGED vars
      BY <2>4 DEF JanitorInspect, JanitorDelete, Tick, vars, callVars
    <2>5. QED
      BY <2>1, <2>2, <2>3, <2>4 DEF Next
  <1>3. QED
    BY <1>1, <1>2, FeedbackTypeCorrect, PTL DEF Spec
=============================================================================
