------------------------------ MODULE Feedback ------------------------------
(***************************************************************************)
(* POST /api/feedback for one IP: Submit asks the rate limiter, validates, *)
(* and has the mail sent by a goroutine of its own, whose answer it awaits *)
(* no longer than its timeout.  Beside it runs the janitor of the limiter, *)
(* which drops buckets that have been idle for a day.                      *)
(*                                                                         *)
(* Allow looks the bucket up, then counts in it under the bucket's mutex;  *)
(* the janitor inspects it under that mutex, then deletes it from the map. *)
(* Between the two steps of either, the other may run.  The clock is in    *)
(* ticks, with Minute and Day as the lengths of the two windows.           *)
(***************************************************************************)
EXTENDS Integers, FiniteSets, Sequences

CONSTANTS
  Calls,               \* requests from one IP that can be under way at once
  Buckets,             \* bucket objects; one nobody refers to is used again
  PerMinute, PerDay,   \* the limits of the configuration
  Minute, Day,         \* window lengths
  Period,              \* the period of the janitor's ticker
  MaxTime,             \* bound on the clock
  MaxAdmitted,         \* bound on the requests that Allow admits
  None

ASSUME FeedbackAssumption ==
  /\ {PerMinute, PerDay, MaxTime, MaxAdmitted} \subseteq Nat
  /\ {Minute, Day, Period} \subseteq Nat \ {0}
  /\ Minute <= Day
  /\ None \notin Buckets
  /\ IsFiniteSet(Calls) /\ IsFiniteSet(Buckets)
  /\ Cardinality(Buckets) >= Cardinality(Calls)  \* a new one can always be made

VARIABLES
  now,
  inMap,     \* the bucket of the IP in the map, or None
  bucket,    \* the bucket objects
  due,       \* the ticker has fired and the janitor has not yet taken it
  doomed,    \* the janitor has found the bucket idle and is about to delete it
  pc,
  ref,       \* the bucket a call has looked up
  mail,      \* the mail of a call; "ok" and "err" are in its channel
  reply,     \* what the caller was told
  \* for the properties
  admitted,  \* when Allow has admitted a call, one time for each
  raced      \* the janitor deleted a bucket that was in use again

callVars == <<pc, ref, mail, reply, admitted>>
vars == <<now, inMap, bucket, due, doomed, raced, callVars>>

\* The zero time.Time is before every cutoff.
Never == -(Day + 1)

NewBucket == [minuteCount |-> 0, minuteReset |-> now + Minute,
              dayCount |-> 0, dayReset |-> now + Day, lastSeen |-> Never]

TypeOK ==
  /\ now \in 0..MaxTime
  /\ inMap \in Buckets \cup {None}
  /\ bucket \in [Buckets -> [minuteCount : 0..PerMinute, minuteReset : 0..(MaxTime + Minute),
                             dayCount : 0..PerDay, dayReset : 0..(MaxTime + Day),
                             lastSeen : 0..MaxTime \cup {Never}]]
  /\ {due, doomed, raced} \subseteq BOOLEAN
  /\ pc \in [Calls -> {"idle", "allow", "wait"}]
  /\ ref \in [Calls -> Buckets \cup {None}]
  /\ mail \in [Calls -> {"none", "dialing", "ok", "err"}]
  /\ reply \in [Calls -> {"none", "limited", "invalid", "sent", "failed"}]
  /\ admitted \in Seq(0..MaxTime)

Init ==
  /\ now = 0
  /\ inMap = None /\ due = FALSE /\ doomed = FALSE /\ raced = FALSE
  /\ bucket = [b \in Buckets |-> NewBucket]
  /\ pc = [c \in Calls |-> "idle"]
  /\ ref = [c \in Calls |-> None]
  /\ mail = [c \in Calls |-> "none"]
  /\ reply = [c \in Calls |-> "none"]
  /\ admitted = <<>>
-----------------------------------------------------------------------------
Goto(c, l) == pc' = [pc EXCEPT ![c] = l]

Tell(c, r) == reply' = [reply EXCEPT ![c] = r] /\ Goto(c, "idle")

(* Allow.                                                                  *)

\* A new request takes the place of one that is over.  LoadOrStore.
Lookup(c) ==
  /\ pc[c] = "idle" /\ mail[c] # "dialing"
  /\ Len(admitted) < MaxAdmitted
  /\ IF inMap # None
       THEN ref' = [ref EXCEPT ![c] = inMap] /\ UNCHANGED <<inMap, bucket>>
       ELSE LET b == CHOOSE x \in Buckets : \A d \in Calls : ref[d] # x
            IN /\ inMap' = b
               /\ bucket' = [bucket EXCEPT ![b] = NewBucket]
               /\ ref' = [ref EXCEPT ![c] = b]
  /\ mail' = [mail EXCEPT ![c] = "none"]
  /\ reply' = [reply EXCEPT ![c] = "none"]
  /\ Goto(c, "allow")
  /\ UNCHANGED <<now, due, doomed, raced, admitted>>

\* The bucket with the windows renewed that are over.
FaultyRenewed(b) ==
  [b EXCEPT !.lastSeen = now,
            !.minuteCount = IF now > b.minuteReset THEN 0 ELSE @,
            !.minuteReset = IF now > b.minuteReset THEN now + Minute ELSE @,
            !.dayCount = IF now > b.minuteReset THEN 0 ELSE @,
            !.dayReset = IF now > b.dayReset THEN now + Day ELSE @]

FaultyRenewedKeeps(b) ==
  [b EXCEPT !.lastSeen = now,
            !.minuteReset = IF now > b.minuteReset THEN now + Minute ELSE @,
            !.dayCount = IF now > b.dayReset THEN 0 ELSE @,
            !.dayReset = IF now > b.dayReset THEN now + Day ELSE @]

Renewed(b) ==
  [b EXCEPT !.lastSeen = now,
            !.minuteCount = IF now > b.minuteReset THEN 0 ELSE @,
            !.minuteReset = IF now > b.minuteReset THEN now + Minute ELSE @,
            !.dayCount = IF now > b.dayReset THEN 0 ELSE @,
            !.dayReset = IF now > b.dayReset THEN now + Day ELSE @]

Counted(b) == [b EXCEPT !.minuteCount = @ + 1, !.dayCount = @ + 1]

Full(b) == b.minuteCount >= PerMinute \/ b.dayCount >= PerDay

\* The verdict of Allow, and what Submit does with it before it waits: a
\* feedback that does not validate is refused after it was counted, any other
\* is handed to a goroutine that dials the mail server.
Allow(c) ==
  LET b == Renewed(bucket[ref[c]]) IN
  /\ pc[c] = "allow"
  /\ \/ /\ Full(b)
        /\ bucket' = [bucket EXCEPT ![ref[c]] = b]
        /\ Tell(c, "limited")
        /\ UNCHANGED <<mail, admitted>>
     \/ /\ ~Full(b)
        /\ bucket' = [bucket EXCEPT ![ref[c]] = Counted(b)]
        /\ admitted' = Append(admitted, now)
        /\ \/ Tell(c, "invalid") /\ UNCHANGED mail
           \/ /\ mail' = [mail EXCEPT ![c] = "dialing"]
              /\ Goto(c, "wait") /\ UNCHANGED reply
  /\ ref' = [ref EXCEPT ![c] = None]
  /\ UNCHANGED <<now, inMap, due, doomed, raced>>
-----------------------------------------------------------------------------
(* SMTPMailer.Send.  The channel has room for the one result, so that the  *)
(* goroutine ends whether or not anybody still waits.                      *)

MailDone(c) ==
  /\ mail[c] = "dialing"
  /\ \E r \in {"ok", "err"} : mail' = [mail EXCEPT ![c] = r]
  /\ UNCHANGED <<now, inMap, bucket, due, doomed, raced, pc, ref, reply, admitted>>

Receive(c) ==
  /\ pc[c] = "wait" /\ mail[c] \in {"ok", "err"}
  /\ Tell(c, IF mail[c] = "ok" THEN "sent" ELSE "failed")
  /\ UNCHANGED <<now, inMap, bucket, due, doomed, raced, ref, mail, admitted>>

FaultyTimeout(c) ==
  /\ pc[c] = "wait"
  /\ Tell(c, IF mail[c] = "err" THEN "failed" ELSE "sent")
  /\ UNCHANGED <<now, inMap, bucket, due, doomed, raced, ref, mail, admitted>>

\* The context of Submit or of the request ends, or the mailer's own timer
\* fires; the mail goes its way.
Timeout(c) ==
  /\ pc[c] = "wait"
  /\ Tell(c, "failed")
  /\ UNCHANGED <<now, inMap, bucket, due, doomed, raced, ref, mail, admitted>>
-----------------------------------------------------------------------------
(* The janitor.                                                            *)

\* One round over the map.
JanitorInspect ==
  /\ due /\ ~doomed
  /\ due' = FALSE
  /\ doomed' = (inMap # None /\ bucket[inMap].lastSeen < now - Day)
  /\ UNCHANGED <<now, inMap, bucket, raced, callVars>>

JanitorDelete ==
  /\ doomed
  /\ inMap' = None /\ doomed' = FALSE
  /\ raced' = (\/ raced
               \/ bucket[inMap].lastSeen >= now - Day
               \/ \E c \in Calls : ref[c] = inMap)
  /\ UNCHANGED <<now, bucket, due, callVars>>

Tick ==
  /\ now < MaxTime /\ now' = now + 1
  /\ due' = (due \/ now' % Period = 0)
  /\ UNCHANGED <<inMap, bucket, doomed, raced, callVars>>

Next ==
  \/ \E c \in Calls : Lookup(c) \/ Allow(c) \/ MailDone(c) \/ Receive(c) \/ Timeout(c)
  \/ JanitorInspect \/ JanitorDelete \/ Tick

Spec == Init /\ [][Next]_vars
-----------------------------------------------------------------------------
\* The windows are fixed, not sliding, and start with the first call after
\* the last one ended.  Still no interval of the length of a minute, or of a
\* day, admits more than twice its limit (of so many calls in a row and one
\* more, the last comes later), across the end of a window, the renewal of the
\* other one and the deletion of an idle bucket, unless the janitor deletes a
\* bucket that a call has looked up or used since (ratelimit.go:75).
AtMostIn(limit, length) ==
  \A i \in 1..(Len(admitted) - limit) : admitted[i + limit] > admitted[i] + length

WindowBounds ==
  ~raced => AtMostIn(2 * PerMinute, Minute) /\ AtMostIn(2 * PerDay, Day)

\* Nobody is refused for calls that are no longer in a window: a caller told
\* to wait really has used up the limit of the last minute or the last day,
\* also when the janitor has made the limiter forget a bucket.
UsedUp(limit, length) ==
  /\ Len(admitted) >= limit
  /\ \A i \in 1..Len(admitted) : i > Len(admitted) - limit => admitted[i] >= now - length

RefusedOnlyWhenFull ==
  [][(\E c \in Calls : reply[c] # "limited" /\ reply'[c] = "limited") =>
       UsedUp(PerMinute, Minute) \/ UsedUp(PerDay, Day)]_vars

\* Thanks are given only for a mail the server has taken, whichever of the
\* result, the two timers and the caller's disconnect wins the select.
SentIsDelivered ==
  \A c \in Calls : reply[c] = "sent" => mail[c] = "ok"
=============================================================================
