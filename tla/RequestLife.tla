---------------------------- MODULE RequestLife -----------------------------
(***************************************************************************)
(* What the dispatcher promises about an asynchronous request, and no      *)
(* more: it is in one call of Execute at a time; a call that ends well     *)
(* leaves it tracked or forgets it; an ACK ends it for good; and a client  *)
(* that disconnects gives back everything tracked for it, to be dispatched *)
(* again request by request.                                               *)
(***************************************************************************)
CONSTANT Reqs

VARIABLE life

Stages == {"new", "held", "tracked", "drained", "over"}

LifeInit == life = [r \in Reqs |-> "new"]

Move(r, from, to) ==
  /\ life[r] = from
  /\ life' = [life EXCEPT ![r] = to]

\* A disconnected client gives back a set of requests at once.
GiveBack ==
  \E S \in SUBSET {r \in Reqs : life[r] = "tracked"} :
    life' = [r \in Reqs |-> IF r \in S THEN "drained" ELSE life[r]]

LifeNext ==
  \/ \E r \in Reqs :
       \/ Move(r, "new", "held")        \* Execute is called
       \/ Move(r, "held", "tracked")    \* sent, and tracked until its ACK
       \/ Move(r, "held", "over")       \* rejected, dropped, or untracked
       \/ Move(r, "tracked", "over")    \* acknowledged
       \/ Move(r, "drained", "held")    \* redispatched
  \/ GiveBack

LifeSpec == LifeInit /\ [][LifeNext]_life
=============================================================================
