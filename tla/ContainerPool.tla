--------------------------- MODULE ContainerPool ----------------------------
(***************************************************************************)
(* The worker's container pool (containerBasic): Acquire, Release, Close   *)
(* and the replenish goroutines of ContainerPool, driven by RunCode with  *)
(* its deferred release, against a Docker daemon that may fail.            *)
(*                                                                         *)
(* A pool's buffered channel is the set of its idle slots: nothing here    *)
(* depends on the order in which slots are reused.  A request for a        *)
(* language without a pool returns before it touches any state and is left *)
(* out, and so is the working directory of a call: its name is a fresh     *)
(* uuid, and no other call looks into it.  Faulty... definitions are       *)
(* mistakes that the properties would notice.                              *)
(***************************************************************************)
EXTENDS Integers, FiniteSets

CONSTANTS
  Langs,       \* the languages with a pool (keys of ContainerPool.pools)
  Slots,       \* all container slots
  LangOf,      \* the pool that newContainerPool puts each slot in
  Runners,     \* goroutines that call RunCode
  MaxRestart,  \* maxRetries of replenish
  NoSlot, NoLang

ASSUME PoolAssumption ==
  /\ LangOf \in [Slots -> Langs]
  /\ IsFiniteSet(Slots)
  /\ NoSlot \notin Slots
  /\ NoLang \notin Langs
  /\ MaxRestart \in Nat \ {0}

VARIABLES
  idle,      \* the slots buffered in the channel of each pool
  closed,    \* ContainerPool.closed
  open,      \* the pools whose channel is not closed
  pc, lang, slot, healthy,   \* the calls of RunCode
  rep,       \* the replenish goroutine of a slot
  attempt,   \* failed restarts of a slot in the current replenish
  gone,      \* slots dropped: the pool was closed, or every restart failed
  overdue,   \* slots where a task may still run that ran into its deadline
  unstopped  \* slots replenished although every ContainerStop failed

poolVars == <<idle, closed, open>>
runVars == <<pc, lang, slot, healthy>>
repVars == <<rep, attempt>>
taskVars == <<overdue, unstopped>>
vars == <<poolVars, runVars, repVars, gone, taskVars>>

\* The slots of a pool; its channel's capacity is their number.
SlotsOf(l) == {s \in Slots : LangOf[s] = l}

TypeOK ==
  /\ idle \in [Langs -> SUBSET Slots]
  /\ closed \in BOOLEAN
  /\ open \subseteq Langs
  /\ pc \in [Runners -> {"idle", "wait", "file", "exec", "release", "put"}]
  /\ lang \in [Runners -> Langs \cup {NoLang}]
  /\ slot \in [Runners -> Slots \cup {NoSlot}]
  /\ healthy \in [Runners -> BOOLEAN]
  /\ rep \in [Slots -> {"none", "restart", "put"}]
  /\ attempt \in [Slots -> 0..MaxRestart]
  /\ gone \subseteq Slots
  /\ overdue \subseteq Slots /\ unstopped \subseteq Slots

\* newContainerPool fills every channel; NewDockerClient then starts the
\* containers, and only logs those that it cannot find or start.
Init ==
  /\ idle = [l \in Langs |-> SlotsOf(l)]
  /\ closed = FALSE
  /\ open = Langs
  /\ pc = [w \in Runners |-> "idle"]
  /\ lang = [w \in Runners |-> NoLang]
  /\ slot = [w \in Runners |-> NoSlot]
  /\ healthy = [w \in Runners |-> TRUE]
  /\ rep = [s \in Slots |-> "none"]
  /\ attempt = [s \in Slots |-> 0]
  /\ gone = {}
  /\ overdue = {} /\ unstopped = {}
-----------------------------------------------------------------------------
(* RunCode.                                                                *)

Finish(w) ==
  /\ pc' = [pc EXCEPT ![w] = "idle"]
  /\ lang' = [lang EXCEPT ![w] = NoLang]
  /\ slot' = [slot EXCEPT ![w] = NoSlot]
  /\ healthy' = [healthy EXCEPT ![w] = TRUE]

\* RunCode up to the select of Acquire; a closed pool refuses at once.
Enter(w, l) ==
  /\ pc[w] = "idle"
  /\ ~closed
  /\ pc' = [pc EXCEPT ![w] = "wait"]
  /\ lang' = [lang EXCEPT ![w] = l]
  /\ UNCHANGED <<poolVars, slot, healthy, repVars, gone, taskVars>>

FaultyTakeLeaves(w) ==
  /\ pc[w] = "wait"
  /\ \E s \in idle[lang[w]] : slot' = [slot EXCEPT ![w] = s]
  /\ pc' = [pc EXCEPT ![w] = "file"]
  /\ UNCHANGED <<poolVars, lang, healthy, repVars, gone, taskVars>>

\* The select receives a slot.  A closed channel still hands out the slots
\* that are in its buffer.
Take(w) ==
  /\ pc[w] = "wait"
  /\ \E s \in idle[lang[w]] :
       /\ slot' = [slot EXCEPT ![w] = s]
       /\ idle' = [idle EXCEPT ![lang[w]] = @ \ {s}]
  /\ pc' = [pc EXCEPT ![w] = "file"]
  /\ UNCHANGED <<closed, open, lang, healthy, repVars, gone, taskVars>>

FaultyRefused(w) ==
  /\ pc[w] = "wait"
  /\ lang[w] \notin open /\ idle[lang[w]] = {}
  /\ Finish(w)
  /\ UNCHANGED <<poolVars, repVars, gone, taskVars>>

\* The channel is closed and drained, or the five seconds are over (which
\* the select may prefer to a slot that arrives at the same time).
Refused(w) ==
  /\ pc[w] = "wait"
  /\ Finish(w)
  /\ UNCHANGED <<poolVars, repVars, gone, taskVars>>

\* createFile fails, or the code runs.
CreateFile(w) ==
  /\ pc[w] = "file"
  /\ pc' \in {[pc EXCEPT ![w] = "exec"], [pc EXCEPT ![w] = "release"]}
  /\ UNCHANGED <<poolVars, lang, slot, healthy, repVars, gone, taskVars>>

\* InContainerRunCode.  Only the deadline makes the slot unhealthy: with a
\* result, or any other error, the container goes straight back.
Exec(w) ==
  /\ pc[w] = "exec"
  /\ pc' = [pc EXCEPT ![w] = "release"]
  /\ \/ UNCHANGED <<healthy, taskVars>>
     \/ /\ healthy' = [healthy EXCEPT ![w] = FALSE]
        /\ overdue' = overdue \cup {slot[w]}
        /\ unstopped' = unstopped \ {slot[w]}
  /\ UNCHANGED <<poolVars, lang, slot, repVars, gone>>

FaultyReleaseUnhealthy(w) ==
  /\ pc[w] = "release"
  /\ \/ /\ closed
        /\ gone' = gone \cup {slot[w]}
        /\ Finish(w)
     \/ /\ ~closed
        /\ pc' = [pc EXCEPT ![w] = "put"]
        /\ UNCHANGED <<lang, slot, healthy, gone>>
  /\ UNCHANGED <<poolVars, repVars, taskVars>>

FaultyReleaseBoth(w) ==
  /\ pc[w] = "release"
  /\ ~closed
  /\ pc' = [pc EXCEPT ![w] = "put"]
  /\ rep' = IF healthy[w] THEN rep ELSE [rep EXCEPT ![slot[w]] = "restart"]
  /\ UNCHANGED <<poolVars, lang, slot, healthy, attempt, gone, taskVars>>

FaultyReleaseDrops(w) ==
  /\ pc[w] = "release"
  /\ \/ /\ closed \/ ~healthy[w]
        /\ gone' = gone \cup {slot[w]}
        /\ Finish(w)
     \/ /\ ~closed /\ healthy[w]
        /\ pc' = [pc EXCEPT ![w] = "put"]
        /\ UNCHANGED <<lang, slot, healthy, gone>>
  /\ UNCHANGED <<poolVars, repVars, taskVars>>

\* Release: its test of closed, and what follows when it must not send.
Release(w) ==
  /\ pc[w] = "release"
  /\ \/ /\ closed
        /\ gone' = gone \cup {slot[w]}
        /\ Finish(w)
        /\ UNCHANGED repVars
     \/ /\ ~closed /\ healthy[w]
        /\ pc' = [pc EXCEPT ![w] = "put"]
        /\ UNCHANGED <<lang, slot, healthy, repVars, gone>>
     \/ /\ ~closed /\ ~healthy[w]
        /\ rep' = [rep EXCEPT ![slot[w]] = "restart"]
        /\ attempt' = [attempt EXCEPT ![slot[w]] = 0]
        /\ Finish(w)
        /\ UNCHANGED gone
  /\ UNCHANGED <<poolVars, taskVars>>

\* idle <- s on the channel of pool l: it waits for room, and on a channel
\* that Close has closed it panics into recover and the slot is dropped.
Put(l, s) ==
  \/ /\ l \in open
     /\ Cardinality(idle[l]) < Cardinality(SlotsOf(l))
     /\ idle' = [idle EXCEPT ![l] = @ \cup {s}]
     /\ UNCHANGED gone
  \/ /\ l \notin open
     /\ gone' = gone \cup {s}
     /\ UNCHANGED idle

ReleasePut(w) ==
  /\ pc[w] = "put"
  /\ Put(lang[w], slot[w])
  /\ Finish(w)
  /\ UNCHANGED <<closed, open, repVars, taskVars>>
-----------------------------------------------------------------------------
(* replenish(s).                                                           *)

FaultyRestartFail(s) ==
  /\ rep[s] = "restart"
  /\ attempt' = [attempt EXCEPT ![s] = (@ + 1) % MaxRestart]
  /\ UNCHANGED <<poolVars, runVars, rep, gone, taskVars>>

\* ContainerStop, whose error is ignored: it ends what runs in the container,
\* or the container runs on.
Stop(s) == overdue' \in {overdue \ {s}, overdue}

\* The stop, and a ContainerStart that fails.
RestartFail(s) ==
  /\ rep[s] = "restart"
  /\ Stop(s)
  /\ attempt' = [attempt EXCEPT ![s] = @ + 1]
  /\ \/ /\ attempt[s] + 1 < MaxRestart
        /\ UNCHANGED <<rep, gone>>
     \/ /\ attempt[s] + 1 = MaxRestart
        /\ rep' = [rep EXCEPT ![s] = "none"]
        /\ gone' = gone \cup {s}
  /\ UNCHANGED <<poolVars, runVars, unstopped>>

\* ContainerStart succeeds, also on a container that no stop has stopped,
\* where it does nothing.
RestartOK(s) ==
  /\ rep[s] = "restart"
  /\ Stop(s)
  /\ unstopped' = IF s \in overdue' THEN unstopped \cup {s} ELSE unstopped \ {s}
  /\ attempt' = [attempt EXCEPT ![s] = 0]
  /\ \/ /\ closed
        /\ rep' = [rep EXCEPT ![s] = "none"]
        /\ gone' = gone \cup {s}
     \/ /\ ~closed
        /\ rep' = [rep EXCEPT ![s] = "put"]
        /\ UNCHANGED gone
  /\ UNCHANGED <<poolVars, runVars>>

ReplenishPut(s) ==
  /\ rep[s] = "put"
  /\ Put(LangOf[s], s)
  /\ rep' = [rep EXCEPT ![s] = "none"]
  /\ UNCHANGED <<closed, open, runVars, attempt, taskVars>>
-----------------------------------------------------------------------------
(* Close, on SIGTERM: the flag first, then one channel after the other.    *)

CloseFlag ==
  /\ ~closed
  /\ closed' = TRUE
  /\ UNCHANGED <<idle, open, runVars, repVars, gone, taskVars>>

CloseChan(l) ==
  /\ closed
  /\ l \in open
  /\ open' = open \ {l}
  /\ UNCHANGED <<idle, closed, runVars, repVars, gone, taskVars>>
-----------------------------------------------------------------------------
RunStep(w) ==
  \/ Take(w) \/ Refused(w) \/ CreateFile(w) \/ Exec(w)
  \/ Release(w) \/ ReleasePut(w)

Replenish(s) == RestartFail(s) \/ RestartOK(s) \/ ReplenishPut(s)

Next ==
  \/ \E w \in Runners : RunStep(w) \/ \E l \in Langs : Enter(w, l)
  \/ \E s \in Slots : Replenish(s)
  \/ CloseFlag
  \/ \E l \in Langs : CloseChan(l)

Spec == Init /\ [][Next]_vars

\* Goroutines run; Acquire and the execution carry deadlines and the Docker
\* calls of replenish return.  Nobody has to call RunCode or Close.
Fairness ==
  /\ \A w \in Runners : WF_vars(RunStep(w))
  /\ \A s \in Slots : WF_vars(Replenish(s))

FairSpec == Spec /\ Fairness
-----------------------------------------------------------------------------
\* Where a slot is: in a channel, with a call of RunCode, with a replenish
\* goroutine, or dropped.
Places(s) ==
  {<<"idle", l>> : l \in {m \in Langs : s \in idle[m]}}
    \cup {<<"run", w>> : w \in {v \in Runners : slot[v] = s}}
    \cup {<<"rep", s>> : x \in {y \in {s} : rep[y] # "none"}}
    \cup {<<"gone", s>> : x \in {s} \cap gone}

\* A slot is in exactly one place, and in no pool but its own: however
\* timeouts, restarts and Close interleave, no container is handed to two
\* calls and none leaks.
SlotConserved ==
  /\ \A s \in Slots : \E x \in Places(s) : Places(s) = {x}
  /\ \A l \in Langs : idle[l] \subseteq SlotsOf(l)

\* A goroutine that is about to give a slot back always finds room in the
\* channel: neither Release nor replenish can block on the send.
PutNeverBlocks ==
  /\ \A w \in Runners : pc[w] = "put" =>
       Cardinality(idle[lang[w]]) < Cardinality(SlotsOf(lang[w]))
  /\ \A s \in Slots : rep[s] = "put" =>
       Cardinality(idle[LangOf[s]]) < Cardinality(SlotsOf(LangOf[s]))

\* An open pool shrinks only by a slot whose container failed to restart
\* MaxRestart times in a row.
ShrinksOnlyByRestarts ==
  \A s \in gone : closed \/ attempt[s] = MaxRestart

\* A container whose task was cut off at the deadline serves no other call
\* while that task may still run: it is not in a pool, and the only call that
\* may hold it is the one that is about to give it up.  The exception is what
\* replenish does when every ContainerStop failed: its error is ignored, and
\* the ContainerStart that follows succeeds on the running container.
OverdueRestarted ==
  \A s \in overdue \ unstopped :
    /\ \A l \in Langs : s \notin idle[l]
    /\ \A w \in Runners : slot[w] = s => pc[w] = "release"

\* Every call of RunCode returns, and every slot given up as unhealthy is
\* back in its pool or dropped in the end.
RunCodeReturns ==
  \A w \in Runners : pc[w] # "idle" ~> pc[w] = "idle"
ReplenishEnds ==
  \A s \in Slots : rep[s] # "none" ~> rep[s] = "none"

=============================================================================
