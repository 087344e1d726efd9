---------------------------- MODULE AgentSession ----------------------------
(***************************************************************************)
(* One session of the code-learning agent: the handlers of /agent/chat,    *)
(* /agent/confirm and /agent/cancel over what they share, which is the     *)
(* session's entry in SessionStore and in the maps InterruptIDs, Proposals *)
(* and Cancels, and the checkpoint of the agent runner.  The handlers run  *)
(* concurrently, and one access to shared state is one step.               *)
(*                                                                         *)
(* A proposal and the interrupt that announces it have the same name here. *)
(* The runner (a library) is reduced to what the handlers see of it: a run *)
(* ends, or it interrupts with a fresh proposal after it has saved a       *)
(* checkpoint.  The history is the set of the handlers that have appended  *)
(* their turn to it.  A chat or confirmation by a visitor who does not own *)
(* the session is answered before it changes anything and is left out, and *)
(* so are the failures of the store's file operations, except the one that *)
(* keeps a session from being created.                                     *)
(***************************************************************************)
EXTENDS Integers, FiniteSets

CONSTANTS
  Chats, Confirms, Cancellers,   \* requests to the three handlers
  Props,         \* proposals, and their interrupt ids
  Articles,      \* articles a chat may bring along
  Strangers,     \* the cancellers that do not own the session
  None

Streams == Chats \cup Confirms
Handlers == Streams \cup Cancellers

ASSUME AgentAssumption ==
  /\ Chats \cap Confirms = {} /\ Streams \cap Cancellers = {}
  /\ None \notin Handlers \cup Props \cup Articles
  /\ Strangers \subseteq Cancellers
  /\ IsFiniteSet(Confirms)

VARIABLES
  live,        \* GetMeta finds the session: "none", "live" or "expired"
  article,     \* SessionMeta.ArticleID
  file,        \* the JSONL file exists
  history,     \* the handlers whose turn is in it
  doomed,      \* cleanExpired has seen the session expired
  interrupt,   \* InterruptIDs
  proposal,    \* Proposals
  cancel,      \* Cancels: the stream whose context it cancels
  ckpt,        \* the interrupt the runner's checkpoint belongs to
  pc,
  arg,         \* the proposal id of a confirmation
  held,        \* interrupt id loaded or made, or cancel function taken
  about,       \* the article of a stream: its request's, or else the session's
  \* for the properties
  used,        \* proposals made
  approved,    \* proposals somebody asked to run
  executions,  \* times each proposal was executed
  cleared,     \* proposals that a run of them has taken out of the maps
  restored,    \* proposals that the resume of another one has put back
  late,        \* confirmations that came when their proposal had been cleared
  mixed,       \* two pairs of writes to InterruptIDs and Proposals overlapped
  blurred,     \* confirmations that read such a pair, or between two writes
  misled,      \* confirmations whose result was given to another interrupt
  cancelled,   \* streams whose context was cancelled
  shared,      \* streams that had Cancels together with another one
  strays       \* streams under way when the session was deleted or created

storeVars == <<live, article, file, history, doomed>>
mapVars == <<interrupt, proposal, cancel, ckpt>>
localVars == <<arg, held, about>>
gateVars == <<used, approved, executions, cleared, restored, late>>
pairVars == <<mixed, blurred, misled>>
runVars == <<cancelled, shared>>
logVars == <<gateVars, pairVars, runVars, strays>>
vars == <<storeVars, mapVars, pc, localVars, logVars>>

TypeOK ==
  /\ live \in {"none", "live", "expired"}
  /\ article \in Articles \cup {None}
  /\ file \in BOOLEAN /\ doomed \in BOOLEAN
  /\ history \subseteq Streams
  /\ interrupt \in Props \cup {None} /\ proposal \in Props \cup {None}
  /\ ckpt \in Props \cup {None}
  /\ cancel \in Streams \cup {None}
  /\ pc \in [Handlers -> {"new", "create", "reset", "load", "start", "run",
       "storeI", "storeP", "append", "loadI", "loadP", "exec", "clearI",
       "clearP", "resume", "check", "leave", "done"}]
  /\ arg \in [Confirms -> Props \cup {None}]
  /\ held \in [Handlers -> Props \cup Streams \cup {None}]
  /\ about \in [Streams -> Articles \cup {None}]
  /\ used \subseteq Props /\ approved \subseteq Props
  /\ cleared \subseteq Props /\ restored \subseteq Props
  /\ late \subseteq Confirms /\ blurred \subseteq Confirms /\ misled \subseteq Confirms
  /\ executions \in [Props -> 0..Cardinality(Confirms)]
  /\ mixed \in BOOLEAN
  /\ cancelled \subseteq Streams /\ shared \subseteq Streams /\ strays \subseteq Streams

Init ==
  /\ live = "none" /\ article = None /\ file = FALSE /\ history = {} /\ doomed = FALSE
  /\ interrupt = None /\ proposal = None /\ cancel = None /\ ckpt = None
  /\ pc = [h \in Handlers |-> "new"]
  /\ arg = [h \in Confirms |-> None]
  /\ held = [h \in Handlers |-> None]
  /\ about = [h \in Streams |-> None]
  /\ used = {} /\ approved = {} /\ executions = [p \in Props |-> 0]
  /\ cleared = {} /\ restored = {} /\ late = {}
  /\ mixed = FALSE /\ blurred = {} /\ misled = {}
  /\ cancelled = {} /\ shared = {} /\ strays = {}
-----------------------------------------------------------------------------
Goto(h, l) == pc' = [pc EXCEPT ![h] = l]

(* SessionStore.                                                           *)

FaultyCreateWithArticle(a) ==
  /\ live' = "live" /\ article' = a
  /\ file' = TRUE
  /\ UNCHANGED <<history, doomed>>

CreateWithArticle(a) ==
  /\ live' = "live" /\ article' = a
  /\ file' = TRUE /\ history' = {}
  /\ UNCHANGED doomed

DeleteSession ==
  /\ live' = "none" /\ article' = None
  /\ file' = FALSE /\ history' = {}

\* Append creates the file when it is gone, and revives a session that has
\* expired and has not been cleaned up yet.
Append(h) ==
  /\ history' = history \cup {h}
  /\ file' = TRUE
  /\ live' = IF live = "expired" THEN "live" ELSE live
  /\ UNCHANGED <<article, doomed>>

\* Whoever works for the session as it was, while it becomes another one.
Strays == strays' = strays \cup {g \in Streams : pc[g] \notin {"new", "create", "reset", "done"}}
-----------------------------------------------------------------------------
(* ChatHandler.                                                            *)

\* GetMeta decides on the mode; a is the article of the request, or None.
ChatOpen(h, a) ==
  /\ pc[h] = "new"
  /\ Goto(h, IF live = "live" THEN IF a \in {None, article} THEN "load" ELSE "reset"
             ELSE IF a # None THEN "create" ELSE "done")
  /\ about' = [about EXCEPT ![h] = IF live = "live" /\ a = None THEN article ELSE a]
  /\ UNCHANGED <<storeVars, mapVars, arg, held, logVars>>

\* Another article: Delete, then CreateWithArticle.
ChatReset(h) ==
  /\ pc[h] = "reset"
  /\ DeleteSession /\ Strays
  /\ Goto(h, "create")
  /\ UNCHANGED <<doomed, mapVars, localVars, gateVars, pairVars, runVars>>

ChatCreate(h) ==
  /\ pc[h] = "create"
  /\ CreateWithArticle(about[h]) /\ Strays
  /\ Goto(h, "load")
  /\ UNCHANGED <<mapVars, localVars, gateVars, pairVars, runVars>>

\* The files of the session cannot be written.  When it was only the second one,
\* GetMeta finds the new meta, and the messages are those that were there.
ChatCreateFails(h) ==
  /\ pc[h] = "create"
  /\ Goto(h, "done")
  /\ \/ UNCHANGED <<live, article, strays>>
     \/ /\ live' = "live" /\ article' = about[h]
        /\ strays' = strays \cup history
                       \cup {g \in Streams : pc[g] \notin {"new", "create", "reset", "done"}}
  /\ UNCHANGED <<file, history, doomed, mapVars, localVars, gateVars, pairVars, runVars>>

\* GetMessages fails when the file is gone.
ChatLoad(h) ==
  /\ pc[h] = "load"
  /\ Goto(h, IF file THEN "start" ELSE "done")
  /\ UNCHANGED <<storeVars, mapVars, localVars, logVars>>

\* From Cancels.Store to the deferred Cancels.Delete.
InFlight(h) == pc[h] \in {"clearI", "clearP", "resume", "run", "storeI", "storeP",
                          "append", "leave"}

\* h comes to Cancels while others are there.
Share(h) ==
  LET others == {g \in Streams \ {h} : InFlight(g)}
  IN shared' = IF others = {} THEN shared ELSE shared \cup others \cup {h}

FaultyChatStart(h) ==
  /\ pc[h] = "start"
  /\ Share(h)
  /\ Goto(h, "run")
  /\ UNCHANGED <<storeVars, mapVars, localVars, gateVars, pairVars, cancelled, strays>>

\* Cancels.Store, and Runner.Run begins.
ChatStart(h) ==
  /\ pc[h] = "start"
  /\ cancel' = h
  /\ Share(h)
  /\ Goto(h, "run")
  /\ UNCHANGED <<storeVars, interrupt, proposal, ckpt, localVars, gateVars, pairVars,
                 cancelled, strays>>
-----------------------------------------------------------------------------
(* A run of the agent, in ChatHandler or after ConfirmHandler's resume.    *)

\* propose_execution interrupts; the runner saves its checkpoint.
RunInterrupts(h, p) ==
  /\ pc[h] = "run"
  /\ p \notin used
  /\ used' = used \cup {p}
  /\ ckpt' = p
  /\ held' = [held EXCEPT ![h] = p]
  /\ Goto(h, "storeI")
  /\ UNCHANGED <<storeVars, interrupt, proposal, cancel, arg, about, approved, executions,
                 cleared, restored, late, pairVars, runVars, strays>>

\* Somebody has written to InterruptIDs, and will write to Proposals.
Writing(h) == pc[h] \in {"storeP", "clearP"}

\* h writes the first of the pair.
BeginPair(h) ==
  /\ mixed' = \E g \in Streams \ {h} : Writing(g)
  /\ blurred' = blurred \cup {g \in Confirms : pc[g] = "loadP"}
  /\ UNCHANGED misled

FaultyStoreInterrupt(h) ==
  /\ pc[h] = "storeI"
  /\ interrupt' = IF interrupt = None THEN held[h] ELSE interrupt
  /\ BeginPair(h)
  /\ Goto(h, "storeP")
  /\ UNCHANGED <<storeVars, proposal, cancel, ckpt, localVars, gateVars, runVars, strays>>

StoreInterrupt(h) ==
  /\ pc[h] = "storeI"
  /\ interrupt' = held[h]
  /\ BeginPair(h)
  /\ Goto(h, "storeP")
  /\ UNCHANGED <<storeVars, proposal, cancel, ckpt, localVars, gateVars, runVars, strays>>

\* Proposals.Store; the event that follows shows the proposal to the user.
StoreProposal(h) ==
  /\ pc[h] = "storeP"
  /\ proposal' = held[h]
  /\ Goto(h, "append")
  /\ UNCHANGED <<storeVars, interrupt, cancel, ckpt, localVars, logVars>>

\* The iterator ends, or with an error, a cancelled context among them.
RunEnds(h) ==
  /\ pc[h] = "run"
  /\ Goto(h, "append")
  /\ UNCHANGED <<storeVars, mapVars, localVars, logVars>>

\* A resumed run that produced nothing appends nothing.
AppendTurn(h) ==
  /\ pc[h] = "append"
  /\ \/ Append(h)
     \/ h \in Confirms /\ UNCHANGED storeVars
  /\ Goto(h, "leave")
  /\ UNCHANGED <<mapVars, localVars, logVars>>

\* The deferred Cancels.Delete, and the handler returns.
Leave(h) ==
  /\ pc[h] = "leave"
  /\ cancel' = None
  /\ held' = [held EXCEPT ![h] = None]
  /\ Goto(h, "done")
  /\ UNCHANGED <<storeVars, interrupt, proposal, ckpt, arg, about, logVars>>
-----------------------------------------------------------------------------
(* ConfirmHandler.                                                         *)

\* The user has seen proposal p and confirms it.
ConfirmOpen(h, p) ==
  /\ pc[h] = "new"
  /\ p \in used /\ \A g \in Streams : held[g] = p => pc[g] \notin {"storeI", "storeP"}
  /\ arg' = [arg EXCEPT ![h] = p]
  /\ about' = [about EXCEPT ![h] = IF live = "live" THEN article ELSE None]
  /\ approved' = approved \cup {p}
  /\ late' = IF p \in cleared THEN late \cup {h} ELSE late
  /\ Goto(h, IF live = "live" THEN "loadI" ELSE "done")
  /\ UNCHANGED <<storeVars, mapVars, held, used, executions, cleared, restored, pairVars,
                 runVars, strays>>

LoadInterrupt(h) ==
  /\ pc[h] = "loadI"
  /\ held' = [held EXCEPT ![h] = interrupt]
  /\ Goto(h, IF interrupt = None THEN "done" ELSE "loadP")
  /\ blurred' = IF mixed \/ \E g \in Streams : Writing(g) THEN blurred \cup {h} ELSE blurred
  /\ UNCHANGED <<storeVars, mapVars, arg, about, gateVars, mixed, misled, runVars, strays>>

FaultyLoadProposal(h) ==
  /\ pc[h] = "loadP"
  /\ arg' = [arg EXCEPT ![h] = proposal]
  /\ Goto(h, IF proposal = None THEN "done" ELSE "exec")
  /\ UNCHANGED <<storeVars, mapVars, held, about, logVars>>

\* Proposals.Load, and the test of the proposal id.
LoadProposal(h) ==
  /\ pc[h] = "loadP"
  /\ Goto(h, IF proposal = arg[h] THEN "exec" ELSE "done")
  /\ UNCHANGED <<storeVars, mapVars, localVars, logVars>>

\* Cancels.Store and Executor.Execute, whatever it answers: the execution
\* lasts until the step from "clearI".
ExecuteProposal(h) ==
  /\ pc[h] = "exec"
  /\ cancel' = h
  /\ Share(h)
  /\ executions' = [executions EXCEPT ![arg[h]] = @ + 1]
  /\ Goto(h, "clearI")
  /\ UNCHANGED <<storeVars, interrupt, proposal, ckpt, localVars, used, approved,
                 cleared, restored, late, pairVars, cancelled, strays>>

ClearInterrupt(h) ==
  /\ pc[h] = "clearI"
  /\ interrupt' = None
  /\ BeginPair(h)
  /\ Goto(h, "clearP")
  /\ UNCHANGED <<storeVars, proposal, cancel, ckpt, localVars, gateVars, runVars, strays>>

FaultyClearProposal(h) ==
  /\ pc[h] = "clearP"
  /\ interrupt' = None
  /\ cleared' = cleared \cup {arg[h]}
  /\ Goto(h, "resume")
  /\ UNCHANGED <<storeVars, proposal, cancel, ckpt, localVars, used, approved,
                 executions, restored, late, pairVars, runVars, strays>>

ClearProposal(h) ==
  /\ pc[h] = "clearP"
  /\ proposal' = None
  /\ cleared' = cleared \cup {arg[h]}
  /\ Goto(h, "resume")
  /\ UNCHANGED <<storeVars, interrupt, cancel, ckpt, localVars, used, approved,
                 executions, restored, late, pairVars, runVars, strays>>

\* ResumeWithParams and the Append of the tool call and its result.  Without
\* a checkpoint it fails; the tool of another interrupt interrupts again.
Resume(h) ==
  /\ pc[h] = "resume"
  /\ misled' = IF ckpt # None /\ held[h] # arg[h] THEN misled \cup {h} ELSE misled
  /\ \/ /\ ckpt = None
        /\ Goto(h, "leave")
        /\ UNCHANGED <<storeVars, held, restored>>
     \/ /\ ckpt = held[h]
        /\ Append(h)
        /\ Goto(h, "run")
        /\ UNCHANGED <<held, restored>>
     \/ /\ ckpt \notin {None, held[h]}
        /\ Append(h)
        /\ held' = [held EXCEPT ![h] = ckpt]
        /\ restored' = restored \cup {ckpt}
        /\ Goto(h, "storeI")
  /\ UNCHANGED <<mapVars, arg, about, used, approved, executions, cleared, late, mixed,
                 blurred, runVars, strays>>
-----------------------------------------------------------------------------
(* CancelHandler: LoadAndDelete, the test of the owner, the call.          *)

CancelTake(x) ==
  /\ pc[x] = "new"
  /\ held' = [held EXCEPT ![x] = cancel]
  /\ cancel' = None
  /\ Goto(x, IF cancel = None THEN "done" ELSE "check")
  /\ UNCHANGED <<storeVars, interrupt, proposal, ckpt, arg, about, logVars>>

\* A visitor who does not own the session puts the function back, over the one
\* of a run that has begun meanwhile.
CancelCheck(x) ==
  /\ pc[x] = "check"
  /\ Goto(x, "done")
  /\ held' = [held EXCEPT ![x] = None]
  /\ \/ /\ x \in Strangers /\ live = "live"
        /\ cancel' = held[x]
        /\ shared' = shared \cup {h \in Streams \ {held[x]} : InFlight(h)}
        /\ UNCHANGED cancelled
     \/ /\ ~ (x \in Strangers /\ live = "live")
        /\ cancelled' = cancelled \cup {held[x]}
        /\ UNCHANGED <<cancel, shared>>
  /\ UNCHANGED <<storeVars, interrupt, proposal, ckpt, arg, about, gateVars, pairVars, strays>>
-----------------------------------------------------------------------------
(* Time.                                                                   *)

ExpireSession ==
  /\ live = "live"
  /\ live' = "expired"
  /\ UNCHANGED <<article, file, history, doomed, mapVars, pc, localVars, logVars>>

\* cleanExpired looks at the time, then calls Delete.
CleanerSees ==
  /\ live = "expired" /\ ~doomed
  /\ doomed' = TRUE
  /\ UNCHANGED <<live, article, file, history, mapVars, pc, localVars, logVars>>

CleanerDeletes ==
  /\ doomed
  /\ doomed' = FALSE
  /\ DeleteSession /\ Strays
  /\ UNCHANGED <<mapVars, pc, localVars, gateVars, pairVars, runVars>>

\* MemoryCheckPointStore drops the checkpoint, on Get or in its cleanup.
ExpireCheckpoint ==
  /\ ckpt # None
  /\ ckpt' = None
  /\ UNCHANGED <<storeVars, interrupt, proposal, cancel, pc, localVars, logVars>>
-----------------------------------------------------------------------------
ChatStep(h) ==
  \/ \E a \in Articles \cup {None} : ChatOpen(h, a)
  \/ ChatReset(h) \/ ChatCreate(h) \/ ChatCreateFails(h) \/ ChatLoad(h) \/ ChatStart(h)

RunStep(h) ==
  \/ \E p \in Props : RunInterrupts(h, p)
  \/ StoreInterrupt(h) \/ StoreProposal(h) \/ RunEnds(h) \/ AppendTurn(h) \/ Leave(h)

ConfirmStep(h) ==
  \/ \E p \in Props : ConfirmOpen(h, p)
  \/ LoadInterrupt(h) \/ LoadProposal(h) \/ ExecuteProposal(h)
  \/ ClearInterrupt(h) \/ ClearProposal(h) \/ Resume(h)

Next ==
  \/ \E h \in Chats : ChatStep(h)
  \/ \E h \in Confirms : ConfirmStep(h)
  \/ \E h \in Streams : RunStep(h)
  \/ \E x \in Cancellers : CancelTake(x) \/ CancelCheck(x)
  \/ ExpireSession \/ CleanerSees \/ CleanerDeletes \/ ExpireCheckpoint

Spec == Init /\ [][Next]_vars
-----------------------------------------------------------------------------
\* The human gate: code that the agent proposed is executed only when a
\* confirmation has named that very proposal, however many chats replace the
\* pending proposal meanwhile, and not more often than it was confirmed.
HumanGate ==
  \A p \in Props :
    /\ executions[p] > 0 => p \in approved
    /\ executions[p] <= Cardinality({h \in Confirms : arg[h] = p})

\* A confirmation that comes when a run of its proposal has cleared the maps
\* (confirm.go:127) is refused, whatever is cancelled, expires or is proposed
\* meanwhile; the design promises that of every second confirmation.  Only
\* those that came before can still run it, and those of a proposal that the
\* resume of another one, meeting its checkpoint, has put back.
LateConfirmRefused ==
  \A h \in late : arg[h] \notin restored => pc[h] \in {"loadI", "loadP", "done"}

\* The comment at the resume: the result of an execution is passed to the tool
\* call that was interrupted for it, also when chats replace the interrupt, the
\* proposal and the checkpoint of the confirmed one.  InterruptIDs and Proposals
\* are two maps: a confirmation that reads them while they are being changed, or
\* after two changes of them have overlapped, may get what does not belong
\* together.
ResultToItsInterrupt == misled \subseteq blurred

\* The README on /agent/cancel: a run that is going on can be cancelled; its
\* function is in Cancels, or in the hands of a cancel request, or called.
\* There is one place for the function: streams that are open together overwrite
\* and delete it for each other, and so does a visitor who may not cancel when
\* the function he puts back (cancel.go:41) is not that of the run going on.
RunCancellable ==
  \A h \in Streams \ shared : InFlight(h) =>
    cancel = h \/ h \in cancelled \/ \E x \in Cancellers : pc[x] = "check" /\ held[x] = h

\* A session that a chat resets to another article, or creates again after it
\* has expired, keeps nothing of the old one's conversation, except what was
\* under way at that moment and appends its turn later (chat.go:325), or was in
\* the file when os.Create failed (store.go:99).
ResetClean ==
  live = "live" => \A h \in history \ strays : about[h] = article
=============================================================================
