------------------------- MODULE AgentSessionProofs -------------------------
(***************************************************************************)
(* Proofs about AgentSession, for any number of chats, confirmations,      *)
(* cancel requests, proposals and articles.                                *)
(*                                                                         *)
(* HumanGate needs to count: an execution of p belongs to a confirmation   *)
(* that names p and has passed its checks (Accounted).  The other          *)
(* properties except what the handlers do to each other; their invariants  *)
(* say what holds for the rest: what has been cleared and by whom          *)
(* (Cleared), what InterruptIDs and Proposals are while their writers take *)
(* turns (Paired), who shares Cancels (Apart), and what the streams that   *)
(* did not see the session change work on (Settled).                       *)
(***************************************************************************)
EXTENDS AgentSession, FiniteSetTheorems, TLAPS

ChatPoints == {"new", "create", "reset", "load", "start", "run", "storeI", "storeP",
               "append", "leave", "done"}

ConfirmPoints == {"new", "loadI", "loadP", "exec", "clearI", "clearP", "resume", "run",
                  "storeI", "storeP", "append", "leave", "done"}

\* Where the handlers can be, and what their locals are there.
Shape ==
  /\ \A h \in Chats :
       pc[h] \in ChatPoints /\ (pc[h] \in {"reset", "create"} => about[h] \in Articles)
  /\ \A h \in Confirms : pc[h] \in ConfirmPoints /\ (pc[h] # "new" => arg[h] \in Props)
  /\ \A x \in Cancellers :
       pc[x] \in {"new", "check", "done"} /\ (pc[x] = "check" => held[x] \in Streams)
  /\ \A h \in Streams :
       pc[h] \in {"storeI", "storeP", "loadP", "exec", "clearI", "clearP", "resume"} =>
         held[h] \in Props

Types ==
  /\ live \in {"none", "live", "expired"}
  /\ article \in Articles \cup {None}
  /\ history \subseteq Streams
  /\ interrupt \in Props \cup {None} /\ proposal \in Props \cup {None}
  /\ ckpt \in Props \cup {None}
  /\ cancel \in Streams \cup {None}
  /\ pc \in [Handlers -> ChatPoints \cup ConfirmPoints \cup {"check"}]
  /\ arg \in [Confirms -> Props \cup {None}]
  /\ held \in [Handlers -> Props \cup Streams \cup {None}]
  /\ about \in [Streams -> Articles \cup {None}]
  /\ used \subseteq Props /\ approved \subseteq Props
  /\ cleared \subseteq Props /\ restored \subseteq Props
  /\ late \subseteq Confirms /\ blurred \subseteq Confirms /\ misled \subseteq Confirms
  /\ executions \in [Props -> Nat]
  /\ cancelled \subseteq Streams /\ shared \subseteq Streams /\ strays \subseteq Streams

TypeInv == Types /\ Shape
-----------------------------------------------------------------------------
(* Types.                                                                  *)

LEMMA HandlerKinds ==
  /\ Chats \subseteq Handlers /\ Confirms \subseteq Handlers /\ Cancellers \subseteq Handlers
  /\ Streams \subseteq Handlers
  /\ \A h \in Chats : h \notin Confirms /\ h \notin Cancellers /\ h \in Streams
  /\ \A h \in Confirms : h \notin Chats /\ h \notin Cancellers /\ h \in Streams
  /\ \A h \in Cancellers : h \notin Streams
  /\ \A h \in Streams : h \in Chats \/ h \in Confirms
  /\ None \notin Streams /\ None \notin Props /\ None \notin Articles
  BY AgentAssumption DEF Handlers, Streams

LEMMA InitTypes == Init => TypeInv
  BY HandlerKinds DEF Init, TypeInv, Types, Shape, ChatPoints, ConfirmPoints

LEMMA ChatTypes ==
  ASSUME TypeInv, NEW h \in Chats, ChatStep(h)
  PROVE  TypeInv'
  <1> USE HandlerKinds DEF TypeInv, Types, Shape, storeVars, mapVars, localVars, logVars,
                           gateVars, pairVars, runVars, ChatPoints, ConfirmPoints
  <1>1. ASSUME NEW a \in Articles \cup {None}, ChatOpen(h, a)
        PROVE  TypeInv'
    BY <1>1 DEF ChatOpen, Goto
  <1>2. CASE ChatReset(h)
    BY <1>2 DEF ChatReset, DeleteSession, Strays, Goto
  <1>3. CASE ChatCreate(h)
    BY <1>3 DEF ChatCreate, CreateWithArticle, Strays, Goto
  <1>4. CASE ChatCreateFails(h) \/ ChatLoad(h)
    BY <1>4 DEF ChatCreateFails, ChatLoad, Goto
  <1>5. CASE ChatStart(h)
    BY <1>5 DEF ChatStart, Share, Goto
  <1>6. QED
    BY <1>1, <1>2, <1>3, <1>4, <1>5 DEF ChatStep

LEMMA RunTypes ==
  ASSUME TypeInv, NEW h \in Streams, RunStep(h)
  PROVE  TypeInv'
  <1> USE HandlerKinds DEF TypeInv, Types, Shape, storeVars, mapVars, localVars, logVars,
                           gateVars, pairVars, runVars, ChatPoints, ConfirmPoints
  <1>1. ASSUME NEW p \in Props, RunInterrupts(h, p)
        PROVE  TypeInv'
    BY <1>1 DEF RunInterrupts, Goto
  <1>2. CASE StoreInterrupt(h)
    BY <1>2 DEF StoreInterrupt, BeginPair, Goto
  <1>3. CASE StoreProposal(h)
    BY <1>3 DEF StoreProposal, Goto
  <1>4. CASE RunEnds(h)
    BY <1>4 DEF RunEnds, Goto
  <1>5. CASE AppendTurn(h)
    BY <1>5 DEF AppendTurn, Append, Goto
  <1>6. CASE Leave(h)
    BY <1>6 DEF Leave, Goto
  <1>7. QED
    BY <1>1, <1>2, <1>3, <1>4, <1>5, <1>6 DEF RunStep

LEMMA ConfirmTypes ==
  ASSUME TypeInv, NEW h \in Confirms, ConfirmStep(h)
  PROVE  TypeInv'
  <1> USE HandlerKinds DEF TypeInv, Types, Shape, storeVars, mapVars, localVars, logVars,
                           gateVars, pairVars, runVars, ChatPoints, ConfirmPoints
  <1>1. ASSUME NEW p \in Props, ConfirmOpen(h, p)
        PROVE  TypeInv'
    BY <1>1 DEF ConfirmOpen, Goto
  <1>2. CASE LoadInterrupt(h)
    BY <1>2 DEF LoadInterrupt, Goto
  <1>3. CASE LoadProposal(h)
    BY <1>3 DEF LoadProposal, Goto
  <1>4. CASE ExecuteProposal(h)
    BY <1>4 DEF ExecuteProposal, Share, Goto
  <1>5. CASE ClearInterrupt(h)
    BY <1>5 DEF ClearInterrupt, BeginPair, Goto
  <1>6. CASE ClearProposal(h)
    <2>1. /\ pc[h] = "clearP" /\ arg[h] \in Props
          /\ pc' = [pc EXCEPT ![h] = "resume"] /\ proposal' = None
          /\ cleared' = cleared \cup {arg[h]}
          /\ UNCHANGED <<storeVars, interrupt, cancel, ckpt, localVars, used, approved,
                         executions, restored, late, pairVars, runVars, strays>>
      BY <1>6 DEF ClearProposal, Goto
    <2>2. QED
      BY <2>1
  <1>7. CASE Resume(h)
    BY <1>7 DEF Resume, Append, Goto
  <1>8. QED
    BY <1>1, <1>2, <1>3, <1>4, <1>5, <1>6, <1>7 DEF ConfirmStep

LEMMA CancelTypes ==
  ASSUME TypeInv, NEW x \in Cancellers, CancelTake(x) \/ CancelCheck(x)
  PROVE  TypeInv'
  <1> USE HandlerKinds DEF TypeInv, Types, Shape, storeVars, mapVars, localVars, logVars,
                           gateVars, pairVars, runVars, ChatPoints, ConfirmPoints
  <1>1. CASE CancelTake(x)
    BY <1>1 DEF CancelTake, Goto
  <1>2. CASE CancelCheck(x)
    BY <1>2 DEF CancelCheck, Goto
  <1>3. QED
    BY <1>1, <1>2

LEMMA TimeTypes ==
  ASSUME TypeInv,
         \/ ExpireSession \/ CleanerSees \/ CleanerDeletes \/ ExpireCheckpoint
         \/ UNCHANGED vars
  PROVE  TypeInv'
  BY DEF TypeInv, Types, Shape, ExpireSession, CleanerSees, CleanerDeletes, DeleteSession,
         ExpireCheckpoint, vars, storeVars, mapVars, localVars, logVars, gateVars, pairVars,
         runVars, Strays

LEMMA NextTypes == TypeInv /\ [Next]_vars => TypeInv'
  BY ChatTypes, RunTypes, ConfirmTypes, CancelTypes, TimeTypes DEF Next
-----------------------------------------------------------------------------
(* The human gate.                                                         *)

\* The confirmations of p that may have executed it.
Passed(p) == {h \in Confirms : arg[h] = p /\ pc[h] \notin {"new", "loadI", "loadP", "exec"}}

Accounted ==
  /\ \A h \in Confirms : pc[h] # "new" => arg[h] \in approved
  /\ \A p \in Props : executions[p] <= Cardinality(Passed(p))

\* More confirmations in the set, a higher bound.
LEMMA PassedGrows ==
  ASSUME NEW S \in SUBSET Confirms, NEW T \in SUBSET Confirms, S \subseteq T
  PROVE  /\ IsFiniteSet(S) /\ IsFiniteSet(T)
         /\ Cardinality(S) \in Nat /\ Cardinality(T) \in Nat
         /\ Cardinality(S) <= Cardinality(T)
         /\ \A h \in T : h \notin S => Cardinality(S) + 1 <= Cardinality(T)
  <1>1. IsFiniteSet(T) /\ IsFiniteSet(S)
    BY AgentAssumption, FS_Subset
  <1>2. Cardinality(S) \in Nat /\ Cardinality(T) \in Nat /\ Cardinality(S) <= Cardinality(T)
    BY <1>1, FS_CardinalityType, FS_Subset
  <1>3. ASSUME NEW h \in T, h \notin S
        PROVE  Cardinality(S) + 1 <= Cardinality(T)
    <2>1. Cardinality(S \cup {h}) = Cardinality(S) + 1
      BY <1>1, <1>3, FS_AddElement
    <2>2. S \cup {h} \subseteq T
      BY <1>3
    <2>3. Cardinality(S \cup {h}) <= Cardinality(T)
      BY <1>1, <2>2, FS_Subset
    <2>4. QED
      BY <2>1, <2>3
  <1>4. QED
    BY <1>1, <1>2, <1>3

\* A confirmation moves on, and nothing is executed.
LEMMA AccountedMoves ==
  ASSUME TypeInv, Accounted, approved \subseteq approved', executions' = executions,
         \A h \in Confirms :
           /\ pc'[h] # "new" => arg'[h] \in approved'
           /\ pc[h] \notin {"new", "loadI", "loadP", "exec"} =>
                arg'[h] = arg[h] /\ pc'[h] \notin {"new", "loadI", "loadP", "exec"}
  PROVE  Accounted'
  <1>1. \A p \in Props : Passed(p) \subseteq Passed(p)'
    BY DEF Passed
  <1>2. \A p \in Props : executions[p] \in Nat
    BY DEF TypeInv, Types
  <1>3. ASSUME NEW p \in Props
        PROVE  executions'[p] <= Cardinality(Passed(p)')
    <2>1. Passed(p) \in SUBSET Confirms /\ Passed(p)' \in SUBSET Confirms
      BY DEF Passed
    <2>2. /\ Cardinality(Passed(p)) \in Nat /\ Cardinality(Passed(p)') \in Nat
          /\ Cardinality(Passed(p)) <= Cardinality(Passed(p)')
      BY <1>1, <2>1, PassedGrows
    <2>3. executions[p] <= Cardinality(Passed(p))
      BY DEF Accounted
    <2>4. QED
      BY <1>2, <2>2, <2>3
  <1>4. QED
    BY <1>3 DEF Accounted

LEMMA AccountedExecution ==
  ASSUME TypeInv, Accounted, NEW h \in Confirms, ExecuteProposal(h)
  PROVE  Accounted'
  <1>1. /\ arg[h] \in Props /\ pc[h] = "exec"
        /\ pc' = [pc EXCEPT ![h] = "clearI"] /\ arg' = arg /\ approved' = approved
        /\ executions' = [executions EXCEPT ![arg[h]] = @ + 1]
    BY DEF ExecuteProposal, Goto, TypeInv, Shape, localVars
  <1>2. \A g \in Confirms : arg[g] \in approved \/ pc'[g] = "new"
    BY <1>1, HandlerKinds DEF Accounted, TypeInv, Types
  <1>3. ASSUME NEW p \in Props
        PROVE  executions'[p] <= Cardinality(Passed(p)')
    <2>1. /\ Passed(p) \in SUBSET Confirms /\ Passed(p)' \in SUBSET Confirms
          /\ Passed(p) \subseteq Passed(p)'
          /\ p = arg[h] => h \in Passed(p)' /\ h \notin Passed(p)
      BY <1>1, HandlerKinds DEF Passed, TypeInv, Types
    <2>2. /\ Cardinality(Passed(p)) \in Nat /\ Cardinality(Passed(p)') \in Nat
          /\ Cardinality(Passed(p)) <= Cardinality(Passed(p)')
          /\ p = arg[h] => Cardinality(Passed(p)) + 1 <= Cardinality(Passed(p)')
      BY <2>1, PassedGrows
    <2>3. /\ executions[p] \in Nat /\ executions[p] <= Cardinality(Passed(p))
          /\ executions'[p] = IF p = arg[h] THEN executions[p] + 1 ELSE executions[p]
      BY <1>1 DEF TypeInv, Types, Accounted
    <2>4. QED
      BY <2>2, <2>3
  <1>4. QED
    BY <1>1, <1>2, <1>3 DEF Accounted

LEMMA AccountedStep == TypeInv /\ Accounted /\ [Next]_vars => Accounted'
  <1> SUFFICES ASSUME TypeInv, Accounted, [Next]_vars
               PROVE  Accounted'
    OBVIOUS
  <1> USE HandlerKinds DEF TypeInv, Types, Shape, localVars, logVars, gateVars, runVars
  <1>a. \A h \in Confirms : pc[h] # "new" => arg[h] \in approved
    BY DEF Accounted
  <1>1. ASSUME NEW h \in Chats, ChatStep(h)
        PROVE  Accounted'
    <2>1. /\ approved' = approved /\ executions' = executions
          /\ \A g \in Confirms : pc'[g] = pc[g] /\ arg'[g] = arg[g]
      BY <1>1 DEF ChatStep, ChatOpen, ChatReset, ChatCreate, ChatCreateFails, ChatLoad,
         ChatStart, Goto
    <2>2. QED
      BY <1>a, <2>1, AccountedMoves
  <1>2. ASSUME NEW h \in Streams, RunStep(h)
        PROVE  Accounted'
    <2>1. /\ approved' = approved /\ executions' = executions /\ arg' = arg
          /\ pc[h] \in {"run", "storeI", "storeP", "append", "leave"}
          /\ pc'[h] \in {"storeI", "storeP", "append", "leave", "done"}
          /\ \A g \in Confirms : g # h => pc'[g] = pc[g]
      BY <1>2 DEF RunStep, RunInterrupts, StoreInterrupt, StoreProposal, RunEnds,
         AppendTurn, Leave, Goto
    <2>2. QED
      BY <1>a, <2>1, AccountedMoves
  <1>3. ASSUME NEW h \in Confirms, ConfirmStep(h), ~ ExecuteProposal(h)
        PROVE  Accounted'
    <2>1. CASE \E p \in Props : ConfirmOpen(h, p)
      <3>1. PICK p \in Props : ConfirmOpen(h, p)
        BY <2>1
      <3>2. /\ approved' = approved \cup {p} /\ executions' = executions
            /\ pc[h] = "new" /\ arg'[h] = p
            /\ \A g \in Confirms : g # h => pc'[g] = pc[g] /\ arg'[g] = arg[g]
        BY <3>1 DEF ConfirmOpen, Goto
      <3>3. QED
        BY <1>a, <3>2, AccountedMoves
    <2>2. CASE ~ \E p \in Props : ConfirmOpen(h, p)
      <3>1. /\ approved' = approved /\ executions' = executions /\ arg' = arg
            /\ pc[h] # "new"
            /\ pc[h] \notin {"loadI", "loadP"} =>
                 pc'[h] \notin {"new", "loadI", "loadP", "exec"}
            /\ \A g \in Confirms : g # h => pc'[g] = pc[g]
        BY <1>3, <2>2 DEF ConfirmStep, LoadInterrupt, LoadProposal, ClearInterrupt,
           ClearProposal, Resume, Goto
      <3>2. QED
        BY <1>a, <3>1, AccountedMoves
    <2>3. QED
      BY <2>1, <2>2
  <1>4. ASSUME NEW h \in Confirms, ExecuteProposal(h)
        PROVE  Accounted'
    BY <1>4, AccountedExecution
  <1>5. ASSUME NEW x \in Cancellers, CancelTake(x) \/ CancelCheck(x)
        PROVE  Accounted'
    <2>1. /\ approved' = approved /\ executions' = executions /\ arg' = arg
          /\ \A g \in Confirms : pc'[g] = pc[g]
      BY <1>5 DEF CancelTake, CancelCheck, Goto
    <2>2. QED
      BY <1>a, <2>1, AccountedMoves
  <1>6. CASE \/ ExpireSession \/ CleanerSees \/ CleanerDeletes \/ ExpireCheckpoint
             \/ UNCHANGED vars
    <2>1. UNCHANGED <<approved, executions, arg, pc>>
      BY <1>6 DEF ExpireSession, CleanerSees, CleanerDeletes, ExpireCheckpoint, vars
    <2>2. QED
      BY <1>a, <2>1, AccountedMoves
  <1>7. QED
    BY <1>1, <1>2, <1>3, <1>4, <1>5, <1>6 DEF Next

LEMMA AccountedGivesGate == TypeInv /\ Accounted => HumanGate
  <1> SUFFICES ASSUME TypeInv, Accounted, NEW p \in Props
               PROVE  /\ executions[p] > 0 => p \in approved
                      /\ executions[p] <= Cardinality({h \in Confirms : arg[h] = p})
    BY DEF HumanGate
  <1>1. /\ Passed(p) \in SUBSET Confirms
        /\ {h \in Confirms : arg[h] = p} \in SUBSET Confirms
        /\ Passed(p) \subseteq {h \in Confirms : arg[h] = p}
    BY DEF Passed
  <1>2. /\ Cardinality(Passed(p)) \in Nat
        /\ Cardinality({h \in Confirms : arg[h] = p}) \in Nat
        /\ Cardinality(Passed(p)) <= Cardinality({h \in Confirms : arg[h] = p})
    BY <1>1, PassedGrows
  <1>3. executions[p] \in Nat /\ executions[p] <= Cardinality(Passed(p))
    BY DEF Accounted, TypeInv, Types
  <1>4. executions[p] > 0 => p \in approved
    <2>1. SUFFICES ASSUME executions[p] > 0
                   PROVE  p \in approved
      OBVIOUS
    <2>2. Passed(p) # {}
      BY <1>3, <2>1, FS_EmptySet
    <2>3. QED
      BY <2>2 DEF Passed, Accounted
  <1>5. QED
    BY <1>2, <1>3, <1>4

LEMMA AccountedAlways == Spec => [](TypeInv /\ Accounted)
  <1>1. Init => Accounted
    <2> SUFFICES ASSUME Init
                 PROVE  Accounted
      OBVIOUS
    <2>1. \A p \in Props : executions[p] = 0 /\ Passed(p) = {}
      BY HandlerKinds DEF Init, Passed
    <2>2. QED
      BY <2>1, FS_EmptySet, HandlerKinds DEF Init, Accounted
  <1>2. QED
    BY <1>1, InitTypes, NextTypes, AccountedStep, PTL DEF Spec

\* For any number of chats, confirmations and cancel requests at once: what the
\* agent proposed runs only if a confirmation named it (confirm.go), and not
\* more often than that.
THEOREM OnlyWhatWasConfirmedRuns == Spec => []HumanGate
  BY AccountedAlways, AccountedGivesGate, PTL

LEMMA FlagTypes ==
  (TypeInv /\ <<file, doomed, mixed>> \in BOOLEAN \X BOOLEAN \X BOOLEAN) /\ [Next]_vars
    => (<<file, doomed, mixed>> \in BOOLEAN \X BOOLEAN \X BOOLEAN)'
  <1> SUFFICES ASSUME file \in BOOLEAN, doomed \in BOOLEAN, mixed \in BOOLEAN, [Next]_vars
               PROVE  file' \in BOOLEAN /\ doomed' \in BOOLEAN /\ mixed' \in BOOLEAN
    OBVIOUS
  <1> USE DEF storeVars, logVars, gateVars, pairVars, runVars, Append, BeginPair
  <1>1. ASSUME NEW h \in Chats, ChatStep(h)
        PROVE  file' \in BOOLEAN /\ doomed' \in BOOLEAN /\ mixed' \in BOOLEAN
    BY <1>1 DEF ChatStep, ChatOpen, ChatReset, DeleteSession, ChatCreate,
       CreateWithArticle, ChatCreateFails, ChatLoad, ChatStart
  <1>2. ASSUME NEW h \in Streams, RunStep(h)
        PROVE  file' \in BOOLEAN /\ doomed' \in BOOLEAN /\ mixed' \in BOOLEAN
    BY <1>2 DEF RunStep, RunInterrupts, StoreInterrupt, StoreProposal, RunEnds,
       AppendTurn, Leave
  <1>3. ASSUME NEW h \in Confirms, ConfirmStep(h)
        PROVE  file' \in BOOLEAN /\ doomed' \in BOOLEAN /\ mixed' \in BOOLEAN
    BY <1>3 DEF ConfirmStep, ConfirmOpen, LoadInterrupt, LoadProposal, ExecuteProposal,
       ClearInterrupt, ClearProposal, Resume
  <1>4. ASSUME NEW x \in Cancellers, CancelTake(x) \/ CancelCheck(x)
        PROVE  file' \in BOOLEAN /\ doomed' \in BOOLEAN /\ mixed' \in BOOLEAN
    BY <1>4 DEF CancelTake, CancelCheck
  <1>5. CASE \/ ExpireSession \/ CleanerSees \/ CleanerDeletes \/ ExpireCheckpoint
             \/ UNCHANGED vars
    BY <1>5 DEF ExpireSession, CleanerSees, CleanerDeletes, DeleteSession,
       ExpireCheckpoint, vars
  <1>6. QED
    BY <1>1, <1>2, <1>3, <1>4, <1>5 DEF Next

\* Type correctness of the handlers; that nothing is executed more often than
\* there are confirmations is part of it.
THEOREM AgentTypeCorrect == Spec => []TypeOK
  <1> DEFINE Flags == <<file, doomed, mixed>> \in BOOLEAN \X BOOLEAN \X BOOLEAN
  <1>1. Init => Flags
    BY DEF Init
  <1>2. TypeInv /\ Flags /\ [Next]_vars => Flags'
    BY FlagTypes
  <1>3. TypeInv /\ Accounted /\ Flags => TypeOK
    <2> SUFFICES ASSUME TypeInv, Accounted, Flags
                 PROVE  TypeOK
      OBVIOUS
    <2>1. ASSUME NEW p \in Props
          PROVE  executions[p] \in 0..Cardinality(Confirms)
      <3>1. Passed(p) \in SUBSET Confirms /\ Confirms \in SUBSET Confirms
        BY DEF Passed
      <3>2. /\ Cardinality(Passed(p)) \in Nat /\ Cardinality(Confirms) \in Nat
            /\ Cardinality(Passed(p)) <= Cardinality(Confirms)
        BY <3>1, PassedGrows
      <3>3. executions[p] \in Nat /\ executions[p] <= Cardinality(Passed(p))
        BY DEF TypeInv, Types, Accounted
      <3>4. QED
        BY <3>2, <3>3
    <2>2. executions \in [Props -> 0..Cardinality(Confirms)]
      BY <2>1 DEF TypeInv, Types
    <2>3. file \in BOOLEAN /\ doomed \in BOOLEAN /\ mixed \in BOOLEAN
      OBVIOUS
    <2>4. ChatPoints \cup ConfirmPoints \cup {"check"} =
            {"new", "create", "reset", "load", "start", "run",
             "storeI", "storeP", "append", "loadI", "loadP", "exec", "clearI",
             "clearP", "resume", "check", "leave", "done"}
      BY DEF ChatPoints, ConfirmPoints
    <2>5. QED
      BY <2>2, <2>3, <2>4 DEF TypeInv, Types, TypeOK
  <1>4. QED
    BY <1>1, <1>2, <1>3, AccountedAlways, PTL DEF Spec
-----------------------------------------------------------------------------
(* Who moves whom.                                                         *)

LEMMA StreamMoves ==
  ASSUME TypeInv, NEW h \in Streams,
         \/ h \in Chats /\ ChatStep(h)
         \/ RunStep(h)
         \/ h \in Confirms /\ ConfirmStep(h)
  PROVE  /\ \A g \in Handlers : g # h => pc'[g] = pc[g] /\ held'[g] = held[g]
         /\ \A g \in Streams : g # h => about'[g] = about[g]
         /\ \A g \in Confirms : g # h => arg'[g] = arg[g]
         /\ pc'[h] # "new"
  <1> USE HandlerKinds DEF TypeInv, Types, localVars, Goto
  <1>1. CASE h \in Chats /\ ChatStep(h)
    BY <1>1 DEF ChatStep, ChatOpen, ChatReset, ChatCreate, ChatCreateFails, ChatLoad,
       ChatStart
  <1>2. CASE RunStep(h)
    BY <1>2 DEF RunStep, RunInterrupts, StoreInterrupt, StoreProposal, RunEnds,
       AppendTurn, Leave
  <1>3. CASE h \in Confirms /\ ConfirmStep(h)
    BY <1>3 DEF ConfirmStep, ConfirmOpen, LoadInterrupt, LoadProposal, ExecuteProposal,
       ClearInterrupt, ClearProposal, Resume
  <1>4. QED
    BY <1>1, <1>2, <1>3

\* The steps of everybody else leave the streams where they are.
LEMMA OthersMove ==
  ASSUME TypeInv,
         \/ \E x \in Cancellers : CancelTake(x) \/ CancelCheck(x)
         \/ ExpireSession \/ CleanerSees \/ CleanerDeletes \/ ExpireCheckpoint
         \/ UNCHANGED vars
  PROVE  /\ \A g \in Streams : pc'[g] = pc[g] /\ held'[g] = held[g]
         /\ UNCHANGED <<arg, about, interrupt, proposal, used, approved, cleared, restored,
                        late, mixed, blurred, misled>>
  <1>1. ASSUME NEW x \in Cancellers, CancelTake(x) \/ CancelCheck(x)
        PROVE  /\ \A g \in Streams : pc'[g] = pc[g] /\ held'[g] = held[g]
               /\ UNCHANGED <<arg, about, interrupt, proposal, used, approved, cleared,
                              restored, late, mixed, blurred, misled>>
    BY <1>1, HandlerKinds DEF TypeInv, Types, CancelTake, CancelCheck, Goto, logVars,
       gateVars, pairVars
  <1>2. CASE \/ ExpireSession \/ CleanerSees \/ CleanerDeletes \/ ExpireCheckpoint
             \/ UNCHANGED vars
    BY <1>2 DEF ExpireSession, CleanerSees, CleanerDeletes, ExpireCheckpoint, vars,
       mapVars, localVars, logVars, gateVars, pairVars
  <1>3. QED
    BY <1>1, <1>2
-----------------------------------------------------------------------------
(* A confirmation that comes late.                                         *)

\* What has been confirmed is stored no more and what has been cleared is not
\* pending, except what a resume has put back.
Cleared ==
  /\ approved \subseteq used /\ cleared \subseteq approved
  /\ \A h \in Confirms : pc[h] # "new" => arg[h] \in approved
  /\ \A g \in Streams :
       pc[g] \in {"storeI", "storeP"} => held[g] \notin approved \ restored
  /\ proposal \notin cleared \ restored
  /\ \A h \in late : arg[h] \in cleared /\ pc[h] # "new"
  /\ LateConfirmRefused

\* The steps that confirm, clear and store nothing.
LEMMA ClearedKept ==
  ASSUME TypeInv, Cleared, NEW h \in Streams,
         UNCHANGED <<approved, cleared, late>>, proposal' \in {proposal, None},
         used \subseteq used', restored \subseteq restored',
         \A g \in Handlers : g # h => pc'[g] = pc[g] /\ held'[g] = held[g],
         \A g \in Confirms : g # h => arg'[g] = arg[g],
         h \in Confirms => pc[h] # "new" /\ arg'[h] = arg[h],
         pc'[h] # "new",
         pc'[h] \in {"storeI", "storeP"} => held'[h] \notin approved \ restored',
         pc[h] \in {"loadI", "loadP", "done"} /\ proposal # arg[h] =>
           pc'[h] \in {"loadI", "loadP", "done"}
  PROVE  Cleared'
  <1> USE HandlerKinds DEF Cleared
  <1>1. \A g \in late : g \in Confirms /\ pc[g] # "new" /\ arg'[g] = arg[g] /\ pc'[g] # "new"
    BY DEF TypeInv, Types
  <1>2. ASSUME NEW g \in late, arg[g] \notin restored
        PROVE  pc'[g] \in {"loadI", "loadP", "done"}
    <2>1. pc[g] \in {"loadI", "loadP", "done"} /\ proposal # arg[g]
      BY <1>2 DEF LateConfirmRefused
    <2>2. QED
      BY <1>1, <2>1
  <1>3. LateConfirmRefused'
    BY <1>1, <1>2 DEF LateConfirmRefused
  <1>4. None \notin cleared
    BY DEF TypeInv, Types
  <1>5. QED
    BY <1>1, <1>3, <1>4

LEMMA ClearedStep == TypeInv /\ Cleared /\ [Next]_vars => Cleared'
  <1> SUFFICES ASSUME TypeInv, Cleared, [Next]_vars
               PROVE  Cleared'
    OBVIOUS
  <1> USE HandlerKinds DEF Goto, mapVars, localVars, logVars, gateVars
  <1>1. ASSUME NEW h \in Chats, ChatStep(h)
        PROVE  Cleared'
    <2>1. /\ UNCHANGED <<approved, cleared, late, proposal, used, restored>>
          /\ pc[h] \in {"new", "create", "reset", "load", "start"}
          /\ pc'[h] \in {"create", "reset", "load", "start", "run", "done"}
      BY <1>1 DEF ChatStep, ChatOpen, ChatReset, ChatCreate, ChatCreateFails, ChatLoad,
         ChatStart, TypeInv, Types
    <2>2. /\ \A g \in Handlers : g # h => pc'[g] = pc[g] /\ held'[g] = held[g]
          /\ \A g \in Confirms : g # h => arg'[g] = arg[g]
      BY <1>1, StreamMoves
    <2>3. QED
      BY <2>1, <2>2, ClearedKept
  <1>2. ASSUME NEW h \in Streams, RunStep(h), ~ StoreProposal(h)
        PROVE  Cleared'
    <2>1. /\ UNCHANGED <<approved, cleared, late, proposal, restored, arg>>
          /\ used \subseteq used'
          /\ pc[h] \in {"run", "storeI", "append", "leave"}
          /\ pc'[h] \in {"storeI", "storeP", "append", "leave", "done"}
          /\ pc'[h] \in {"storeI", "storeP"} => held'[h] \notin approved \ restored
      BY <1>2 DEF RunStep, RunInterrupts, StoreInterrupt, RunEnds, AppendTurn, Leave,
         TypeInv, Types, Cleared
    <2>2. \A g \in Handlers : g # h => pc'[g] = pc[g] /\ held'[g] = held[g]
      BY <1>2, StreamMoves
    <2>3. QED
      BY <2>1, <2>2, ClearedKept
  <1>3. ASSUME NEW h \in Streams, StoreProposal(h)
        PROVE  Cleared'
    <2>1. /\ UNCHANGED <<approved, cleared, late, used, restored, arg, held>>
          /\ proposal' = held[h] /\ pc[h] = "storeP"
          /\ pc' = [pc EXCEPT ![h] = "append"]
      BY <1>3 DEF StoreProposal
    <2>2. held[h] \notin cleared \ restored
      BY <2>1 DEF Cleared
    <2>3. QED
      BY <2>1, <2>2 DEF Cleared, LateConfirmRefused, TypeInv, Types
  <1>4. ASSUME NEW h \in Confirms, NEW p \in Props, ConfirmOpen(h, p)
        PROVE  Cleared'
    <2>1. /\ UNCHANGED <<cleared, used, restored, held, proposal>>
          /\ approved' = approved \cup {p} /\ p \in used
          /\ \A g \in Streams : held[g] = p => pc[g] \notin {"storeI", "storeP"}
          /\ late' = IF p \in cleared THEN late \cup {h} ELSE late
          /\ pc[h] = "new" /\ pc'[h] \in {"loadI", "done"} /\ arg'[h] = p
          /\ \A g \in Streams : g # h => pc'[g] = pc[g]
          /\ \A g \in Confirms : g # h => arg'[g] = arg[g]
      BY <1>4 DEF ConfirmOpen, TypeInv, Types
    <2>2. h \notin late
      BY <2>1 DEF Cleared
    <2>3. QED
      BY <2>1, <2>2 DEF Cleared, LateConfirmRefused, TypeInv, Types
  <1>5. ASSUME NEW h \in Confirms, ClearProposal(h)
        PROVE  Cleared'
    <2>1. /\ UNCHANGED <<approved, late, used, restored, arg, held>>
          /\ proposal' = None /\ cleared' = cleared \cup {arg[h]} /\ arg[h] \in Props
          /\ arg[h] \in approved
          /\ pc[h] = "clearP" /\ pc' = [pc EXCEPT ![h] = "resume"]
      BY <1>5 DEF ClearProposal, TypeInv, Shape, Cleared
    <2>2. h \notin late \/ arg[h] \in restored
      BY <2>1 DEF Cleared, LateConfirmRefused
    <2>3. QED
      BY <2>1, <2>2 DEF Cleared, LateConfirmRefused, TypeInv, Types
  <1>6. ASSUME NEW h \in Confirms, ConfirmStep(h), ~ ClearProposal(h),
               ~ \E p \in Props : ConfirmOpen(h, p)
        PROVE  Cleared'
    <2>1. /\ UNCHANGED <<approved, cleared, late, proposal, used, arg>>
          /\ restored \subseteq restored'
          /\ pc[h] \in {"loadI", "loadP", "exec", "clearI", "resume"}
          /\ pc[h] \in {"loadI", "loadP"} /\ proposal # arg[h] => pc'[h] \in {"loadP", "done"}
          /\ pc'[h] \notin {"new", "storeP"}
          /\ pc'[h] = "storeI" => held'[h] \in restored'
      BY <1>6 DEF ConfirmStep, LoadInterrupt, LoadProposal, ExecuteProposal, ClearInterrupt,
         Resume, TypeInv, Types
    <2>2. \A g \in Handlers : g # h => pc'[g] = pc[g] /\ held'[g] = held[g]
      BY <1>6, StreamMoves
    <2>3. QED
      BY <2>1, <2>2, ClearedKept
  <1>7. CASE \/ \E x \in Cancellers : CancelTake(x) \/ CancelCheck(x)
             \/ ExpireSession \/ CleanerSees \/ CleanerDeletes \/ ExpireCheckpoint
             \/ UNCHANGED vars
    BY <1>7, OthersMove DEF Cleared, LateConfirmRefused, TypeInv, Types
  <1>8. QED
    BY <1>1, <1>2, <1>3, <1>4, <1>5, <1>6, <1>7 DEF Next

\* For any number of streams at once, however they interleave: a confirmation
\* that comes when its proposal has been cleared (confirm.go) executes nothing,
\* except that of a proposal which the resume of another one put back.
THEOREM LateConfirmationsRefused == Spec => []LateConfirmRefused
  <1>1. Init => Cleared
    BY HandlerKinds DEF Init, Cleared, LateConfirmRefused
  <1>2. Cleared => LateConfirmRefused
    BY DEF Cleared
  <1>3. QED
    BY <1>1, <1>2, InitTypes, NextTypes, ClearedStep, PTL DEF Spec
-----------------------------------------------------------------------------
(* The result of an execution.                                             *)

\* Unless two pairs of writes have overlapped, one stream at most is between its
\* two writes, and InterruptIDs and Proposals name the same proposal when none
\* is; a confirmation that is not blurred has read them then.
Paired ==
  /\ ~ mixed =>
       /\ \A g, h \in Streams : Writing(g) /\ Writing(h) => g = h
       /\ \A g \in Streams : pc[g] = "storeP" => interrupt = held[g]
       /\ \A g \in Streams : pc[g] = "clearP" => interrupt = None
       /\ (\A g \in Streams : ~ Writing(g)) => interrupt = proposal
  /\ \A h \in Confirms \ blurred :
       /\ pc[h] = "loadP" =>
            ~ mixed /\ held[h] = interrupt /\ \A g \in Streams : ~ Writing(g)
       /\ pc[h] \in {"exec", "clearI", "clearP", "resume"} => held[h] = arg[h]
  /\ ResultToItsInterrupt

\* The steps that write neither of the two.
LEMMA PairedKept ==
  ASSUME TypeInv, Paired, NEW h \in Streams,
         UNCHANGED <<interrupt, proposal, mixed>>,
         blurred \subseteq blurred', misled' \subseteq misled \cup blurred',
         \A g \in Handlers : g # h => pc'[g] = pc[g] /\ held'[g] = held[g],
         \A g \in Confirms : g # h => arg'[g] = arg[g],
         ~ Writing(h), ~ Writing(h)',
         h \in Confirms \ blurred' =>
           /\ pc'[h] = "loadP" =>
                ~ mixed /\ held'[h] = interrupt /\ \A g \in Streams : ~ Writing(g)
           /\ pc'[h] \in {"exec", "clearI", "resume"} => held'[h] = arg'[h]
  PROVE  Paired'
  <1> USE HandlerKinds DEF Paired
  <1>1. \A g \in Streams : Writing(g)' <=> Writing(g)
    BY DEF Writing
  <1>2. \A g \in Streams : Writing(g) => pc'[g] = pc[g] /\ held'[g] = held[g]
    OBVIOUS
  <1>3. ASSUME ~ mixed
        PROVE  /\ \A g \in Streams : pc'[g] = "storeP" => interrupt' = held'[g]
               /\ \A g \in Streams : pc'[g] = "clearP" => interrupt' = None
    BY <1>1, <1>2, <1>3 DEF Writing
  <1>4. ResultToItsInterrupt'
    BY DEF ResultToItsInterrupt
  <1>5. ASSUME NEW g \in Confirms \ blurred'
        PROVE  /\ pc'[g] = "loadP" =>
                    ~ mixed' /\ held'[g] = interrupt' /\ \A k \in Streams : ~ Writing(k)'
               /\ pc'[g] \in {"exec", "clearI", "clearP", "resume"} => held'[g] = arg'[g]
    BY <1>1 DEF Writing
  <1>6. QED
    BY <1>1, <1>3, <1>4, <1>5

\* The first of a pair of writes.
LEMMA PairBegins ==
  ASSUME TypeInv, Paired, NEW h \in Streams, BeginPair(h),
         UNCHANGED <<proposal, held, arg>>, ~ Writing(h),
         \/ pc[h] = "storeI" /\ pc' = [pc EXCEPT ![h] = "storeP"] /\ interrupt' = held[h]
         \/ pc[h] = "clearI" /\ pc' = [pc EXCEPT ![h] = "clearP"] /\ interrupt' = None
  PROVE  Paired'
  <1> USE HandlerKinds DEF Paired
  <1>1. \A g \in Streams : Writing(g)' <=> g = h \/ Writing(g)
    BY DEF Writing, TypeInv, Types
  <1>2. mixed' = \E g \in Streams \ {h} : Writing(g)
    BY DEF BeginPair
  <1>3. ASSUME ~ mixed'
        PROVE  \A g \in Streams : Writing(g)' => g = h
    BY <1>1, <1>2, <1>3
  <1>4. ASSUME ~ mixed'
        PROVE  /\ \A g \in Streams : pc'[g] = "storeP" => interrupt' = held'[g]
               /\ \A g \in Streams : pc'[g] = "clearP" => interrupt' = None
    BY <1>3, <1>4 DEF Writing, TypeInv, Types
  <1>5. blurred' = blurred \cup {g \in Confirms : pc[g] = "loadP"} /\ misled' = misled
    BY DEF BeginPair
  <1>6. ASSUME NEW g \in Confirms \ blurred'
        PROVE  /\ pc'[g] # "loadP"
               /\ pc'[g] \in {"exec", "clearI", "clearP", "resume"} => held'[g] = arg'[g]
    BY <1>5, <1>6 DEF TypeInv, Types
  <1>7. ResultToItsInterrupt'
    BY <1>5 DEF ResultToItsInterrupt
  <1>8. QED
    BY <1>1, <1>3, <1>4, <1>6, <1>7

\* The second one.
LEMMA PairEnds ==
  ASSUME TypeInv, Paired, NEW h \in Streams,
         UNCHANGED <<interrupt, held, arg, mixed, blurred, misled>>,
         \/ pc[h] = "storeP" /\ pc' = [pc EXCEPT ![h] = "append"] /\ proposal' = held[h]
         \/ pc[h] = "clearP" /\ pc' = [pc EXCEPT ![h] = "resume"] /\ proposal' = None
  PROVE  Paired'
  <1> USE HandlerKinds DEF Paired
  <1>1. Writing(h) /\ \A g \in Streams : Writing(g)' <=> g # h /\ Writing(g)
    BY DEF Writing, TypeInv, Types
  <1>2. ASSUME ~ mixed
        PROVE  (\A g \in Streams : ~ Writing(g)') /\ interrupt' = proposal'
    BY <1>1, <1>2
  <1>3. ASSUME NEW g \in Confirms \ blurred
        PROVE  /\ pc'[g] # "loadP"
               /\ pc'[g] \in {"exec", "clearI", "clearP", "resume"} => held'[g] = arg'[g]
    BY <1>1, <1>3 DEF TypeInv, Types
  <1>4. ResultToItsInterrupt'
    BY DEF ResultToItsInterrupt
  <1>5. ASSUME ~ mixed, NEW g \in Streams
        PROVE  pc'[g] # "storeP" /\ pc'[g] # "clearP"
    BY <1>2, <1>5 DEF Writing
  <1>6. QED
    BY <1>2, <1>3, <1>4, <1>5

LEMMA PairedStep == TypeInv /\ Paired /\ [Next]_vars => Paired'
  <1> SUFFICES ASSUME TypeInv, Paired, [Next]_vars
               PROVE  Paired'
    OBVIOUS
  <1> USE HandlerKinds DEF Goto, mapVars, localVars, logVars, pairVars
  <1>1. ASSUME NEW h \in Chats, ChatStep(h)
        PROVE  Paired'
    <2>1. /\ UNCHANGED <<interrupt, proposal, mixed, blurred, misled>>
          /\ pc[h] \in {"new", "create", "reset", "load", "start"}
          /\ pc'[h] \in {"create", "reset", "load", "start", "run", "done"}
      BY <1>1 DEF ChatStep, ChatOpen, ChatReset, ChatCreate, ChatCreateFails, ChatLoad,
         ChatStart, TypeInv, Types
    <2>2. /\ \A g \in Handlers : g # h => pc'[g] = pc[g] /\ held'[g] = held[g]
          /\ \A g \in Confirms : g # h => arg'[g] = arg[g]
      BY <1>1, StreamMoves
    <2>3. ~ Writing(h) /\ ~ Writing(h)'
      BY <2>1 DEF Writing
    <2>4. QED
      BY <2>1, <2>2, <2>3, PairedKept
  <1>2. ASSUME NEW h \in Streams, RunStep(h)
        PROVE  Paired'
    <2>1. CASE StoreInterrupt(h)
      <3>1. /\ BeginPair(h) /\ UNCHANGED <<proposal, held, arg>>
            /\ pc[h] = "storeI" /\ pc' = [pc EXCEPT ![h] = "storeP"] /\ interrupt' = held[h]
        BY <2>1 DEF StoreInterrupt
      <3>2. QED
        BY <3>1, PairBegins DEF Writing
    <2>2. CASE StoreProposal(h)
      <3>1. /\ UNCHANGED <<interrupt, held, arg, mixed, blurred, misled>>
            /\ pc[h] = "storeP" /\ pc' = [pc EXCEPT ![h] = "append"] /\ proposal' = held[h]
        BY <2>2 DEF StoreProposal
      <3>2. QED
        BY <3>1, PairEnds
    <2>3. CASE ~ StoreInterrupt(h) /\ ~ StoreProposal(h)
      <3>1. /\ UNCHANGED <<interrupt, proposal, mixed, blurred, misled, arg>>
            /\ pc[h] \in {"run", "append", "leave"}
            /\ pc'[h] \in {"storeI", "append", "leave", "done"}
        BY <1>2, <2>3 DEF RunStep, RunInterrupts, RunEnds, AppendTurn, Leave, TypeInv, Types
      <3>2. \A g \in Handlers : g # h => pc'[g] = pc[g] /\ held'[g] = held[g]
        BY <1>2, StreamMoves
      <3>3. ~ Writing(h) /\ ~ Writing(h)'
        BY <3>1 DEF Writing
      <3>4. QED
        BY <3>1, <3>2, <3>3, PairedKept
    <2>4. QED
      BY <2>1, <2>2, <2>3
  <1>3. ASSUME NEW h \in Confirms, ConfirmStep(h)
        PROVE  Paired'
    <2>1. CASE ClearInterrupt(h)
      <3>1. /\ BeginPair(h) /\ UNCHANGED <<proposal, held, arg>>
            /\ pc[h] = "clearI" /\ pc' = [pc EXCEPT ![h] = "clearP"] /\ interrupt' = None
        BY <2>1 DEF ClearInterrupt
      <3>2. QED
        BY <3>1, PairBegins DEF Writing
    <2>2. CASE ClearProposal(h)
      <3>1. /\ UNCHANGED <<interrupt, held, arg, mixed, blurred, misled>>
            /\ pc[h] = "clearP" /\ pc' = [pc EXCEPT ![h] = "resume"] /\ proposal' = None
        BY <2>2 DEF ClearProposal
      <3>2. QED
        BY <3>1, PairEnds
    <2>3. CASE Resume(h)
      <3>1. /\ UNCHANGED <<interrupt, proposal, mixed, blurred, arg>>
            /\ misled' = IF ckpt # None /\ held[h] # arg[h] THEN misled \cup {h} ELSE misled
            /\ pc[h] = "resume" /\ pc'[h] \in {"leave", "run", "storeI"}
        BY <2>3 DEF Resume, TypeInv, Types
      <3>2. misled' \subseteq misled \cup blurred'
        BY <3>1 DEF Paired
      <3>3. /\ \A g \in Handlers : g # h => pc'[g] = pc[g] /\ held'[g] = held[g]
        BY <1>3, StreamMoves
      <3>4. ~ Writing(h) /\ ~ Writing(h)'
        BY <3>1 DEF Writing
      <3>5. QED
        BY <3>1, <3>2, <3>3, <3>4, PairedKept
    <2>4. CASE ~ ClearInterrupt(h) /\ ~ ClearProposal(h) /\ ~ Resume(h)
      <3>1. /\ UNCHANGED <<interrupt, proposal, mixed, misled>>
            /\ blurred \subseteq blurred'
            /\ pc[h] \in {"new", "loadI", "loadP", "exec"}
            /\ pc'[h] \in {"loadI", "loadP", "exec", "clearI", "done"}
        BY <1>3, <2>4 DEF ConfirmStep, ConfirmOpen, LoadInterrupt, LoadProposal,
           ExecuteProposal, TypeInv, Types
      <3>2. /\ \A g \in Handlers : g # h => pc'[g] = pc[g] /\ held'[g] = held[g]
            /\ \A g \in Confirms : g # h => arg'[g] = arg[g]
        BY <1>3, StreamMoves
      <3>3. ~ Writing(h) /\ ~ Writing(h)'
        BY <3>1 DEF Writing
      <3>4. ASSUME h \notin blurred', pc'[h] = "loadP"
            PROVE  ~ mixed /\ held'[h] = interrupt /\ \A g \in Streams : ~ Writing(g)
        BY <1>3, <2>4, <3>4 DEF ConfirmStep, ConfirmOpen, LoadInterrupt, LoadProposal,
           ExecuteProposal, TypeInv, Types
      <3>5. ASSUME h \notin blurred', pc'[h] \in {"exec", "clearI", "resume"}
            PROVE  held'[h] = arg'[h]
        <4>1. CASE LoadProposal(h)
          BY <3>5, <4>1 DEF LoadProposal, Paired, TypeInv, Types
        <4>2. CASE ExecuteProposal(h)
          BY <3>5, <4>2 DEF ExecuteProposal, Paired, TypeInv, Types
        <4>3. CASE LoadInterrupt(h) \/ \E p \in Props : ConfirmOpen(h, p)
          BY <3>5, <4>3 DEF LoadInterrupt, ConfirmOpen, TypeInv, Types
        <4>4. QED
          BY <1>3, <2>4, <4>1, <4>2, <4>3 DEF ConfirmStep
      <3>6. QED
        BY <3>1, <3>2, <3>3, <3>4, <3>5, PairedKept
    <2>5. QED
      BY <2>1, <2>2, <2>3, <2>4
  <1>4. CASE \/ \E x \in Cancellers : CancelTake(x) \/ CancelCheck(x)
             \/ ExpireSession \/ CleanerSees \/ CleanerDeletes \/ ExpireCheckpoint
             \/ UNCHANGED vars
    BY <1>4, OthersMove DEF Paired, Writing, ResultToItsInterrupt
  <1>5. QED
    BY <1>1, <1>2, <1>3, <1>4 DEF Next

\* For any number of streams at once: the result of an execution goes to the
\* tool call that was interrupted for it (confirm.go), or to none, when the
\* confirmation did not read the two maps while or after their writers mixed.
THEOREM ResultsStayWithInterrupt == Spec => []ResultToItsInterrupt
  <1>1. Init => Paired
    BY HandlerKinds DEF Init, Paired, Writing, ResultToItsInterrupt
  <1>2. Paired => ResultToItsInterrupt
    BY DEF Paired
  <1>3. QED
    BY <1>1, <1>2, InitTypes, NextTypes, PairedStep, PTL DEF Spec
-----------------------------------------------------------------------------
(* A run can be cancelled.                                                 *)

\* Streams that are in flight together know it.
Apart ==
  /\ \A g, h \in Streams : InFlight(g) /\ InFlight(h) /\ g # h => g \in shared
  /\ RunCancellable

\* A stream stores its function.
LEMMA ApartBegins ==
  ASSUME TypeInv, Apart, NEW h \in Streams, Share(h), cancel' = h,
         UNCHANGED <<cancelled, held>>,
         \/ pc[h] = "start" /\ pc' = [pc EXCEPT ![h] = "run"]
         \/ pc[h] = "exec" /\ pc' = [pc EXCEPT ![h] = "clearI"]
  PROVE  Apart'
  <1> USE HandlerKinds DEF Apart
  <1>1. \A g \in Streams : g # h /\ InFlight(g)' => InFlight(g)
    BY DEF InFlight, TypeInv, Types
  <1>2. ASSUME NEW g \in Streams \ {h}, InFlight(g)
        PROVE  g \in shared' /\ h \in shared'
    BY <1>2 DEF Share
  <1>3. \A f, g \in Streams : InFlight(f)' /\ InFlight(g)' /\ f # g => f \in shared'
    BY <1>1, <1>2
  <1>4. RunCancellable'
    BY <1>1, <1>2 DEF RunCancellable
  <1>5. QED
    BY <1>3, <1>4

\* A stream goes on, or leaves.
LEMMA ApartKept ==
  ASSUME TypeInv, Apart, NEW h \in Streams,
         UNCHANGED <<cancelled, shared>>,
         \A g \in Handlers : g # h => pc'[g] = pc[g] /\ held'[g] = held[g],
         \/ ~ InFlight(h)' /\ cancel' = cancel
         \/ InFlight(h) /\ cancel' = cancel
         \/ InFlight(h) /\ ~ InFlight(h)'
  PROVE  Apart'
  <1> USE HandlerKinds DEF Apart
  <1>1. \A g \in Streams : InFlight(g)' => InFlight(g)
    BY DEF InFlight
  <1>2. \A x \in Cancellers : pc'[x] = pc[x] /\ held'[x] = held[x]
    OBVIOUS
  <1>3. ASSUME NEW g \in Streams \ shared, InFlight(g)'
        PROVE  cancel' = cancel
    BY <1>1, <1>3
  <1>4. RunCancellable'
    BY <1>1, <1>2, <1>3 DEF RunCancellable
  <1>5. QED
    BY <1>1, <1>4

LEMMA ApartStep == TypeInv /\ Apart /\ [Next]_vars => Apart'
  <1> SUFFICES ASSUME TypeInv, Apart, [Next]_vars
               PROVE  Apart'
    OBVIOUS
  <1> USE HandlerKinds DEF Goto, mapVars, localVars, logVars, runVars
  <1>1. ASSUME NEW h \in Chats, ChatStep(h)
        PROVE  Apart'
    <2>1. CASE ChatStart(h)
      <3>1. /\ Share(h) /\ cancel' = h /\ UNCHANGED <<cancelled, held>>
            /\ pc[h] = "start" /\ pc' = [pc EXCEPT ![h] = "run"]
        BY <2>1 DEF ChatStart
      <3>2. QED
        BY <3>1, ApartBegins
    <2>2. CASE ~ ChatStart(h)
      <3>1. /\ UNCHANGED <<cancelled, shared, cancel>>
            /\ pc'[h] \in {"create", "reset", "load", "start", "done"}
        BY <1>1, <2>2 DEF ChatStep, ChatOpen, ChatReset, ChatCreate, ChatCreateFails,
           ChatLoad, TypeInv, Types
      <3>2. ~ InFlight(h)'
        BY <3>1 DEF InFlight
      <3>3. \A g \in Handlers : g # h => pc'[g] = pc[g] /\ held'[g] = held[g]
        BY <1>1, StreamMoves
      <3>4. QED
        BY <3>1, <3>2, <3>3, ApartKept
    <2>3. QED
      BY <2>1, <2>2
  <1>2. ASSUME NEW h \in Streams, RunStep(h)
        PROVE  Apart'
    <2>1. /\ UNCHANGED <<cancelled, shared>>
          /\ pc[h] \in {"run", "storeI", "storeP", "append", "leave"}
          /\ cancel' = cancel \/ pc'[h] = "done"
      BY <1>2 DEF RunStep, RunInterrupts, StoreInterrupt, StoreProposal, RunEnds,
         AppendTurn, Leave, TypeInv, Types
    <2>2. InFlight(h) /\ (cancel' = cancel \/ ~ InFlight(h)')
      BY <2>1 DEF InFlight
    <2>3. \A g \in Handlers : g # h => pc'[g] = pc[g] /\ held'[g] = held[g]
      BY <1>2, StreamMoves
    <2>4. QED
      BY <2>1, <2>2, <2>3, ApartKept
  <1>3. ASSUME NEW h \in Confirms, ConfirmStep(h)
        PROVE  Apart'
    <2>1. CASE ExecuteProposal(h)
      <3>1. /\ Share(h) /\ cancel' = h /\ UNCHANGED <<cancelled, held>>
            /\ pc[h] = "exec" /\ pc' = [pc EXCEPT ![h] = "clearI"]
        BY <2>1 DEF ExecuteProposal
      <3>2. QED
        BY <3>1, ApartBegins
    <2>2. CASE ~ ExecuteProposal(h)
      <3>1. /\ UNCHANGED <<cancelled, shared, cancel>>
            /\ \/ pc'[h] \in {"loadI", "loadP", "exec", "done"}
               \/ pc[h] \in {"clearI", "clearP", "resume"}
        BY <1>3, <2>2 DEF ConfirmStep, ConfirmOpen, LoadInterrupt, LoadProposal,
           ClearInterrupt, ClearProposal, Resume, TypeInv, Types
      <3>2. InFlight(h)' => InFlight(h)
        BY <3>1 DEF InFlight
      <3>3. \A g \in Handlers : g # h => pc'[g] = pc[g] /\ held'[g] = held[g]
        BY <1>3, StreamMoves
      <3>4. QED
        BY <3>1, <3>2, <3>3, ApartKept
    <2>3. QED
      BY <2>1, <2>2
  <1>4. ASSUME NEW x \in Cancellers, CancelTake(x)
        PROVE  Apart'
    <2>1. /\ held' = [held EXCEPT ![x] = cancel] /\ cancel' = None /\ pc[x] = "new"
          /\ pc' = [pc EXCEPT ![x] = IF cancel = None THEN "done" ELSE "check"]
          /\ UNCHANGED <<cancelled, shared>>
      BY <1>4 DEF CancelTake
    <2>2. \A g \in Streams : InFlight(g)' <=> InFlight(g)
      BY <2>1 DEF InFlight, TypeInv, Types
    <2>3. RunCancellable'
      BY <2>1, <2>2 DEF Apart, RunCancellable, TypeInv, Types
    <2>4. QED
      BY <2>1, <2>2, <2>3 DEF Apart
  <1>5. ASSUME NEW x \in Cancellers, CancelCheck(x)
        PROVE  Apart'
    <2>1. /\ pc[x] = "check" /\ pc' = [pc EXCEPT ![x] = "done"]
          /\ \A y \in Cancellers : y # x => held'[y] = held[y]
          /\ \/ cancel' = held[x] /\ cancelled' = cancelled
                /\ shared' = shared \cup {h \in Streams \ {held[x]} : InFlight(h)}
             \/ cancel' = cancel /\ cancelled' = cancelled \cup {held[x]} /\ shared' = shared
      BY <1>5 DEF CancelCheck, TypeInv, Types
    <2>2. \A g \in Streams : InFlight(g)' <=> InFlight(g)
      BY <2>1 DEF InFlight, TypeInv, Types
    <2>3. RunCancellable'
      <3> SUFFICES ASSUME NEW g \in Streams \ shared', InFlight(g)'
                   PROVE  \/ cancel' = g \/ g \in cancelled'
                          \/ \E y \in Cancellers : pc'[y] = "check" /\ held'[y] = g
        BY DEF RunCancellable
      <3>1. InFlight(g) /\ g \notin shared
        BY <2>1, <2>2
      <3>2. \/ cancel = g \/ g \in cancelled
            \/ \E y \in Cancellers : pc[y] = "check" /\ held[y] = g
        BY <3>1 DEF Apart, RunCancellable
      <3>3. ASSUME NEW y \in Cancellers, y # x, pc[y] = "check"
            PROVE  pc'[y] = "check" /\ held'[y] = held[y]
        BY <2>1, <3>3 DEF TypeInv, Types
      <3>4. QED
        BY <2>1, <3>1, <3>2, <3>3
    <2>4. \A f, g \in Streams : InFlight(f)' /\ InFlight(g)' /\ f # g => f \in shared'
      BY <2>1, <2>2 DEF Apart
    <2>5. QED
      BY <2>3, <2>4 DEF Apart
  <1>6. CASE \/ ExpireSession \/ CleanerSees \/ CleanerDeletes \/ ExpireCheckpoint
             \/ UNCHANGED vars
    <2>1. UNCHANGED <<pc, held, cancel, cancelled, shared>>
      BY <1>6 DEF ExpireSession, CleanerSees, CleanerDeletes, ExpireCheckpoint, vars
    <2>2. QED
      BY <2>1 DEF Apart, RunCancellable, InFlight
  <1>7. QED
    BY <1>1, <1>2, <1>3, <1>4, <1>5, <1>6 DEF Next

\* For any number of streams and of cancel requests at any time: the function
\* that cancels a run (cancel.go) is where a cancel request finds it, unless the
\* run was open together with another one, or met a function put back.
THEOREM EveryRunCancellable == Spec => []RunCancellable
  <1>1. Init => Apart
    BY HandlerKinds DEF Init, Apart, RunCancellable, InFlight
  <1>2. Apart => RunCancellable
    BY DEF Apart
  <1>3. QED
    BY <1>1, <1>2, InitTypes, NextTypes, ApartStep, PTL DEF Spec
-----------------------------------------------------------------------------
(* A reset leaves nothing of the other article.                            *)

Waiting == {"new", "reset", "create"}

\* Who is no stray, and is under way or in the history, works on the article of
\* the session.
Settled ==
  \A h \in Streams \ strays :
    /\ pc[h] \in Waiting => h \notin history
    /\ pc[h] \notin Waiting \cup {"done"} \/ h \in history => about[h] = article

\* The steps that leave the session what it is.
LEMMA SettledKept ==
  ASSUME TypeInv, Settled, NEW h \in Streams,
         UNCHANGED <<article, strays>>, history' \subseteq history \cup {h},
         \A g \in Handlers : g # h => pc'[g] = pc[g],
         \A g \in Streams : g # h => about'[g] = about[g],
         pc'[h] # "new",
         h \notin strays =>
           /\ pc'[h] \in Waiting => h \notin history'
           /\ pc'[h] \notin Waiting \cup {"done"} \/ h \in history' => about'[h] = article
  PROVE  Settled'
  BY HandlerKinds DEF Settled

\* The steps that make it another one.
LEMMA SettledAnew ==
  ASSUME TypeInv, Settled, history' = {}, Strays,
         \A g \in Streams : pc[g] \notin {"reset", "create"} => pc'[g] = pc[g],
         \A g \in Streams : pc[g] \in {"reset", "create"} =>
           \/ pc'[g] \in {"reset", "create"}
           \/ about'[g] = article'
  PROVE  Settled'
  BY HandlerKinds DEF Settled, Strays, Waiting

LEMMA SettledStep == TypeInv /\ Settled /\ [Next]_vars => Settled'
  <1> SUFFICES ASSUME TypeInv, Settled, [Next]_vars
               PROVE  Settled'
    OBVIOUS
  <1> USE HandlerKinds DEF Goto, storeVars, mapVars, localVars, logVars
  <1>1. ASSUME NEW h \in Chats, ChatStep(h)
        PROVE  Settled'
    <2>1. /\ \A g \in Handlers : g # h => pc'[g] = pc[g]
          /\ \A g \in Streams : g # h => about'[g] = about[g]
          /\ pc'[h] # "new"
      BY <1>1, StreamMoves
    <2>2. CASE ChatReset(h)
      <3>1. /\ Strays /\ history' = {} /\ pc' = [pc EXCEPT ![h] = "create"]
            /\ pc[h] = "reset"
        BY <2>2 DEF ChatReset, DeleteSession
      <3>2. QED
        BY <3>1, SettledAnew DEF TypeInv, Types
    <2>3. CASE ChatCreate(h)
      <3>1. /\ Strays /\ history' = {} /\ pc' = [pc EXCEPT ![h] = "load"]
            /\ article' = about[h] /\ about' = about /\ pc[h] = "create"
        BY <2>3 DEF ChatCreate, CreateWithArticle
      <3>2. QED
        BY <3>1, SettledAnew DEF TypeInv, Types
    <2>4. CASE ChatCreateFails(h)
      <3>1. /\ pc[h] = "create" /\ pc'[h] = "done" /\ history' = history /\ about' = about
            /\ \/ article' = article /\ strays' = strays
               \/ strays' = strays \cup history
                              \cup {g \in Streams : pc[g] \notin {"new", "create", "reset", "done"}}
        BY <2>4 DEF ChatCreateFails, TypeInv, Types
      <3>2. QED
        BY <2>1, <3>1 DEF Settled, Waiting
    <2>5. CASE ChatLoad(h) \/ ChatStart(h)
      <3>1. /\ UNCHANGED <<article, strays, history, about>>
            /\ pc[h] \in {"load", "start"}
            /\ pc'[h] \in {"start", "run", "done"}
        BY <2>5 DEF ChatLoad, ChatStart, TypeInv, Types
      <3>2. h \notin strays => about[h] = article
        BY <3>1 DEF Settled, Waiting
      <3>3. QED
        BY <2>1, <3>1, <3>2, SettledKept DEF Waiting
    <2>6. ASSUME NEW a \in Articles \cup {None}, ChatOpen(h, a)
          PROVE  Settled'
      <3>1. /\ UNCHANGED <<article, strays, history>>
            /\ pc[h] = "new" /\ pc'[h] \in {"load", "reset", "create", "done"}
            /\ pc'[h] = "load" => about'[h] = article
        BY <2>6 DEF ChatOpen, TypeInv, Types
      <3>2. h \notin strays => h \notin history
        BY <3>1 DEF Settled, Waiting
      <3>3. QED
        BY <2>1, <3>1, <3>2, SettledKept DEF Waiting
    <2>7. QED
      BY <1>1, <2>2, <2>3, <2>4, <2>5, <2>6 DEF ChatStep
  <1>2. ASSUME NEW h \in Streams, pc[h] \notin Waiting \cup {"done"}, pc'[h] \notin Waiting,
               UNCHANGED <<article, strays, about>>, history' \subseteq history \cup {h},
               \A g \in Handlers : g # h => pc'[g] = pc[g]
        PROVE  Settled'
    BY <1>2, SettledKept DEF Settled, Waiting
  <1>3. ASSUME NEW h \in Streams, RunStep(h)
        PROVE  Settled'
    <2>1. /\ UNCHANGED <<article, strays, about>> /\ history' \subseteq history \cup {h}
          /\ pc[h] \in {"run", "storeI", "storeP", "append", "leave"}
          /\ pc'[h] \in {"storeI", "storeP", "append", "leave", "done"}
      BY <1>3 DEF RunStep, RunInterrupts, StoreInterrupt, StoreProposal, RunEnds,
         AppendTurn, Append, Leave, TypeInv, Types
    <2>2. \A g \in Handlers : g # h => pc'[g] = pc[g]
      BY <1>3, StreamMoves
    <2>3. QED
      BY <1>2, <2>1, <2>2 DEF Waiting
  <1>4. ASSUME NEW h \in Confirms, NEW p \in Props, ConfirmOpen(h, p)
        PROVE  Settled'
    <2>1. /\ UNCHANGED <<article, strays, history>>
          /\ pc[h] = "new" /\ pc'[h] \in {"loadI", "done"}
          /\ pc'[h] = "loadI" => about'[h] = article
      BY <1>4 DEF ConfirmOpen, TypeInv, Types
    <2>2. h \notin strays => h \notin history
      BY <2>1 DEF Settled, Waiting
    <2>3. /\ \A g \in Handlers : g # h => pc'[g] = pc[g]
          /\ \A g \in Streams : g # h => about'[g] = about[g]
      BY <1>4, StreamMoves DEF ConfirmStep
    <2>4. QED
      BY <2>1, <2>2, <2>3, SettledKept DEF Waiting
  <1>5. ASSUME NEW h \in Confirms, ConfirmStep(h), ~ \E p \in Props : ConfirmOpen(h, p)
        PROVE  Settled'
    <2>1. /\ UNCHANGED <<article, strays, about>> /\ history' \subseteq history \cup {h}
          /\ pc[h] \in {"loadI", "loadP", "exec", "clearI", "clearP", "resume"}
          /\ pc'[h] \in {"loadP", "exec", "clearI", "clearP", "resume", "leave", "run",
                         "storeI", "done"}
      BY <1>5 DEF ConfirmStep, LoadInterrupt, LoadProposal, ExecuteProposal,
         ClearInterrupt, ClearProposal, Resume, Append, TypeInv, Types
    <2>2. \A g \in Handlers : g # h => pc'[g] = pc[g]
      BY <1>5, StreamMoves
    <2>3. QED
      BY <1>2, <2>1, <2>2 DEF Waiting
  <1>6. CASE CleanerDeletes
    BY <1>6, SettledAnew DEF CleanerDeletes, DeleteSession, Settled, Strays, Waiting
  <1>7. CASE \/ \E x \in Cancellers : CancelTake(x) \/ CancelCheck(x)
             \/ ExpireSession \/ CleanerSees \/ ExpireCheckpoint \/ UNCHANGED vars
    <2>1. UNCHANGED <<article, strays, history>>
      BY <1>7 DEF CancelTake, CancelCheck, ExpireSession, CleanerSees, ExpireCheckpoint, vars
    <2>2. about' = about /\ \A g \in Streams : pc'[g] = pc[g]
      BY <1>7, OthersMove
    <2>3. QED
      BY <2>1, <2>2 DEF Settled
  <1>8. QED
    BY <1>1, <1>3, <1>4, <1>5, <1>6, <1>7 DEF Next

\* For any number of streams at once and any articles: a session that was reset
\* (chat.go) has nothing of the old article in its history, whatever expires or
\* is cleaned up meanwhile, but the turns of the streams it was reset under.
THEOREM ResetStartsClean == Spec => []ResetClean
  <1>1. Init => Settled
    BY DEF Init, Settled, Waiting
  <1>2. TypeInv /\ Settled => ResetClean
    BY DEF Settled, ResetClean, TypeInv, Types
  <1>3. QED
    BY <1>1, <1>2, InitTypes, NextTypes, SettledStep, PTL DEF Spec
=============================================================================
