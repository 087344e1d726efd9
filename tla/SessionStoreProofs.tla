------------------------- MODULE SessionStoreProofs -------------------------
(***************************************************************************)
(* Proofs about SessionStore, for any number of requests and faults.       *)
(*                                                                         *)
(* That a mutex has one owner says nothing while a session can have two    *)
(* mutexes.  LockInv adds that the owner is inside its section and a call  *)
(* inside its section is the owner (Owners), that a call refers to a mutex *)
(* from getLock to Unlock and at no other time (Fetched), and that, before *)
(* a Delete has dropped a mutex somebody else had fetched, every mutex     *)
(* that is referred to is the one in the map (OneMutex).                   *)
(*                                                                         *)
(* Shape adds the types of the other variables and what they rest on.      *)
(* Turns and Coherent say how far a call has come inside its section: what *)
(* an Append has written so far, and how far the cached meta and the files *)
(* may differ.  Both are kept by the others because the sections exclude   *)
(* each other; the one who comes in without the mutex is GetMeta.  Bounded *)
(* counts the damaged lines, which only a fault adds to.                   *)
(***************************************************************************)
EXTENDS SessionStore, FiniteSetTheorems, TLAPS

Outside == {"new", "meta", "readMeta", "storeMeta", "next", "done"}

LockTypes ==
  /\ locks \in Mutexes \cup {None}
  /\ owner \in [Mutexes -> Procs \cup {None}]
  /\ mu \in [Procs -> Mutexes \cup {None}]
  /\ pc \in [Procs -> Critical \cup Outside \cup {"lock"}]
  /\ todo \in [Procs -> Seq({"create", "append", "delete", "read"})]
  /\ \A p \in Procs : pc[p] \notin Outside => todo[p] # <<>>

Owners ==
  /\ \A p \in Procs : pc[p] \in Critical => mu[p] # None /\ owner[mu[p]] = p
  /\ \A m \in Mutexes : owner[m] # None => mu[owner[m]] = m /\ pc[owner[m]] \in Critical

Fetched == \A p \in Procs : mu[p] = None <=> pc[p] \in Outside

OneMutex == ~crossed => \A p \in Procs : mu[p] \in {None, locks}

LockInv == LockTypes /\ Owners /\ Fetched /\ OneMutex

\* What is in the variables besides.
StoreTypes ==
  /\ now \in 0..MaxTime /\ crashes \in 0..MaxFaults /\ errors \in 0..MaxFaults
  /\ metas \in CachedMeta \cup {None}
  /\ metaFile \in Meta \cup {None, Corrupt}
  /\ jsonl = None \/ jsonl \in Seq(Line)
  /\ art \in [Procs -> Articles \cup {None}]
  /\ copy \in [Procs -> Meta \cup {None}]
  /\ gone \subseteq Requests /\ acked \subseteq Turn
  /\ crossed \in BOOLEAN

\* Only who has an article creates a session, and the Cleaner only deletes.
Creates(s) == \E i \in 1..Len(s) : s[i] = "create"

Scripted ==
  /\ pc[Cleaner] \in {"next", "lock", "delete", "rmmeta", "uncache", "droplock"}
  /\ todo[Cleaner] \in {<<>>, <<"delete">>}
  /\ \A p \in Procs : pc[p] = "new" => todo[p] = <<>>
  /\ \A p \in Procs : pc[p] = "create" \/ Creates(todo[p]) => art[p] # None

HasCopy == {"storeMeta", "fill", "newfile", "cache", "mark", "trunc", "save"}

Copied == \A p \in Procs : pc[p] \in HasCopy => copy[p] \in Meta

\* A call writes to the JSONL file, or to one that has been unlinked.
Opened == \A p \in Procs : pc[p] \in {"write1", "write2"} => jsonl # None \/ p \in gone

Shape == LockInv /\ StoreTypes /\ Scripted /\ Copied /\ Opened

Writing == {"write1", "write2", "touch", "mark", "trunc", "save"}

\* What an Append has written so far is at the end of the file, and what it has
\* acknowledged is there.
Turns ==
  ~crossed =>
    /\ gone = {}
    /\ \A t \in acked : jsonl # None /\ Recorded(t)
    /\ \A p \in Procs : pc[p] \in Writing => jsonl # None
    /\ \A p \in Procs :
         pc[p] = "write2" =>
           Len(jsonl) > 0 /\ jsonl[Len(jsonl)] \in {<<TurnOf(p), 1>>, Junk}
    /\ \A p \in Procs : pc[p] \in Writing \ {"write1", "write2"} => Recorded(TurnOf(p))

Faults == crashes + errors

\* Every damaged line has had its fault.
Bounded ==
  jsonl # None =>
    /\ IsFiniteSet(Damaged(jsonl))
    /\ Cardinality(Damaged(jsonl)) <= Faults

\* Where the cached meta and the files may differ, and how far they do.
Busy == {"fill", "newfile", "cache", "mark", "trunc", "save", "rmmeta", "uncache", "droplock"}

Settled ==
  /\ metas # None => metaFile = Plain(metas) /\ metas.clock # "torn"
  /\ crashes = 0 /\ metaFile \in Meta => jsonl # None

Phase(p) ==
  /\ pc[p] = "fill" => metaFile = Corrupt
  /\ pc[p] \in {"newfile", "cache"} => metaFile = copy[p]
  /\ pc[p] = "cache" => jsonl # None
  /\ pc[p] = "mark" => metas # None /\ metas.clock = "torn" /\ metas.art = copy[p].art
  /\ pc[p] \in {"trunc", "save"} => metas # None /\ metas.clock = "mono" /\ Plain(metas) = copy[p]
  /\ pc[p] \in {"uncache", "droplock"} => metaFile = None
  /\ pc[p] = "droplock" => metas = None

Coherent ==
  ~crossed /\ errors = 0 =>
    /\ (\A p \in Procs : pc[p] \notin Busy) => Settled
    /\ \A p \in Procs : Phase(p)
-----------------------------------------------------------------------------
LEMMA ConstantFacts ==
  /\ None \notin Procs /\ None \notin Mutexes
  /\ Critical \cap Outside = {} /\ "lock" \notin Critical \cup Outside
  /\ {"create", "append", "delete", "read"} \subseteq Critical
  BY StoreAssumption DEF Critical, Outside

\* getLock makes a mutex that nobody refers to.
LEMMA FreshMutex ==
  ASSUME LockTypes, NEW p \in Procs, mu[p] = None
  PROVE  \E m \in Mutexes : \A q \in Procs : mu[q] # m
  <1> SUFFICES ASSUME \A m \in Mutexes : \E q \in Procs : mu[q] = m
               PROVE  FALSE
    OBVIOUS
  <1> DEFINE S == Procs \ {p}
             T == {mu[q] : q \in S}
             f == [q \in S |-> mu[q]]
  <1>1. /\ IsFiniteSet(Procs)
        /\ Cardinality(Procs) = Cardinality(Requests) + 1
    BY StoreAssumption, FS_AddElement DEF Procs
  <1>2. IsFiniteSet(S) /\ Cardinality(S) = Cardinality(Procs) - 1
    BY <1>1, FS_RemoveElement
  <1>3. f \in Surjection(S, T)
    BY DEF Surjection
  <1>4. IsFiniteSet(T) /\ Cardinality(T) <= Cardinality(S)
    BY <1>2, <1>3, FS_Surjection
  <1>5. Mutexes \subseteq T
    BY ConstantFacts
  <1>6. Cardinality(Mutexes) <= Cardinality(T)
    BY <1>4, <1>5, FS_Subset
  <1>7. Cardinality(Requests) \in Nat /\ Cardinality(Mutexes) \in Nat
        /\ Cardinality(T) \in Nat
    BY <1>4, StoreAssumption, FS_CardinalityType
  <1>8. QED
    BY <1>1, <1>2, <1>4, <1>6, <1>7, StoreAssumption

LEMMA InitLock == Init => LockInv
  <1> SUFFICES ASSUME Init
               PROVE  LockInv
    OBVIOUS
  <1>1. \A p \in Procs : pc[p] \in {"new", "next"} /\ todo[p] = <<>> /\ mu[p] = None
    BY DEF Init
  <1>2. LockTypes
    BY <1>1 DEF Init, LockTypes, Outside
  <1>3. QED
    BY <1>1, <1>2, ConstantFacts DEF Init, LockInv, Owners, Fetched, OneMutex, Outside
-----------------------------------------------------------------------------
(* The kinds of steps, as the mutex sees them.                             *)

\* A call goes on inside its section.
LEMMA InsideStep ==
  ASSUME LockInv, UNCHANGED <<lockVars, todo, crossed>>,
         NEW p \in Procs, pc[p] \in Critical,
         NEW l \in Critical, pc' = [pc EXCEPT ![p] = l]
  PROVE  LockInv'
  <1> USE ConstantFacts DEF LockInv, lockVars
  <1>1. LockTypes'
    BY DEF LockTypes
  <1>2. Owners' /\ Fetched' /\ OneMutex'
    BY DEF LockTypes, Owners, Fetched, OneMutex
  <1>3. QED
    BY <1>1, <1>2

\* A call returns.
LEMMA UnlockStep ==
  ASSUME LockInv, UNCHANGED <<locks, crossed>>,
         NEW p \in Procs, pc[p] \in Critical,
         NEW rest \in Seq({"create", "append", "delete", "read"}), Unlock(p, rest)
  PROVE  LockInv'
  <1> USE ConstantFacts DEF LockInv, Unlock, Goto
  <1>1. "next" \in Outside
    BY DEF Outside
  <1>2. LockTypes'
    BY <1>1 DEF LockTypes, Owners
  <1>3. Owners' /\ Fetched' /\ OneMutex'
    BY <1>1 DEF LockTypes, Owners, Fetched, OneMutex
  <1>4. QED
    BY <1>2, <1>3

\* A request does something between its calls.
LEMMA OutsideStep ==
  ASSUME LockInv, UNCHANGED lockVars, crossed => crossed',
         NEW p \in Procs, pc[p] \in Outside,
         NEW l \in Outside, pc' = [pc EXCEPT ![p] = l],
         NEW script \in Seq({"create", "append", "delete", "read"}),
         todo' = [todo EXCEPT ![p] = script]
  PROVE  LockInv'
  <1> USE ConstantFacts DEF LockInv, lockVars
  <1>1. LockTypes'
    BY DEF LockTypes
  <1>2. Owners' /\ Fetched' /\ OneMutex'
    BY DEF LockTypes, Owners, Fetched, OneMutex
  <1>3. QED
    BY <1>1, <1>2
-----------------------------------------------------------------------------
(* The steps.                                                              *)

\* What a request may be told to do, GetMeta's answer being what it is.
LEMMA ScriptTypes ==
  ASSUME NEW p, NEW a, NEW script \in Scripts(p, a)
  PROVE  script \in Seq({"create", "append", "delete", "read"})
  <1> DEFINE S == {"create", "append", "delete", "read"}
  <1>1. /\ <<>> \in Seq(S)
        /\ <<"append">> \in Seq(S) /\ <<"read">> \in Seq(S)
        /\ <<"read", "append">> \in Seq(S) /\ <<"append", "append">> \in Seq(S)
        /\ <<"create", "read", "append">> \in Seq(S)
        /\ <<"delete", "create", "read", "append">> \in Seq(S)
    OBVIOUS
  <1>2. QED
    BY <1>1 DEF Scripts

LEMMA TailTypes ==
  ASSUME LockInv, NEW p \in Procs, pc[p] \notin Outside
  PROVE  /\ Tail(todo[p]) \in Seq({"create", "append", "delete", "read"})
         /\ Head(todo[p]) \in Critical
         /\ <<>> \in Seq({"create", "append", "delete", "read"})
  <1> DEFINE S == {"create", "append", "delete", "read"}
  <1>1. todo[p] \in Seq(S) /\ todo[p] # <<>>
    BY DEF LockInv, LockTypes
  <1>2. \A s \in Seq(S) : s # <<>> => Tail(s) \in Seq(S) /\ Head(s) \in S
    OBVIOUS
  <1>3. <<>> \in Seq(S)
    OBVIOUS
  <1>4. QED
    BY <1>1, <1>2, <1>3, ConstantFacts

LEMMA AnswerStep ==
  ASSUME LockInv, UNCHANGED lockVars, crossed => crossed',
         NEW p \in Procs, pc[p] \in Outside, NEW a, Answer(p, a)
  PROVE  LockInv'
  <1>1. PICK script \in Scripts(p, a) : todo' = [todo EXCEPT ![p] = script]
    BY DEF Answer
  <1>2. script \in Seq({"create", "append", "delete", "read"})
    BY ScriptTypes
  <1>3. QED
    BY <1>1, <1>2, OutsideStep DEF Answer, Goto, Outside

\* The steps outside the mutex.
LEMMA OutsideSteps ==
  ASSUME LockInv, NEW p \in Procs,
         \/ \E a \in Articles \cup {None} : Arrive(p, a)
         \/ Return(p) \/ LoadMeta(p) \/ ReadMeta(p) \/ StoreMeta(p)
  PROVE  LockInv'
  <1> USE DEF Outside
  <1>1. todo[p] \in Seq({"create", "append", "delete", "read"})
        /\ todo = [todo EXCEPT ![p] = todo[p]]
    BY DEF LockInv, LockTypes
  <1>2. CASE \E a \in Articles \cup {None} : Arrive(p, a)
    <2>1. /\ pc[p] = "new" /\ pc' = [pc EXCEPT ![p] = "meta"]
          /\ UNCHANGED <<lockVars, todo, crossed>>
      BY <1>2 DEF Arrive, Goto
    <2>2. QED
      BY <1>1, <2>1, OutsideStep
  <1>3. CASE Return(p)
    BY <1>1, <1>3, OutsideStep DEF Return, Goto
  <1>4. CASE LoadMeta(p)
    <2>1. CASE \E a : Answer(p, a)
      BY <1>4, <2>1, AnswerStep DEF LoadMeta
    <2>2. CASE Goto(p, "readMeta") /\ UNCHANGED todo
      BY <1>1, <1>4, <2>2, OutsideStep DEF LoadMeta, Goto
    <2>3. QED
      BY <1>4, <2>1, <2>2 DEF LoadMeta
  <1>5. CASE ReadMeta(p)
    <2>1. CASE Answer(p, None)
      BY <1>5, <2>1, AnswerStep DEF ReadMeta
    <2>2. CASE Goto(p, "storeMeta") /\ UNCHANGED todo
      BY <1>1, <1>5, <2>2, OutsideStep DEF ReadMeta, Goto
    <2>3. QED
      BY <1>5, <2>1, <2>2 DEF ReadMeta
  <1>6. CASE StoreMeta(p)
    <2>1. crossed => crossed'
      BY <1>6 DEF StoreMeta
    <2>2. QED
      BY <1>6, <2>1, AnswerStep DEF StoreMeta
  <1>7. QED
    BY <1>2, <1>3, <1>4, <1>5, <1>6

\* The steps of CreateWithArticle, GetMessages, Append and Delete: each goes on
\* inside the section, or unlocks.
LEMMA SectionSteps ==
  ASSUME LockInv, NEW p \in Procs,
         \/ TruncMeta(p) \/ FillMeta(p) \/ NewFile(p) \/ CacheMeta(p)
         \/ ReadMessages(p)
         \/ Open(p) \/ Write(p, 1) \/ Write(p, 2)
         \/ Touch(p) \/ Mark(p) \/ TruncSaved(p) \/ Save(p)
         \/ RemoveJsonl(p) \/ RemoveMeta(p) \/ Uncache(p)
  PROVE  LockInv'
  <1> DEFINE Inside == /\ UNCHANGED <<lockVars, todo, crossed>>
                       /\ \E l \in Critical : pc' = [pc EXCEPT ![p] = l]
             Leaves == /\ UNCHANGED <<locks, crossed>>
                       /\ \/ Unlock(p, <<>>)
                          \/ Unlock(p, Tail(todo[p]))
  <1>1. ASSUME pc[p] \in Critical, Inside \/ Leaves
        PROVE  LockInv'
    <2>1. CASE Inside
      BY <1>1, <2>1, InsideStep
    <2>2. CASE Leaves
      <3>1. pc[p] \notin Outside
        BY <1>1, ConstantFacts
      <3>2. /\ <<>> \in Seq({"create", "append", "delete", "read"})
            /\ Tail(todo[p]) \in Seq({"create", "append", "delete", "read"})
        BY <3>1, TailTypes
      <3>3. CASE Unlock(p, <<>>)
        BY <1>1, <2>2, <3>2, <3>3, UnlockStep
      <3>4. CASE Unlock(p, Tail(todo[p]))
        BY <1>1, <2>2, <3>2, <3>4, UnlockStep
      <3>5. QED
        BY <2>2, <3>3, <3>4
    <2>3. QED
      BY <1>1, <2>1, <2>2
  <1>2. CASE TruncMeta(p) \/ FillMeta(p) \/ NewFile(p) \/ Open(p)
    <2>1. pc[p] \in Critical
      BY <1>2 DEF TruncMeta, FillMeta, NewFile, Open, Critical
    <2>2. Inside \/ Leaves
      BY <1>2 DEF TruncMeta, FillMeta, NewFile, Open, Goto, Fail, Critical, lockVars
    <2>3. QED
      BY <1>1, <2>1, <2>2
  <1>3. CASE Write(p, 1) \/ Write(p, 2)
    <2>1. pc[p] \in Critical
      BY <1>3 DEF Write, Critical
    <2>2. Inside \/ Leaves
      BY <1>3 DEF Write, Goto, Fail, Critical, lockVars
    <2>3. QED
      BY <1>1, <2>1, <2>2
  <1>4. CASE CacheMeta(p) \/ ReadMessages(p) \/ Save(p)
    <2>1. pc[p] \in Critical
      BY <1>4 DEF CacheMeta, ReadMessages, Save, Critical
    <2>2. Leaves
      BY <1>4 DEF CacheMeta, ReadMessages, Save
    <2>3. QED
      BY <1>1, <2>1, <2>2
  <1>5. CASE Touch(p)
    <2>1. pc[p] \in Critical
      BY <1>5 DEF Touch, Critical
    <2>2. Inside \/ Leaves
      BY <1>5 DEF Touch, Goto, Critical, lockVars
    <2>3. QED
      BY <1>1, <2>1, <2>2
  <1>6. CASE Mark(p) \/ TruncSaved(p)
    <2>1. pc[p] \in Critical /\ Inside
      BY <1>6 DEF Mark, TruncSaved, Goto, Critical, lockVars
    <2>2. QED
      BY <1>1, <2>1
  <1>7. CASE RemoveJsonl(p) \/ RemoveMeta(p) \/ Uncache(p)
    <2>1. pc[p] \in Critical /\ Inside
      BY <1>7 DEF RemoveJsonl, RemoveMeta, Uncache, Goto, Critical, lockVars
    <2>2. QED
      BY <1>1, <2>1
  <1>8. QED
    BY <1>2, <1>3, <1>4, <1>5, <1>6, <1>7

LEMMA GetLockStep ==
  ASSUME LockInv, NEW p \in Procs, GetLock(p)
  PROVE  LockInv'
  <1> USE ConstantFacts DEF LockInv
  <1>1. /\ pc[p] = "next" /\ todo[p] # <<>> /\ mu[p] = None
        /\ pc' = [pc EXCEPT ![p] = "lock"]
        /\ UNCHANGED <<owner, todo, crossed>>
    BY DEF GetLock, Goto, Fetched, Outside
  <1>2. PICK m \in Mutexes :
          /\ mu' = [mu EXCEPT ![p] = m]
          /\ locks' = m
          /\ locks = m \/ (locks = None /\ \A q \in Procs : mu[q] # m)
    <2>1. CASE locks # None
      BY <2>1 DEF GetLock, LockTypes
    <2>2. CASE locks = None
      <3> DEFINE x == CHOOSE x \in Mutexes : \A q \in Procs : mu[q] # x
      <3>1. x \in Mutexes /\ \A q \in Procs : mu[q] # x
        BY <1>1, FreshMutex
      <3>2. locks' = x /\ mu' = [mu EXCEPT ![p] = x]
        BY <2>2 DEF GetLock
      <3>3. QED
        BY <2>2, <3>1, <3>2
    <2>3. QED
      BY <2>1, <2>2
  <1>3. LockTypes'
    BY <1>1, <1>2 DEF LockTypes
  <1>4. Owners' /\ Fetched'
    BY <1>1, <1>2 DEF LockTypes, Owners, Fetched, Outside
  <1>5. OneMutex'
    BY <1>1, <1>2 DEF LockTypes, OneMutex
  <1>6. QED
    BY <1>3, <1>4, <1>5

LEMMA LockStep ==
  ASSUME LockInv, NEW p \in Procs, Lock(p)
  PROVE  LockInv'
  <1> USE ConstantFacts DEF LockInv
  <1>1. /\ pc[p] = "lock" /\ mu[p] \in Mutexes /\ owner[mu[p]] = None
        /\ owner' = [owner EXCEPT ![mu[p]] = p]
        /\ UNCHANGED <<locks, mu, todo, crossed>>
    BY DEF Lock, Fetched, LockTypes
  <1>2. PICK l \in Critical : pc' = [pc EXCEPT ![p] = l]
    BY <1>1, TailTypes DEF Lock, Goto
  <1>3. LockTypes'
    BY <1>1, <1>2 DEF LockTypes
  <1>4. Owners' /\ Fetched' /\ OneMutex'
    BY <1>1, <1>2 DEF LockTypes, Owners, Fetched, OneMutex
  <1>5. QED
    BY <1>3, <1>4

\* The mutex leaves the map: from here on there may be two.
LEMMA DropLockStep ==
  ASSUME LockInv, NEW p \in Procs, DropLock(p)
  PROVE  LockInv'
  <1> USE ConstantFacts DEF LockInv
  <1>1. /\ pc[p] \in Critical /\ pc[p] \notin Outside
        /\ locks' = None
        /\ crossed' = (crossed \/ \E q \in Procs \ {p} : mu[q] # None)
        /\ Unlock(p, Tail(todo[p]))
    BY DEF DropLock, Critical
  <1>2. /\ Tail(todo[p]) \in Seq({"create", "append", "delete", "read"})
        /\ "next" \in Outside
    BY <1>1, TailTypes DEF Outside
  <1>3. LockTypes'
    BY <1>1, <1>2 DEF LockTypes, Owners, Unlock, Goto
  <1>4. Owners' /\ Fetched'
    BY <1>1, <1>2 DEF LockTypes, Owners, Fetched, Unlock, Goto
  <1>5. OneMutex'
    BY <1>1 DEF LockTypes, OneMutex, Unlock
  <1>6. QED
    BY <1>3, <1>4, <1>5

LEMMA RestartStep ==
  ASSUME LockInv, Restart
  PROVE  LockInv'
  <1> USE ConstantFacts DEF LockInv
  <1>1. /\ locks' = None /\ \A m \in Mutexes : owner'[m] = None
        /\ \A p \in Procs : mu'[p] = None /\ pc'[p] \in Outside /\ todo'[p] = <<>>
        /\ crossed' = crossed
    BY DEF Restart, Outside
  <1>2. LockTypes'
    BY <1>1 DEF Restart, LockTypes
  <1>3. QED
    BY <1>1, <1>2 DEF Owners, Fetched, OneMutex

LEMMA CleanStep ==
  ASSUME LockInv, CleanExpired
  PROVE  LockInv'
  <1>1. /\ Cleaner \in Procs /\ pc[Cleaner] \in Outside
        /\ pc' = [pc EXCEPT ![Cleaner] = pc[Cleaner]]
        /\ <<"delete">> \in Seq({"create", "append", "delete", "read"})
    BY DEF CleanExpired, Outside, Procs, LockInv, LockTypes
  <1>2. QED
    BY <1>1, OutsideStep DEF CleanExpired

LEMMA LockInvStep == LockInv /\ [Next]_vars => LockInv'
  <1> SUFFICES ASSUME LockInv, [Next]_vars
               PROVE  LockInv'
    OBVIOUS
  <1>1. ASSUME NEW p \in Requests, NEW a \in Articles \cup {None}, Arrive(p, a)
        PROVE  LockInv'
    BY <1>1, OutsideSteps DEF Procs
  <1>2. ASSUME NEW p \in Procs, Step(p)
        PROVE  LockInv'
    BY <1>2, OutsideSteps, SectionSteps, GetLockStep, DropLockStep DEF Step
  <1>3. ASSUME NEW p \in Procs, Lock(p)
        PROVE  LockInv'
    BY <1>3, LockStep
  <1>4. CASE CleanExpired
    BY <1>4, CleanStep
  <1>5. CASE Restart
    BY <1>5, RestartStep
  <1>6. CASE Tick \/ UNCHANGED vars
    BY <1>6 DEF Tick, vars, lockVars, LockInv, LockTypes, Owners, Fetched, OneMutex
  <1>7. QED
    BY <1>1, <1>2, <1>3, <1>4, <1>5, <1>6 DEF Next

LEMMA LockAlways == Spec => []LockInv
  BY InitLock, LockInvStep, PTL DEF Spec

\* The sections of a session exclude each other.
LEMMA Alone ==
  ASSUME LockInv, ~ crossed, NEW p \in Procs, NEW q \in Procs,
         pc[p] \in Critical, pc[q] \in Critical
  PROVE  p = q
  <1>1. mu[p] = locks /\ mu[q] = locks
    BY DEF LockInv, Owners, OneMutex
  <1>2. owner[locks] = p /\ owner[locks] = q
    BY <1>1 DEF LockInv, Owners
  <1>3. QED
    BY <1>2

\* For any number of requests: as long as no Delete (store.go:212) has dropped
\* a mutex that another call had fetched, the sections of a session exclude
\* each other, though the mutex in the map comes and goes.
THEOREM SectionsExclude == Spec => []LockDiscipline
  <1>1. LockInv => LockDiscipline
    BY Alone DEF LockDiscipline
  <1>2. QED
    BY <1>1, LockAlways, PTL

\* For any number of requests: whoever waits for a mutex waits for a call that
\* is inside its section, whatever was deleted or restarted meanwhile.
THEOREM NoOrphanedLock == Spec => []WaitersServed
  <1>1. LockInv => WaitersServed
    <2> SUFFICES ASSUME LockInv, NEW p \in Procs,
                        pc[p] = "lock", owner[mu[p]] # None
                 PROVE  /\ pc[owner[mu[p]]] \in Critical
                        /\ mu[owner[mu[p]]] = mu[p]
      BY DEF WaitersServed
    <2>1. mu[p] \in Mutexes
      BY ConstantFacts DEF LockInv, LockTypes, Fetched
    <2>2. QED
      BY <2>1 DEF LockInv, Owners
  <1>2. QED
    BY <1>1, LockAlways, PTL
-----------------------------------------------------------------------------
(* What is in the variables.                                               *)

Calls == {"create", "append", "delete", "read"}

LEMMA StoreFacts ==
  /\ Cleaner \in Procs /\ Cleaner \notin Requests /\ Requests \subseteq Procs
  /\ Procs = Requests \cup {Cleaner}
  /\ None \notin Meta /\ None \notin CachedMeta /\ None \notin Articles
  /\ Corrupt \notin Meta /\ Corrupt # None
  /\ None \notin Seq(Line) /\ <<>> \in Seq(Line)
  /\ Torn \in Line /\ Junk \in Line /\ Torn # Junk
  /\ \A t \in Turn, i \in {1, 2} : <<t, i>> \in Line \ {Torn, Junk}
  /\ MaxTime \in Nat /\ MaxFaults \in Nat
  <1>1. <<>> \in Seq(Line)
    OBVIOUS
  <1>2. QED
    BY <1>1, StoreAssumption DEF Procs, Line

\* What is written to the file, and what stays of the lines before.
LEMMA FileFacts ==
  ASSUME NEW f \in Seq(Line), NEW x \in Line \ {Torn, Junk}
  PROVE  /\ AddLine(f, x) \in Seq(Line)
         /\ AddLine(f, x) # None
         /\ Len(f) \in Nat /\ Len(AddLine(f, x)) \in Nat
         /\ Len(AddLine(f, x)) >= Len(f)
         /\ \A k \in 1..Len(f) : f[k] # Torn => AddLine(f, x)[k] = f[k]
         /\ Len(AddLine(f, x)) > 0
         /\ AddLine(f, x)[Len(AddLine(f, x))] \in {x, Junk}
         /\ ~ EndsTorn(f) => AddLine(f, x) = Append(f, x)
         /\ Damaged(AddLine(f, x)) = Damaged(f)
  <1> USE StoreFacts
  <1>1. Len(f) \in Nat /\ (f = <<>> <=> Len(f) = 0)
    OBVIOUS
  <1>2. CASE EndsTorn(f)
    <2> DEFINE g == [f EXCEPT ![Len(f)] = Junk]
    <2>1. f[Len(f)] = Torn /\ Len(f) \in 1..Len(f) /\ AddLine(f, x) = g
      BY <1>1, <1>2 DEF EndsTorn, AddLine
    <2>2. /\ g \in Seq(Line) /\ Len(g) = Len(f) /\ g[Len(f)] = Junk
          /\ \A k \in 1..Len(f) : k # Len(f) => g[k] = f[k]
      BY <2>1
    <2> HIDE DEF g
    <2>3. Damaged(g) = Damaged(f)
      BY <2>1, <2>2 DEF Damaged
    <2>4. \A k \in 1..Len(f) : f[k] # Torn => g[k] = f[k]
      BY <2>1, <2>2
    <2>5. QED
      BY <1>1, <1>2, <2>1, <2>2, <2>3, <2>4
  <1>3. CASE ~ EndsTorn(f)
    <2> DEFINE g == Append(f, x)
    <2>1. AddLine(f, x) = g
      BY <1>3 DEF AddLine
    <2>2. /\ g \in Seq(Line) /\ Len(g) = Len(f) + 1 /\ g[Len(f) + 1] = x
          /\ \A k \in 1..Len(f) : g[k] = f[k]
      BY <1>1
    <2>5. g = Append(f, x)
      OBVIOUS
    <2> HIDE DEF g
    <2>3. Damaged(g) = Damaged(f)
      BY <1>1, <2>2 DEF Damaged
    <2>4. g # None /\ Len(g) > 0 /\ Len(g) >= Len(f) /\ Len(g) \in Nat
      BY <1>1, <2>2
    <2>6. QED
      BY <1>1, <2>1, <2>2, <2>3, <2>4, <2>5
  <1>4. QED
    BY <1>2, <1>3

LEMMA TearFacts ==
  ASSUME NEW f \in Seq(Line)
  PROVE  /\ Tear(f) \in Seq(Line) /\ Tear(f) # None
         /\ Len(f) \in Nat /\ Len(Tear(f)) \in Nat /\ Len(Tear(f)) >= Len(f)
         /\ \A k \in 1..Len(f) : Tear(f)[k] = f[k]
         /\ Damaged(Tear(f)) \subseteq Damaged(f) \cup {Len(f) + 1}
  <1> USE StoreFacts
  <1>1. Len(f) \in Nat
    OBVIOUS
  <1>2. CASE EndsTorn(f)
    BY <1>1, <1>2 DEF Tear
  <1>3. CASE ~ EndsTorn(f)
    <2> DEFINE h == Append(f, Torn)
    <2>1. Tear(f) = h
      BY <1>3 DEF Tear
    <2>2. /\ h \in Seq(Line) /\ Len(h) = Len(f) + 1
          /\ \A k \in 1..Len(f) : h[k] = f[k]
      BY <1>1
    <2> HIDE DEF h
    <2>3. Damaged(h) \subseteq Damaged(f) \cup {Len(f) + 1}
      BY <1>1, <2>2 DEF Damaged
    <2>4. h # None /\ Len(h) >= Len(f) /\ Len(h) \in Nat
      BY <1>1, <2>2
    <2>5. QED
      BY <1>1, <2>1, <2>2, <2>3, <2>4
  <1>4. QED
    BY <1>2, <1>3

LEMMA CreatesFacts ==
  /\ ~ Creates(<<>>) /\ ~ Creates(<<"delete">>)
  /\ \A s \in Seq(Calls) : s # <<>> =>
       /\ Creates(Tail(s)) => Creates(s)
       /\ Head(s) = "create" => Creates(s)
  /\ \A p, a : \A s \in Scripts(p, a) : Creates(s) => art[p] # None
  <1>1. ~ Creates(<<>>) /\ ~ Creates(<<"delete">>)
    BY DEF Creates
  <1>2. ASSUME NEW s \in Seq(Calls), s # <<>>
        PROVE  /\ Creates(Tail(s)) => Creates(s)
               /\ Head(s) = "create" => Creates(s)
    <2>1. /\ Len(s) \in Nat /\ 1 \in 1..Len(s) /\ Head(s) = s[1]
          /\ Len(Tail(s)) = Len(s) - 1
          /\ \A i \in 1..Len(Tail(s)) : Tail(s)[i] = s[i + 1] /\ i + 1 \in 1..Len(s)
      BY <1>2
    <2>2. QED
      BY <2>1 DEF Creates
  <1>3. ASSUME NEW p, NEW a, NEW s \in Scripts(p, a), Creates(s), art[p] = None
        PROVE  FALSE
    <2>1. s \in {<<>>, <<"read", "append">>, <<"append">>, <<"append", "append">>, <<"read">>}
      BY <1>3 DEF Scripts
    <2>2. \A i \in 1..Len(s) : s[i] # "create"
      BY <2>1
    <2>3. QED
      BY <1>3, <2>2 DEF Creates
  <1>4. QED
    BY <1>1, <1>2, <1>3

LEMMA InitShape == Init => Shape
  <1> SUFFICES ASSUME Init
               PROVE  Shape
    OBVIOUS
  <1> USE StoreFacts
  <1>1. LockInv
    BY InitLock
  <1>2. /\ \A p \in Procs : pc[p] \in {"new", "next"} /\ todo[p] = <<>> /\ copy[p] = None
        /\ pc[Cleaner] = "next"
    BY DEF Init
  <1>3. metaFile \in Meta \cup {None, Corrupt}
    BY DEF Init, Meta
  <1>4. jsonl = None \/ jsonl \in Seq(Line)
    BY DEF Init
  <1>5. /\ metas = None /\ art \in [Procs -> Articles \cup {None}]
        /\ copy \in [Procs -> Meta \cup {None}]
        /\ now = 0 /\ crashes = 0 /\ errors = 0
        /\ gone = {} /\ acked = {} /\ crossed = FALSE
    BY DEF Init
  <1>50. StoreTypes
    <2>1. 0 \in 0..MaxTime /\ 0 \in 0..MaxFaults
      OBVIOUS
    <2>2. QED
      BY <1>3, <1>4, <1>5, <2>1, Zenon DEF StoreTypes
  <1>6. Scripted /\ Copied /\ Opened
    BY <1>2, CreatesFacts DEF Scripted, Copied, Opened, HasCopy
  <1>7. QED
    BY <1>1, <1>50, <1>6 DEF Shape

\* The scripts, step by step: p goes on, or unlocks, or is told what to do.
LEMMA ScriptedOn ==
  ASSUME LockInv, Scripted, UNCHANGED <<todo, art>>,
         NEW p \in Procs, NEW l, pc' = [pc EXCEPT ![p] = l], l \notin {"new", "create"},
         p = Cleaner => l \in {"next", "lock", "delete", "rmmeta", "uncache", "droplock"}
  PROVE  Scripted'
  BY StoreFacts DEF Scripted, Creates, LockInv, LockTypes

LEMMA ScriptedUnlock ==
  ASSUME LockInv, Scripted, UNCHANGED art, NEW p \in Procs, pc[p] \notin Outside,
         NEW rest \in {<<>>, Tail(todo[p])}, Unlock(p, rest)
  PROVE  Scripted'
  <1> USE StoreFacts DEF Scripted, LockInv, LockTypes, Unlock, Goto
  <1>1. todo[p] \in Seq(Calls) /\ todo[p] # <<>>
    BY DEF Calls
  <1>2. Creates(rest) => art[p] # None
    <2>1. ~ Creates(<<>>) /\ (Creates(Tail(todo[p])) => Creates(todo[p]))
      BY <1>1, CreatesFacts
    <2>2. Creates(todo[p]) => art[p] # None
      OBVIOUS
    <2>3. CASE rest = <<>>
      BY <2>1, <2>3
    <2>4. CASE rest = Tail(todo[p])
      BY <2>1, <2>2, <2>4
    <2>5. QED
      BY <2>3, <2>4
  <1>3. p = Cleaner => rest = <<>>
    <2>1. Tail(<<"delete">>) = <<>>
      OBVIOUS
    <2>2. QED
      BY <1>1, <2>1
  <1>4. /\ pc'[p] = "next" /\ todo'[p] = rest
        /\ \A q \in Procs \ {p} : pc'[q] = pc[q] /\ todo'[q] = todo[q]
    OBVIOUS
  <1>5. pc'[Cleaner] \in {"next", "lock", "delete", "rmmeta", "uncache", "droplock"}
        /\ todo'[Cleaner] \in {<<>>, <<"delete">>}
    BY <1>3, <1>4
  <1>6. ASSUME NEW q \in Procs
        PROVE  /\ pc'[q] = "new" => todo'[q] = <<>>
               /\ pc'[q] = "create" \/ Creates(todo'[q]) => art[q] # None
    BY <1>2, <1>4
  <1>7. QED
    BY <1>5, <1>6 DEF Creates

LEMMA ScriptedAnswer ==
  ASSUME LockInv, Scripted, UNCHANGED art, NEW p \in Procs \ {Cleaner}, NEW a, Answer(p, a)
  PROVE  Scripted'
  <1> USE StoreFacts DEF Scripted, LockInv, LockTypes, Answer, Goto
  <1>1. PICK script \in Scripts(p, a) : todo' = [todo EXCEPT ![p] = script]
    OBVIOUS
  <1>2. Creates(script) => art[p] # None
    BY CreatesFacts
  <1>3. /\ pc'[p] = "next" /\ todo'[p] = script
        /\ \A q \in Procs \ {p} : pc'[q] = pc[q] /\ todo'[q] = todo[q]
    BY <1>1
  <1>4. ASSUME NEW q \in Procs
        PROVE  /\ pc'[q] = "new" => todo'[q] = <<>>
               /\ pc'[q] = "create" \/ Creates(todo'[q]) => art[q] # None
    BY <1>2, <1>3
  <1>5. QED
    BY <1>3, <1>4 DEF Creates

\* Who is writing.
LEMMA WriterFacts ==
  ASSUME Shape, NEW p \in Procs
  PROVE  /\ p # Cleaner /\ pc[p] \notin Outside => TurnOf(p) \in Turn
         /\ pc[p] \in Writing => p \in Requests /\ TurnOf(p) \in Turn
         /\ pc[p] \in {"write1", "write2"} /\ p \notin gone =>
              /\ jsonl \in Seq(Line) /\ jsonl # None
              /\ \A i \in {1, 2} : <<TurnOf(p), i>> \in Line \ {Torn, Junk}
  <1> USE StoreFacts
  <1>1. todo[p] \in Seq(Calls)
    BY DEF Shape, LockInv, LockTypes, Calls
  <1>2. Len(todo[p]) \in Nat
    BY <1>1
  <1>3. p # Cleaner => p \in Requests /\ TurnOf(p) \in Turn
    BY <1>2 DEF TurnOf, Turn
  <1>4. pc[p] \in Writing => p # Cleaner
    BY DEF Shape, Scripted, Writing
  <1>5. QED
    BY <1>3, <1>4 DEF Shape, Opened, StoreTypes, Writing

\* What a restart makes of the file.
LEMMA RestartFile ==
  ASSUME Shape, Restart
  PROVE  \/ UNCHANGED jsonl
         \/ /\ jsonl \in Seq(Line) /\ jsonl' \in Seq(Line) /\ jsonl' = Tear(jsonl)
            /\ jsonl' # None /\ Len(jsonl') >= Len(jsonl)
            /\ \A k \in 1..Len(jsonl) : jsonl'[k] = jsonl[k]
  <1>1. CASE UNCHANGED jsonl
    BY <1>1
  <1>2. CASE /\ \E p \in Requests \ gone : pc[p] \in {"write1", "write2"}
             /\ jsonl' = Tear(jsonl)
    <2>1. jsonl \in Seq(Line)
      BY <1>2, StoreFacts, WriterFacts
    <2>2. QED
      BY <1>2, <2>1, TearFacts
  <1>3. QED
    BY <1>1, <1>2 DEF Restart

LEMMA StoreTypesStep ==
  ASSUME Shape, [Next]_vars
  PROVE  StoreTypes'
  <1> USE StoreFacts DEF Shape
  <1>1. CASE UNCHANGED vars
    BY <1>1 DEF StoreTypes, vars, diskVars, boundVars
  <1>2. ASSUME NEW p \in Requests, NEW a \in Articles \cup {None}, Arrive(p, a)
        PROVE  StoreTypes'
    BY <1>2 DEF Arrive, StoreTypes, diskVars, boundVars
  <1>3. ASSUME NEW p \in Procs,
               LoadMeta(p) \/ GetLock(p) \/ Return(p) \/ Lock(p) \/ ReadMessages(p)
        PROVE  StoreTypes'
    BY <1>3 DEF LoadMeta, GetLock, Return, Lock, ReadMessages,
                StoreTypes, diskVars, boundVars
  <1>4. ASSUME NEW p \in Procs, ReadMeta(p)
        PROVE  StoreTypes'
    BY <1>4 DEF ReadMeta, StoreTypes, diskVars, boundVars
  <1>5. ASSUME NEW p \in Procs, StoreMeta(p)
        PROVE  StoreTypes'
    <2>1. copy[p] \in Meta
      BY <1>5 DEF StoreMeta, Copied, HasCopy
    <2>2. metas' \in CachedMeta
      BY <1>5, <2>1 DEF StoreMeta, Meta, CachedMeta
    <2>3. QED
      BY <1>5, <2>2 DEF StoreMeta, StoreTypes, diskVars, boundVars
  <1>6. ASSUME NEW p \in Procs, TruncMeta(p)
        PROVE  StoreTypes'
    <2>1. art[p] \in Articles
      BY <1>6 DEF TruncMeta, Scripted, StoreTypes
    <2>2. [art |-> art[p], active |-> now] \in Meta
      BY <2>1 DEF StoreTypes, Meta
    <2>3. /\ metaFile' \in Meta \cup {None, Corrupt}
          /\ copy' \in [Procs -> Meta \cup {None}]
          /\ errors' \in 0..MaxFaults
      BY <1>6, <2>2 DEF TruncMeta, Fail, StoreTypes, boundVars
    <2>4. QED
      BY <1>6, <2>3 DEF TruncMeta, Fail, StoreTypes, boundVars
  <1>7. ASSUME NEW p \in Procs, FillMeta(p)
        PROVE  StoreTypes'
    <2>1. copy[p] \in Meta
      BY <1>7 DEF FillMeta, Copied, HasCopy
    <2>2. /\ metaFile' \in Meta \cup {None, Corrupt}
          /\ copy' \in [Procs -> Meta \cup {None}]
          /\ errors' \in 0..MaxFaults
      BY <1>7, <2>1 DEF FillMeta, Fail, StoreTypes, boundVars
    <2>3. QED
      BY <1>7, <2>2 DEF FillMeta, Fail, StoreTypes, boundVars
  <1>8. ASSUME NEW p \in Procs, NewFile(p)
        PROVE  StoreTypes'
    <2>1. /\ copy' \in [Procs -> Meta \cup {None}]
          /\ errors' \in 0..MaxFaults
          /\ acked' \subseteq Turn
      BY <1>8 DEF NewFile, Fail, StoreTypes, boundVars
    <2>2. jsonl' = None \/ jsonl' \in Seq(Line)
      BY <1>8 DEF NewFile, StoreTypes
    <2>3. QED
      BY <1>8, <2>1, <2>2 DEF NewFile, Fail, StoreTypes, boundVars
  <1>9. ASSUME NEW p \in Procs, CacheMeta(p)
        PROVE  StoreTypes'
    <2>1. copy[p] \in Meta
      BY <1>9 DEF CacheMeta, Copied, HasCopy
    <2>2. metas' \in CachedMeta
      BY <1>9, <2>1 DEF CacheMeta, Meta, CachedMeta
    <2>3. QED
      BY <1>9, <2>2 DEF CacheMeta, StoreTypes, diskVars, boundVars
  <1>10. ASSUME NEW p \in Procs, Open(p)
         PROVE  StoreTypes'
    <2>1. jsonl' = None \/ jsonl' \in Seq(Line)
      BY <1>10 DEF Open, StoreTypes
    <2>2. errors' \in 0..MaxFaults /\ gone' \subseteq Requests
      BY <1>10 DEF Open, Fail, StoreTypes, boundVars
    <2>3. QED
      BY <1>10, <2>1, <2>2 DEF Open, Fail, StoreTypes, boundVars
  <1>11. ASSUME NEW p \in Procs, NEW i \in {1, 2}, Write(p, i)
         PROVE  StoreTypes'
    <2>1. p \in Procs /\ pc[p] \in {"write1", "write2"}
      BY <1>11 DEF Write
    <2>2. jsonl' = None \/ jsonl' \in Seq(Line)
      <3>1. CASE jsonl' = jsonl
        BY <3>1 DEF StoreTypes
      <3>2. CASE p \notin gone /\ jsonl' \in {AddLine(jsonl, <<TurnOf(p), i>>), Tear(jsonl)}
        <4>1. jsonl \in Seq(Line) /\ <<TurnOf(p), i>> \in Line \ {Torn, Junk}
          BY <2>1, <3>2, WriterFacts
        <4>2. /\ AddLine(jsonl, <<TurnOf(p), i>>) \in Seq(Line)
              /\ Tear(jsonl) \in Seq(Line)
          BY <4>1, FileFacts, TearFacts
        <4>3. QED
          BY <3>2, <4>2
      <3>3. QED
        BY <1>11, <3>1, <3>2 DEF Write
    <2>3. errors' \in 0..MaxFaults
      BY <1>11 DEF Write, Fail, StoreTypes, boundVars
    <2>4. QED
      BY <1>11, <2>2, <2>3 DEF Write, Fail, StoreTypes, boundVars
  <1>12. ASSUME NEW p \in Procs, Touch(p)
         PROVE  StoreTypes'
    <2>1. p \in Requests
      BY <1>12 DEF Touch, Scripted
    <2>2. CASE metas = None
      <3>1. TurnOf(p) \in Turn
        BY <1>12, WriterFacts DEF Touch, Writing
      <3>2. acked' \subseteq Turn
        BY <1>12, <2>2, <3>1 DEF Touch, Ack, StoreTypes
      <3>3. QED
        BY <1>12, <2>2, <3>2 DEF Touch, StoreTypes, diskVars, boundVars
    <2>3. CASE metas # None
      <3>1. metas.art \in Articles /\ metas \in CachedMeta
        BY <2>3 DEF StoreTypes, CachedMeta
      <3>2. [art |-> metas.art, active |-> now] \in Meta
        BY <3>1 DEF StoreTypes, Meta
      <3>3. metas' \in CachedMeta
        BY <1>12, <2>3, <3>1 DEF Touch, StoreTypes, CachedMeta
      <3>4. copy' \in [Procs -> Meta \cup {None}]
        BY <1>12, <2>3, <3>2 DEF Touch, StoreTypes
      <3>5. QED
        BY <1>12, <2>3, <3>3, <3>4 DEF Touch, StoreTypes, diskVars, boundVars
    <2>4. QED
      BY <2>2, <2>3
  <1>13. ASSUME NEW p \in Procs, Mark(p)
         PROVE  StoreTypes'
    <2>1. copy[p] \in Meta /\ copy[p].active \in 0..MaxTime
      BY <1>13 DEF Mark, Copied, HasCopy, Meta
    <2>2. metas' \in CachedMeta \cup {None}
      BY <1>13, <2>1 DEF Mark, StoreTypes, CachedMeta
    <2>3. QED
      BY <1>13, <2>2 DEF Mark, StoreTypes, diskVars, boundVars
  <1>14. ASSUME NEW p \in Procs, TruncSaved(p) \/ RemoveMeta(p)
         PROVE  StoreTypes'
    BY <1>14 DEF TruncSaved, RemoveMeta, IgnoredError, StoreTypes, boundVars
  <1>15. ASSUME NEW p \in Procs, Save(p)
         PROVE  StoreTypes'
    <2>1. TurnOf(p) \in Turn /\ copy[p] \in Meta
      BY <1>15, WriterFacts DEF Save, Copied, HasCopy, Writing
    <2>2. /\ metaFile' \in Meta \cup {None, Corrupt}
          /\ copy' \in [Procs -> Meta \cup {None}]
          /\ errors' \in 0..MaxFaults
          /\ acked' \subseteq Turn
      BY <1>15, <2>1 DEF Save, IgnoredError, Ack, StoreTypes, boundVars
    <2>3. QED
      BY <1>15, <2>2 DEF Save, IgnoredError, StoreTypes, boundVars
  <1>16. ASSUME NEW p \in Procs, RemoveJsonl(p)
         PROVE  StoreTypes'
    BY <1>16 DEF RemoveJsonl, Unlink, IgnoredError, StoreTypes, boundVars
  <1>17. ASSUME NEW p \in Procs, Uncache(p) \/ DropLock(p)
         PROVE  StoreTypes'
    BY <1>17 DEF Uncache, DropLock, StoreTypes, diskVars, boundVars
  <1>18. CASE CleanExpired
    BY <1>18 DEF CleanExpired, StoreTypes, diskVars, boundVars
  <1>19. CASE Tick
    BY <1>19 DEF Tick, StoreTypes, diskVars
  <1>20. CASE Restart
    <2>1. jsonl' = None \/ jsonl' \in Seq(Line)
      BY <1>20, RestartFile DEF StoreTypes
    <2>2. crashes' \in 0..MaxFaults /\ copy' \in [Procs -> Meta \cup {None}]
      BY <1>20 DEF Restart, StoreTypes
    <2>3. QED
      BY <1>20, <2>1, <2>2 DEF Restart, StoreTypes
  <1>21. QED
    BY <1>1, <1>2, <1>3, <1>4, <1>5, <1>6, <1>7, <1>8, <1>9, <1>10, <1>11, <1>12,
       <1>13, <1>14, <1>15, <1>16, <1>17, <1>18, <1>19, <1>20 DEF Next, Step

LEMMA ScriptedStep ==
  ASSUME Shape, [Next]_vars
  PROVE  Scripted'
  <1> USE StoreFacts DEF Shape
  <1> DEFINE Places == {"next", "lock", "delete", "rmmeta", "uncache", "droplock"}
  <1>0. /\ pc \in [Procs -> Critical \cup Outside \cup {"lock"}]
        /\ pc[Cleaner] \in Places
        /\ \A p \in Procs : pc[p] \in Critical => pc[p] \notin Outside
    BY ConstantFacts DEF LockInv, LockTypes, Scripted
  <1>1. CASE UNCHANGED vars \/ Tick
    BY <1>1 DEF vars, Tick, Scripted, Creates
  <1>2. ASSUME NEW p \in Requests, NEW a \in Articles \cup {None}, Arrive(p, a)
        PROVE  Scripted'
    <2>1. /\ pc[p] = "new" /\ todo[p] = <<>> /\ todo' = todo
          /\ p # Cleaner
          /\ pc' = [pc EXCEPT ![p] = "meta"] /\ art' = [art EXCEPT ![p] = a]
      BY <1>2 DEF Arrive, Goto, Scripted
    <2>2. ~ Creates(todo[p])
      BY <2>1, CreatesFacts
    <2>3. \A q \in Procs \ {p} : pc'[q] = pc[q] /\ art'[q] = art[q]
      BY <1>0, <2>1 DEF StoreTypes
    <2>4. pc'[p] = "meta"
      BY <1>0, <2>1
    <2>5. \A q \in Procs : Creates(todo[q])' <=> Creates(todo[q])
      BY <2>1 DEF Creates
    <2>6. QED
      BY <1>0, <2>1, <2>2, <2>3, <2>4, <2>5 DEF Scripted
  <1>3. ASSUME NEW p \in Procs, NEW l \in Critical \cup Outside \cup {"lock"}, Goto(p, l),
               l \notin {"new", "create"}, p = Cleaner => l \in Places,
               todo' = todo, art' = art
        PROVE  Scripted'
    BY <1>3, ScriptedOn DEF Goto
  <1>4. ASSUME NEW p \in Procs, UNCHANGED art, pc[p] \in Critical,
               Unlock(p, <<>>) \/ Unlock(p, Tail(todo[p]))
        PROVE  Scripted'
    BY <1>0, <1>4, ScriptedUnlock
  <1>5. ASSUME NEW p \in Procs, UNCHANGED art, NEW a, Answer(p, a), pc[p] \notin Places
        PROVE  Scripted'
    BY <1>0, <1>5, ScriptedAnswer
  <1>6. ASSUME NEW p \in Procs, LoadMeta(p)
        PROVE  Scripted'
    <2>1. pc[p] = "meta" /\ p # Cleaner /\ art' = art
      BY <1>0, <1>6 DEF LoadMeta
    <2>2. CASE \E a : Answer(p, a)
      BY <1>5, <2>1, <2>2
    <2>3. CASE Goto(p, "readMeta") /\ UNCHANGED todo
      BY <1>3, <2>1, <2>3 DEF Outside
    <2>4. QED
      BY <1>6, <2>2, <2>3 DEF LoadMeta
  <1>7. ASSUME NEW p \in Procs, ReadMeta(p)
        PROVE  Scripted'
    <2>1. pc[p] = "readMeta" /\ p # Cleaner /\ art' = art
      BY <1>0, <1>7 DEF ReadMeta
    <2>2. CASE Answer(p, None)
      BY <1>5, <2>1, <2>2
    <2>3. CASE Goto(p, "storeMeta") /\ UNCHANGED todo
      BY <1>3, <2>1, <2>3 DEF Outside
    <2>4. QED
      BY <1>7, <2>2, <2>3 DEF ReadMeta
  <1>8. ASSUME NEW p \in Procs, StoreMeta(p)
        PROVE  Scripted'
    BY <1>5, <1>8 DEF StoreMeta
  <1>9. ASSUME NEW p \in Procs, Return(p) \/ GetLock(p)
        PROVE  Scripted'
    <2>1. todo' = todo /\ art' = art
      BY <1>9 DEF Return, GetLock
    <2>2. (p # Cleaner /\ Goto(p, "done")) \/ Goto(p, "lock")
      BY <1>9 DEF Return, GetLock
    <2>3. QED
      BY <1>3, <2>1, <2>2 DEF Outside
  <1>10. ASSUME NEW p \in Procs, Lock(p)
         PROVE  Scripted'
    <2>1. /\ pc[p] = "lock" /\ todo' = todo /\ art' = art
          /\ Goto(p, Head(todo[p]))
      BY <1>10 DEF Lock
    <2>2. todo[p] \in Seq(Calls) /\ todo[p] # <<>>
      BY <2>1 DEF LockInv, LockTypes, Outside, Calls
    <2>3. Head(todo[p]) \in Calls /\ (Head(todo[p]) = "create" => art[p] # None)
      BY <2>2, CreatesFacts DEF Scripted
    <2>4. p = Cleaner => Head(todo[p]) \in Places
      BY <2>2 DEF Scripted
    <2>5. CASE Head(todo[p]) # "create"
      BY <1>3, <2>1, <2>3, <2>4, <2>5, ConstantFacts DEF Calls
    <2>6. CASE Head(todo[p]) = "create"
      <3>1. p # Cleaner
        BY <2>4, <2>6
      <3>2. pc'[p] = "create" /\ \A q \in Procs \ {p} : pc'[q] = pc[q]
        BY <1>0, <2>1, <2>6 DEF Goto
      <3>3. \A q \in Procs : Creates(todo[q])' <=> Creates(todo[q])
        BY <2>1 DEF Creates
      <3>4. QED
        BY <2>1, <2>3, <2>6, <3>1, <3>2, <3>3 DEF Scripted
    <2>7. QED
      BY <2>5, <2>6
  <1>11. ASSUME NEW p \in Procs, TruncMeta(p) \/ FillMeta(p) \/ NewFile(p) \/ Open(p)
         PROVE  Scripted'
    <2>1. pc[p] \in Critical /\ art' = art /\ pc[p] \notin Places
      BY <1>11 DEF TruncMeta, FillMeta, NewFile, Open, Critical
    <2>2. CASE Unlock(p, <<>>) \/ Unlock(p, Tail(todo[p]))
      BY <1>4, <2>1, <2>2
    <2>3. CASE todo' = todo /\ \E l \in {"fill", "newfile", "cache", "write1"} : Goto(p, l)
      BY <1>0, <1>3, <2>1, <2>3 DEF Critical
    <2>4. QED
      BY <1>11, <2>2, <2>3 DEF TruncMeta, FillMeta, NewFile, Open, Fail
  <1>12. ASSUME NEW p \in Procs, Write(p, 1) \/ Write(p, 2)
         PROVE  Scripted'
    <2>1. pc[p] \in Critical /\ art' = art /\ pc[p] \notin Places
      BY <1>12 DEF Write, Critical
    <2>2. CASE Unlock(p, <<>>) \/ Unlock(p, Tail(todo[p]))
      BY <1>4, <2>1, <2>2
    <2>3. CASE todo' = todo /\ \E l \in {"write2", "touch"} : Goto(p, l)
      BY <1>0, <1>3, <2>1, <2>3 DEF Critical
    <2>4. QED
      BY <1>12, <2>2, <2>3 DEF Write, Fail
  <1>13. ASSUME NEW p \in Procs, CacheMeta(p) \/ ReadMessages(p) \/ Save(p) \/ DropLock(p)
         PROVE  Scripted'
    <2>1. pc[p] \in Critical /\ art' = art
      BY <1>13 DEF CacheMeta, ReadMessages, Save, DropLock, Critical
    <2>2. Unlock(p, <<>>) \/ Unlock(p, Tail(todo[p]))
      BY <1>13 DEF CacheMeta, ReadMessages, Save, DropLock
    <2>3. QED
      BY <1>4, <2>1, <2>2
  <1>14. ASSUME NEW p \in Procs, Touch(p) \/ Mark(p) \/ TruncSaved(p)
         PROVE  Scripted'
    <2>1. pc[p] \in Critical /\ art' = art /\ pc[p] \notin Places
      BY <1>14 DEF Touch, Mark, TruncSaved, Critical
    <2>2. CASE Unlock(p, Tail(todo[p]))
      BY <1>4, <2>1, <2>2
    <2>3. CASE todo' = todo /\ \E l \in {"mark", "trunc", "save"} : Goto(p, l)
      BY <1>0, <1>3, <2>1, <2>3 DEF Critical
    <2>4. QED
      BY <1>14, <2>2, <2>3 DEF Touch, Mark, TruncSaved
  <1>15. ASSUME NEW p \in Procs, RemoveJsonl(p) \/ RemoveMeta(p) \/ Uncache(p)
         PROVE  Scripted'
    <2>1. UNCHANGED <<todo, art>>
          /\ \E l \in {"rmmeta", "uncache", "droplock"} : Goto(p, l)
      BY <1>15 DEF RemoveJsonl, RemoveMeta, Uncache, lockVars
    <2>2. QED
      BY <1>3, <2>1 DEF Critical
  <1>16. CASE CleanExpired
    <2>1. /\ pc' = pc /\ art' = art /\ todo' = [todo EXCEPT ![Cleaner] = <<"delete">>]
      BY <1>16 DEF CleanExpired
    <2>2. /\ todo'[Cleaner] = <<"delete">>
          /\ \A q \in Procs \ {Cleaner} : todo'[q] = todo[q]
      BY <2>1 DEF LockInv, LockTypes
    <2>3. \A q \in Procs : Creates(todo'[q]) => Creates(todo[q])
      BY <2>2, CreatesFacts
    <2>4. QED
      BY <1>0, <2>1, <2>2, <2>3 DEF Scripted, Creates
  <1>17. CASE Restart
    <2>1. /\ \A q \in Procs : todo'[q] = <<>> /\ pc'[q] \in {"new", "next", "done"}
          /\ pc'[Cleaner] = "next"
      BY <1>17 DEF Restart
    <2>2. \A q \in Procs : ~ Creates(todo'[q])
      BY <2>1, CreatesFacts
    <2>3. QED
      BY <2>1, <2>2 DEF Scripted, Creates
  <1>18. QED
    BY <1>1, <1>2, <1>6, <1>7, <1>8, <1>9, <1>10, <1>11, <1>12, <1>13, <1>14, <1>15,
       <1>16, <1>17 DEF Next, Step

\* Who goes where a copy is needed has just made one, and it is nobody else's.
LEMMA CopiedStep ==
  ASSUME Shape, [Next]_vars
  PROVE  Copied'
  <1> USE StoreFacts DEF Shape
  <1>0. /\ pc \in [Procs -> Critical \cup Outside \cup {"lock"}]
        /\ copy \in [Procs -> Meta \cup {None}]
        /\ todo \in [Procs -> Seq(Calls)]
        /\ art \in [Procs -> Articles \cup {None}] /\ now \in 0..MaxTime
        /\ metas \in CachedMeta \cup {None} /\ metaFile \in Meta \cup {None, Corrupt}
    BY DEF LockInv, LockTypes, StoreTypes, Calls
  <1>1. CASE UNCHANGED vars \/ Tick \/ CleanExpired
    BY <1>1 DEF vars, Tick, CleanExpired, Copied
  <1>2. ASSUME NEW p \in Procs, NEW l \in Critical \cup Outside \cup {"lock"}, Goto(p, l),
               \A q \in Procs \ {p} : copy'[q] = copy[q],
               l \in HasCopy => copy'[p] \in Meta
        PROVE  Copied'
    BY <1>0, <1>2 DEF Copied, Goto
  <1>3. ASSUME NEW p \in Procs, Goto(p, "next"), copy' = copy \/ copy' = [copy EXCEPT ![p] = None]
        PROVE  Copied'
    <2>1. \A q \in Procs \ {p} : copy'[q] = copy[q]
      BY <1>0, <1>3
    <2>2. QED
      BY <1>2, <1>3, <2>1 DEF HasCopy, Outside
  <1>4. ASSUME NEW p \in Procs, NEW a \in Articles \cup {None}, Arrive(p, a)
        PROVE  Copied'
    BY <1>2, <1>4 DEF Arrive, HasCopy, Outside
  <1>5. ASSUME NEW p \in Procs, LoadMeta(p)
        PROVE  Copied'
    <2>1. copy' = copy /\ (Goto(p, "next") \/ Goto(p, "readMeta"))
      BY <1>5 DEF LoadMeta, Answer
    <2>2. QED
      BY <1>2, <2>1 DEF HasCopy, Outside
  <1>6. ASSUME NEW p \in Procs, ReadMeta(p)
        PROVE  Copied'
    <2>1. CASE copy' = copy /\ Goto(p, "next")
      BY <1>3, <2>1
    <2>2. CASE /\ metaFile \notin {None, Corrupt} /\ Goto(p, "storeMeta")
               /\ copy' = [copy EXCEPT ![p] = metaFile]
      BY <1>0, <1>2, <2>2 DEF Outside
    <2>3. QED
      BY <1>6, <2>1, <2>2 DEF ReadMeta, Answer
  <1>7. ASSUME NEW p \in Procs, StoreMeta(p) \/ CacheMeta(p) \/ Save(p)
        PROVE  Copied'
    BY <1>3, <1>7 DEF StoreMeta, CacheMeta, Save, Answer, Unlock
  <1>8. ASSUME NEW p \in Procs, Return(p) \/ GetLock(p)
        PROVE  Copied'
    <2>1. copy' = copy /\ (Goto(p, "done") \/ Goto(p, "lock"))
      BY <1>8 DEF Return, GetLock
    <2>2. QED
      BY <1>2, <2>1 DEF HasCopy, Outside
  <1>9. ASSUME NEW p \in Procs, Lock(p)
        PROVE  Copied'
    <2>1. todo[p] # <<>>
      BY <1>9 DEF Lock, LockInv, LockTypes, Outside
    <2>2. Head(todo[p]) \in Calls
      BY <1>0, <2>1
    <2>3. QED
      BY <1>2, <1>9, <2>2, ConstantFacts DEF Lock, HasCopy, Calls
  <1>10. ASSUME NEW p \in Procs, TruncMeta(p)
         PROVE  Copied'
    <2>1. [art |-> art[p], active |-> now] \in Meta
      <3>1. art[p] \in Articles
        BY <1>0, <1>10 DEF TruncMeta, Scripted
      <3>2. QED
        BY <1>0, <3>1 DEF Meta
    <2>2. CASE copy' = copy /\ Goto(p, "next")
      BY <1>3, <2>2
    <2>3. CASE /\ copy' = [copy EXCEPT ![p] = [art |-> art[p], active |-> now]]
               /\ Goto(p, "fill")
      BY <1>0, <1>2, <2>1, <2>3 DEF Critical
    <2>4. QED
      BY <1>10, <2>2, <2>3 DEF TruncMeta, Fail, Unlock
  <1>11. ASSUME NEW p \in Procs, FillMeta(p) \/ NewFile(p)
         PROVE  Copied'
    <2>1. copy[p] \in Meta
      BY <1>11 DEF FillMeta, NewFile, Copied, HasCopy
    <2>2. CASE copy' = [copy EXCEPT ![p] = None] /\ Goto(p, "next")
      BY <1>3, <2>2
    <2>3. CASE copy' = copy /\ (Goto(p, "newfile") \/ Goto(p, "cache"))
      BY <1>2, <2>1, <2>3 DEF Critical
    <2>4. QED
      BY <1>11, <2>2, <2>3 DEF FillMeta, NewFile, Fail, Unlock
  <1>12. ASSUME NEW p \in Procs, ReadMessages(p) \/ DropLock(p)
         PROVE  Copied'
    BY <1>3, <1>12 DEF ReadMessages, DropLock, Unlock
  <1>13. ASSUME NEW p \in Procs, Open(p) \/ Write(p, 1) \/ Write(p, 2)
         PROVE  Copied'
    <2>1. copy' = copy /\ (\/ Goto(p, "write1") \/ Goto(p, "write2")
                           \/ Goto(p, "touch") \/ Goto(p, "next"))
      BY <1>13 DEF Open, Write, Fail, Unlock
    <2>2. QED
      BY <1>2, <2>1 DEF HasCopy, Critical, Outside
  <1>14. ASSUME NEW p \in Procs, Touch(p)
         PROVE  Copied'
    <2>1. CASE copy' = copy /\ Goto(p, "next")
      BY <1>3, <2>1
    <2>2. CASE /\ metas # None
               /\ copy' = [copy EXCEPT ![p] = [art |-> metas.art, active |-> now]]
               /\ Goto(p, "mark") \/ Goto(p, "trunc")
      <3>1. [art |-> metas.art, active |-> now] \in Meta
        BY <1>0, <2>2 DEF Meta, CachedMeta
      <3>2. QED
        BY <1>0, <1>2, <2>2, <3>1 DEF Critical
    <2>3. QED
      BY <1>14, <2>1, <2>2 DEF Touch, Unlock
  <1>15. ASSUME NEW p \in Procs, Mark(p) \/ TruncSaved(p)
         PROVE  Copied'
    <2>1. copy[p] \in Meta /\ copy' = copy /\ (Goto(p, "trunc") \/ Goto(p, "save"))
      BY <1>15 DEF Mark, TruncSaved, Copied, HasCopy
    <2>2. QED
      BY <1>2, <2>1 DEF Critical
  <1>16. ASSUME NEW p \in Procs, RemoveJsonl(p) \/ RemoveMeta(p) \/ Uncache(p)
         PROVE  Copied'
    <2>1. copy' = copy /\ (\/ Goto(p, "rmmeta") \/ Goto(p, "uncache")
                           \/ Goto(p, "droplock"))
      BY <1>16 DEF RemoveJsonl, RemoveMeta, Uncache
    <2>2. QED
      BY <1>2, <2>1 DEF HasCopy, Critical
  <1>17. CASE Restart
    BY <1>17 DEF Restart, Copied, HasCopy
  <1>18. QED
    BY <1>1, <1>4, <1>5, <1>6, <1>7, <1>8, <1>9, <1>10, <1>11, <1>12, <1>13, <1>14,
       <1>15, <1>16, <1>17 DEF Next, Step

LEMMA OpenedStep ==
  ASSUME Shape, [Next]_vars
  PROVE  Opened'
  <1> USE StoreFacts DEF Shape
  <1>0. pc \in [Procs -> Critical \cup Outside \cup {"lock"}]
    BY DEF LockInv, LockTypes
  <1>1. CASE UNCHANGED vars \/ Tick \/ CleanExpired
    BY <1>1 DEF vars, diskVars, Tick, CleanExpired, Opened
  <1>2. ASSUME NEW p \in Procs, NEW l \in Critical \cup Outside \cup {"lock"}, Goto(p, l),
               l \notin {"write1", "write2"}, gone' = gone,
               jsonl' = jsonl \/ jsonl' # None
        PROVE  Opened'
    BY <1>0, <1>2 DEF Opened, Goto
  <1>3. ASSUME NEW p \in Requests, NEW a \in Articles \cup {None}, Arrive(p, a)
        PROVE  Opened'
    BY <1>2, <1>3 DEF Arrive, diskVars, Outside
  <1>4. ASSUME NEW p \in Procs, LoadMeta(p) \/ ReadMeta(p) \/ StoreMeta(p)
        PROVE  Opened'
    <2>1. /\ gone' = gone /\ jsonl' = jsonl
          /\ \E l \in {"next", "readMeta", "storeMeta"} : Goto(p, l)
      BY <1>4 DEF LoadMeta, ReadMeta, StoreMeta, Answer, diskVars
    <2>2. QED
      BY <1>2, <2>1 DEF Outside
  <1>5. ASSUME NEW p \in Procs, Return(p) \/ GetLock(p)
        PROVE  Opened'
    <2>1. gone' = gone /\ jsonl' = jsonl /\ \E l \in {"done", "lock"} : Goto(p, l)
      BY <1>5 DEF Return, GetLock, diskVars
    <2>2. QED
      BY <1>2, <2>1 DEF Outside
  <1>6. ASSUME NEW p \in Procs, Lock(p)
        PROVE  Opened'
    <2>1. todo[p] # <<>> /\ todo[p] \in Seq(Calls)
      BY <1>6 DEF Lock, LockInv, LockTypes, Outside, Calls
    <2>2. Head(todo[p]) \in Calls
      BY <2>1
    <2>3. QED
      BY <1>2, <1>6, <2>2, ConstantFacts DEF Lock, diskVars, Calls
  <1>7. ASSUME NEW p \in Procs,
               \/ TruncMeta(p) \/ FillMeta(p) \/ NewFile(p) \/ CacheMeta(p)
               \/ ReadMessages(p) \/ DropLock(p)
        PROVE  Opened'
    <2>1. /\ gone' = gone /\ (jsonl' = jsonl \/ jsonl' # None)
          /\ \E l \in {"fill", "newfile", "cache", "next"} : Goto(p, l)
      BY <1>7 DEF TruncMeta, FillMeta, NewFile, CacheMeta, ReadMessages, DropLock,
                  Fail, Unlock, diskVars
    <2>2. QED
      BY <1>2, <2>1 DEF Critical, Outside
  <1>8. ASSUME NEW p \in Procs, Open(p)
        PROVE  Opened'
    <2>1. CASE Fail(p, Tail(todo[p])) /\ UNCHANGED <<jsonl, gone>>
      BY <1>2, <2>1 DEF Fail, Unlock, Outside
    <2>2. CASE /\ jsonl' = IF jsonl = None THEN <<>> ELSE jsonl
               /\ gone' = gone \ {p} /\ Goto(p, "write1")
      <3>1. jsonl' # None
        BY <2>2
      <3>2. QED
        BY <3>1 DEF Opened
    <2>3. QED
      BY <1>8, <2>1, <2>2 DEF Open
  <1>9. ASSUME NEW p \in Procs, NEW i \in {1, 2}, Write(p, i)
        PROVE  Opened'
    <2>1. pc[p] \in {"write1", "write2"} /\ gone' = gone
      BY <1>9 DEF Write
    <2>2. \/ UNCHANGED jsonl
          \/ p \notin gone /\ jsonl' \in {AddLine(jsonl, <<TurnOf(p), i>>), Tear(jsonl)}
      BY <1>9 DEF Write
    <2>3. jsonl' = jsonl \/ jsonl' # None
      <3>1. CASE UNCHANGED jsonl
        BY <3>1
      <3>2. CASE p \notin gone /\ jsonl' \in {AddLine(jsonl, <<TurnOf(p), i>>), Tear(jsonl)}
        <4>1. jsonl \in Seq(Line) /\ <<TurnOf(p), i>> \in Line \ {Torn, Junk}
          BY <2>1, <3>2, WriterFacts
        <4>2. AddLine(jsonl, <<TurnOf(p), i>>) # None /\ Tear(jsonl) # None
          BY <4>1, FileFacts, TearFacts
        <4>3. QED
          BY <3>2, <4>2
      <3>3. QED
        BY <2>2, <3>1, <3>2
    <2>4. jsonl # None \/ p \in gone
      BY <2>1 DEF Opened
    <2>5. \E l \in {"write2", "touch", "next"} : Goto(p, l)
      BY <1>9 DEF Write, Fail, Unlock
    <2>6. QED
      BY <1>0, <2>1, <2>3, <2>4, <2>5 DEF Opened, Goto
  <1>10. ASSUME NEW p \in Procs,
                \/ Touch(p) \/ Mark(p) \/ TruncSaved(p) \/ Save(p)
                \/ RemoveMeta(p) \/ Uncache(p)
         PROVE  Opened'
    <2>1. /\ gone' = gone /\ jsonl' = jsonl
          /\ \E l \in {"mark", "trunc", "save", "next", "uncache", "droplock"} : Goto(p, l)
      BY <1>10 DEF Touch, Mark, TruncSaved, Save, RemoveMeta, Uncache, Unlock, diskVars
    <2>2. QED
      BY <1>2, <2>1 DEF Critical, Outside
  <1>11. ASSUME NEW p \in Procs, RemoveJsonl(p)
         PROVE  Opened'
    <2>1. CASE IgnoredError /\ UNCHANGED <<jsonl, acked, gone>>
      BY <1>2, <1>11, <2>1 DEF RemoveJsonl, Critical
    <2>2. CASE Unlink
      <3>1. \A q \in Procs : pc'[q] \in {"write1", "write2"} =>
                               q \in Requests /\ pc[q] \in {"write1", "write2"}
        BY <1>0, <1>11 DEF RemoveJsonl, Goto, Scripted
      <3>2. QED
        BY <2>2, <3>1 DEF Unlink, Opened
    <2>3. QED
      BY <1>11, <2>1, <2>2 DEF RemoveJsonl
  <1>12. CASE Restart
    BY <1>12 DEF Restart, Opened
  <1>13. QED
    BY <1>1, <1>3, <1>4, <1>5, <1>6, <1>7, <1>8, <1>9, <1>10, <1>11, <1>12 DEF Next, Step

LEMMA ShapeStep == Shape /\ [Next]_vars => Shape'
  BY LockInvStep, StoreTypesStep, ScriptedStep, CopiedStep, OpenedStep DEF Shape

LEMMA ShapeAlways == Spec => []Shape
  BY InitShape, ShapeStep, PTL DEF Spec

\* For any number of requests and faults: every variable keeps its type.  In
\* particular an Append (store.go:178) writes only to a JSONL file that is there
\* or to one that has been unlinked meanwhile (Opened), a session is created
\* only with an article (Scripted), and what a call writes to the meta file or
\* the cache is a meta (Copied).
THEOREM StoreTypeCorrect == Spec => []TypeOK
  <1>1. Shape => TypeOK
    BY DEF Shape, LockInv, LockTypes, StoreTypes, TypeOK, Outside
  <1>2. QED
    BY <1>1, ShapeAlways, PTL
-----------------------------------------------------------------------------
(* The turns in the JSONL file.                                            *)

\* A turn that is on record stays there while the file only grows at its end.
LEMMA RecordedStays ==
  ASSUME jsonl \in Seq(Line), jsonl' \in Seq(Line), Len(jsonl') >= Len(jsonl),
         \A k \in 1..Len(jsonl) : jsonl[k] # Torn => jsonl'[k] = jsonl[k],
         NEW t \in Turn, Recorded(t)
  PROVE  Recorded(t)'
  <1>1. PICK k \in 1..(Len(jsonl) - 1) :
          jsonl[k] \in {<<t, 1>>, Junk} /\ jsonl[k + 1] = <<t, 2>>
    BY DEF Recorded
  <1>2. jsonl[k] # Torn /\ jsonl[k + 1] # Torn
    BY <1>1, StoreFacts
  <1>3. Len(jsonl) \in Nat /\ Len(jsonl') \in Nat
    OBVIOUS
  <1>4. k \in 1..Len(jsonl) /\ k + 1 \in 1..Len(jsonl) /\ k \in 1..(Len(jsonl') - 1)
    BY <1>1, <1>3
  <1>5. jsonl'[k] \in {<<t, 1>>, Junk} /\ jsonl'[k + 1] = <<t, 2>>
    BY <1>1, <1>2, <1>4
  <1>6. QED
    BY <1>4, <1>5 DEF Recorded

\* A step that leaves the file alone.
LEMMA TurnsOn ==
  ASSUME Shape, Turns, crossed => crossed', UNCHANGED <<jsonl, gone, acked>>,
         NEW p \in Procs, NEW l, Goto(p, l),
         \A q \in Procs : pc'[q] \in Writing => todo'[q] = todo[q],
         l \in Writing => pc[p] \in {"touch", "mark", "trunc"} /\ l \in {"mark", "trunc", "save"}
  PROVE  Turns'
  <1>1. pc \in [Procs -> Critical \cup Outside \cup {"lock"}]
    BY DEF Shape, LockInv, LockTypes
  <1>2. \A t : Recorded(t)' <=> Recorded(t)
    BY DEF Recorded
  <1>3. \A q \in Procs : pc'[q] \in Writing => TurnOf(q)' = TurnOf(q)
    BY DEF TurnOf
  <1>4. QED
    BY <1>1, <1>2, <1>3 DEF Turns, Writing, Goto

\* Append returns nil.
LEMMA TurnsAck ==
  ASSUME Shape, Turns, UNCHANGED <<jsonl, gone, crossed>>,
         NEW p \in Procs, pc[p] \in Writing \ {"write1", "write2"},
         NEW rest, Unlock(p, rest), Ack(p)
  PROVE  Turns'
  <1>1. /\ pc \in [Procs -> Critical \cup Outside \cup {"lock"}]
        /\ todo \in [Procs -> Seq(Calls)]
    BY DEF Shape, LockInv, LockTypes, Calls
  <1>2. \A t : Recorded(t)' <=> Recorded(t)
    BY DEF Recorded
  <1>3. pc'[p] = "next" /\ \A q \in Procs \ {p} : pc'[q] = pc[q] /\ TurnOf(q)' = TurnOf(q)
    BY <1>1 DEF Unlock, Goto, TurnOf
  <1>4. \A t \in acked' : t \in acked \/ t = TurnOf(p)
    BY DEF Ack
  <1>5. QED
    BY <1>2, <1>3, <1>4 DEF Turns, Writing

LEMMA TurnsWrite ==
  ASSUME Shape, Turns, NEW p \in Procs, NEW i \in {1, 2}, Write(p, i)
  PROVE  Turns'
  <1> USE StoreFacts
  <1> DEFINE l == IF i = 1 THEN "write2" ELSE "touch"
             x == <<TurnOf(p), i>>
  <1>1. /\ pc \in [Procs -> Critical \cup Outside \cup {"lock"}]
        /\ todo \in [Procs -> Seq(Calls)]
        /\ pc[p] = IF i = 1 THEN "write1" ELSE "write2"
        /\ UNCHANGED <<gone, acked, crossed>>
    BY DEF Shape, LockInv, LockTypes, Calls, Write
  <1> SUFFICES ASSUME ~ crossed
               PROVE  Turns'
    BY <1>1 DEF Turns
  <1>2. gone = {} /\ \A t \in acked : Recorded(t)
    BY DEF Turns
  <1>3. /\ jsonl \in Seq(Line) /\ x \in Line \ {Torn, Junk} /\ TurnOf(p) \in Turn
    BY <1>1, <1>2, WriterFacts DEF Writing
  <1>4. acked \subseteq Turn
    BY DEF Shape, StoreTypes
  <1>5. \A q \in Procs \ {p} : pc'[q] = pc[q] /\ pc'[q] \notin Writing
    <2>1. pc[p] \in Critical /\ Writing \subseteq Critical
      BY <1>1 DEF Critical, Writing
    <2>2. \E h : Goto(p, h)
      BY DEF Write, Fail, Unlock
    <2>3. QED
      BY <1>1, <2>1, <2>2, Alone DEF Shape, Goto
  <1>6. CASE /\ Fail(p, Tail(todo[p]))
             /\ UNCHANGED jsonl \/ jsonl' = Tear(jsonl)
    <2>1. pc'[p] = "next"
      BY <1>1, <1>6 DEF Fail, Unlock, Goto
    <2>2. /\ jsonl' \in Seq(Line) /\ jsonl' # None /\ Len(jsonl') >= Len(jsonl)
          /\ \A k \in 1..Len(jsonl) : jsonl'[k] = jsonl[k]
      <3>1. CASE UNCHANGED jsonl
        <4>1. Len(jsonl) \in Nat
          BY <1>3
        <4>2. QED
          BY <1>3, <3>1, <4>1
      <3>2. CASE jsonl' = Tear(jsonl)
        BY <1>3, <3>2, TearFacts
      <3>3. QED
        BY <1>6, <3>1, <3>2
    <2>3. \A t \in acked : Recorded(t)'
      BY <1>2, <1>3, <1>4, <2>2, RecordedStays
    <2>4. QED
      BY <1>1, <1>2, <1>5, <2>1, <2>2, <2>3 DEF Turns, Writing
  <1>7. CASE jsonl' = AddLine(jsonl, x) /\ Goto(p, l) /\ UNCHANGED todo
    <2>1. /\ jsonl' \in Seq(Line) /\ jsonl' # None
          /\ Len(jsonl) \in Nat /\ Len(jsonl') \in Nat /\ Len(jsonl') >= Len(jsonl)
          /\ Len(jsonl') > 0 /\ jsonl'[Len(jsonl')] \in {x, Junk}
          /\ \A k \in 1..Len(jsonl) : jsonl[k] # Torn => jsonl'[k] = jsonl[k]
          /\ ~ EndsTorn(jsonl) => jsonl' = Append(jsonl, x)
      BY <1>3, <1>7, FileFacts
    <2>2. \A t \in acked : Recorded(t)'
      BY <1>2, <1>3, <1>4, <2>1, RecordedStays
    <2>3. pc'[p] = l /\ TurnOf(p)' = TurnOf(p)
      BY <1>1, <1>7 DEF Goto, TurnOf
    <2>4. i = 2 => Recorded(TurnOf(p))'
      <3> HAVE i = 2
      <3>1. Len(jsonl) > 0 /\ jsonl[Len(jsonl)] \in {<<TurnOf(p), 1>>, Junk}
        BY <1>1 DEF Turns
      <3>2. jsonl[Len(jsonl)] # Torn
        BY <1>3, <3>1
      <3>3. jsonl' = Append(jsonl, x)
        BY <2>1, <3>2 DEF EndsTorn
      <3>4. /\ Len(jsonl) \in 1..(Len(jsonl') - 1)
            /\ jsonl'[Len(jsonl)] = jsonl[Len(jsonl)] /\ jsonl'[Len(jsonl) + 1] = x
        BY <1>3, <2>1, <3>1, <3>3
      <3>5. QED
        BY <2>3, <3>1, <3>4 DEF Recorded
    <2>5. i = 1 => jsonl'[Len(jsonl')] \in {<<TurnOf(p), 1>>, Junk}
      BY <2>1
    <2>6. /\ pc'[p] = "write2" => i = 1
          /\ pc'[p] \in Writing \ {"write1", "write2"} => i = 2
      BY <2>3 DEF Writing
    <2>7. QED
      BY <1>1, <1>2, <1>5, <2>1, <2>2, <2>3, <2>4, <2>5, <2>6 DEF Turns, Writing
  <1>8. QED
    BY <1>2, <1>6, <1>7 DEF Write

\* A step inside the section of p, after which the file is new, or is gone.
LEMMA TurnsNew ==
  ASSUME Shape, Turns, NEW p \in Procs, pc[p] \in Critical, NEW l, Goto(p, l), l \notin Writing,
         crossed' = crossed, acked' = {},
         gone' \subseteq gone \cup {q \in Procs \ {p} : pc[q] \in Writing}
  PROVE  Turns'
  <1>1. pc \in [Procs -> Critical \cup Outside \cup {"lock"}]
    BY DEF Shape, LockInv, LockTypes
  <1> SUFFICES ASSUME ~ crossed
               PROVE  Turns'
    BY DEF Turns
  <1>2. Writing \subseteq Critical
    BY DEF Writing, Critical
  <1>3. \A q \in Procs \ {p} : pc'[q] = pc[q] /\ pc[q] \notin Writing
    BY <1>1, <1>2, Alone DEF Shape, Goto
  <1>4. pc'[p] \notin Writing
    BY <1>1 DEF Goto
  <1>5. gone' = {}
    BY <1>3 DEF Turns
  <1>6. QED
    BY <1>3, <1>4, <1>5 DEF Turns, Writing

LEMMA TurnsStep ==
  ASSUME Shape, Turns, [Next]_vars
  PROVE  Turns'
  <1> USE StoreFacts DEF Writing
  <1>0. /\ pc \in [Procs -> Critical \cup Outside \cup {"lock"}]
        /\ todo \in [Procs -> Seq(Calls)]
    BY DEF Shape, LockInv, LockTypes, Calls
  <1>1. CASE UNCHANGED vars \/ Tick \/ CleanExpired
    <2>1. UNCHANGED <<pc, jsonl, gone, acked, crossed>>
      BY <1>1 DEF vars, diskVars, Tick, CleanExpired
    <2>2. \A p \in Procs : pc[p] \in Writing => TurnOf(p)' = TurnOf(p)
      BY <1>0, <1>1 DEF vars, Tick, CleanExpired, TurnOf
    <2>3. \A t : Recorded(t)' <=> Recorded(t)
      BY <2>1 DEF Recorded
    <2>4. QED
      BY <2>1, <2>2, <2>3 DEF Turns
  <1>2. ASSUME NEW p \in Procs, NEW l, Goto(p, l), l \notin Writing,
               UNCHANGED <<jsonl, gone, acked>>, crossed => crossed',
               \A q \in Procs \ {p} : todo'[q] = todo[q]
        PROVE  Turns'
    <2>1. pc'[p] \notin Writing
      BY <1>0, <1>2 DEF Goto
    <2>2. QED
      BY <1>2, <2>1, TurnsOn
  <1>3. ASSUME NEW p \in Requests, NEW a \in Articles \cup {None}, Arrive(p, a)
        PROVE  Turns'
    BY <1>2, <1>3 DEF Arrive, diskVars
  <1>4. ASSUME NEW p \in Procs, LoadMeta(p) \/ ReadMeta(p) \/ StoreMeta(p)
        PROVE  Turns'
    <2>1. /\ UNCHANGED <<jsonl, gone, acked>>
          /\ \E l \in {"next", "readMeta", "storeMeta"} : Goto(p, l)
      BY <1>4 DEF LoadMeta, ReadMeta, StoreMeta, Answer, diskVars
    <2>2. crossed => crossed'
      BY <1>4 DEF LoadMeta, ReadMeta, StoreMeta
    <2>3. \A q \in Procs \ {p} : todo'[q] = todo[q]
      BY <1>0, <1>4 DEF LoadMeta, ReadMeta, StoreMeta, Answer
    <2>4. QED
      BY <1>2, <2>1, <2>2, <2>3
  <1>5. ASSUME NEW p \in Procs, Return(p) \/ GetLock(p)
        PROVE  Turns'
    <2>1. /\ UNCHANGED <<jsonl, gone, acked, crossed, todo>>
          /\ \E l \in {"done", "lock"} : Goto(p, l)
      BY <1>5 DEF Return, GetLock, diskVars
    <2>2. QED
      BY <1>2, <2>1
  <1>6. ASSUME NEW p \in Procs, Lock(p)
        PROVE  Turns'
    <2>1. todo[p] # <<>> /\ todo[p] \in Seq(Calls)
      BY <1>6 DEF Shape, Lock, LockInv, LockTypes, Outside, Calls
    <2>2. Head(todo[p]) \in Calls
      BY <2>1
    <2>3. QED
      BY <1>2, <1>6, <2>2 DEF Lock, diskVars, Calls
  <1>7. ASSUME NEW p \in Procs,
               \/ TruncMeta(p) \/ FillMeta(p) \/ CacheMeta(p) \/ ReadMessages(p)
               \/ RemoveMeta(p) \/ Uncache(p) \/ DropLock(p)
        PROVE  Turns'
    <2>1. /\ UNCHANGED <<jsonl, gone, acked>>
          /\ \E l \in {"fill", "newfile", "next", "uncache", "droplock"} : Goto(p, l)
      BY <1>7 DEF TruncMeta, FillMeta, CacheMeta, ReadMessages, RemoveMeta, Uncache,
                  DropLock, Fail, Unlock, diskVars
    <2>2. crossed => crossed'
      BY <1>7 DEF TruncMeta, FillMeta, CacheMeta, ReadMessages, RemoveMeta, Uncache, DropLock
    <2>3. \A q \in Procs \ {p} : todo'[q] = todo[q]
      BY <1>0, <1>7 DEF TruncMeta, FillMeta, CacheMeta, ReadMessages, RemoveMeta, Uncache,
                        DropLock, Fail, Unlock, lockVars
    <2>4. QED
      BY <1>2, <2>1, <2>2, <2>3
  <1>8. ASSUME NEW p \in Procs, NewFile(p)
        PROVE  Turns'
    <2>1. pc[p] \in Critical /\ UNCHANGED <<gone, crossed>>
      BY <1>8 DEF NewFile, Critical
    <2>2. CASE jsonl' = <<>> /\ acked' = {} /\ Goto(p, "cache")
      BY <2>1, <2>2, TurnsNew
    <2>3. CASE Fail(p, <<>>) /\ UNCHANGED <<jsonl, acked>>
      BY <1>0, <1>2, <2>1, <2>3 DEF Fail, Unlock
    <2>4. QED
      BY <1>8, <2>2, <2>3 DEF NewFile
  <1>9. ASSUME NEW p \in Procs, Open(p)
        PROVE  Turns'
    <2>1. pc[p] \in Critical /\ UNCHANGED <<acked, crossed>>
      BY <1>9 DEF Open, Critical
    <2>2. CASE Fail(p, Tail(todo[p])) /\ UNCHANGED <<jsonl, gone>>
      BY <1>0, <1>2, <2>1, <2>2 DEF Fail, Unlock
    <2>3. CASE /\ jsonl' = IF jsonl = None THEN <<>> ELSE jsonl
               /\ gone' = gone \ {p} /\ Goto(p, "write1")
      <3> SUFFICES ASSUME ~ crossed
                   PROVE  Turns'
        BY <2>1 DEF Turns
      <3>1. gone' = {}
        BY <2>3 DEF Turns
      <3>2. \A q \in acked : jsonl' = jsonl /\ jsonl # None /\ Recorded(q)'
        BY <2>3 DEF Turns, Recorded
      <3>3. jsonl' # None
        BY <2>3
      <3>4. \A q \in Procs \ {p} : pc'[q] = pc[q] /\ pc[q] \notin Writing
        BY <1>0, <2>1, <2>3, Alone DEF Shape, Goto, Critical
      <3>5. pc'[p] = "write1"
        BY <1>0, <2>3 DEF Goto
      <3>6. QED
        BY <2>1, <3>1, <3>2, <3>3, <3>4, <3>5 DEF Turns
    <2>4. QED
      BY <1>9, <2>2, <2>3 DEF Open
  <1>10. ASSUME NEW p \in Procs, Write(p, 1) \/ Write(p, 2)
         PROVE  Turns'
    BY <1>10, TurnsWrite
  <1>11. ASSUME NEW p \in Procs, Touch(p)
         PROVE  Turns'
    <2>1. pc[p] = "touch" /\ UNCHANGED <<jsonl, gone, crossed>>
      BY <1>11 DEF Touch, diskVars
    <2>2. CASE Unlock(p, Tail(todo[p])) /\ Ack(p)
      BY <2>1, <2>2, TurnsAck
    <2>3. CASE (Goto(p, "mark") \/ Goto(p, "trunc")) /\ UNCHANGED <<acked, todo>>
      BY <2>1, <2>3, TurnsOn
    <2>4. QED
      BY <1>11, <2>2, <2>3 DEF Touch
  <1>12. ASSUME NEW p \in Procs, Mark(p) \/ TruncSaved(p)
         PROVE  Turns'
    <2>1. /\ pc[p] \in {"mark", "trunc"} /\ UNCHANGED <<jsonl, gone, acked, crossed, todo>>
          /\ Goto(p, "trunc") \/ Goto(p, "save")
      BY <1>12 DEF Mark, TruncSaved, diskVars
    <2>2. QED
      BY <2>1, TurnsOn
  <1>13. ASSUME NEW p \in Procs, Save(p)
         PROVE  Turns'
    BY <1>13, TurnsAck DEF Save
  <1>14. ASSUME NEW p \in Procs, RemoveJsonl(p)
         PROVE  Turns'
    <2>1. pc[p] = "delete" /\ pc[p] \in Critical /\ crossed' = crossed /\ Goto(p, "rmmeta")
      BY <1>14 DEF RemoveJsonl, Critical
    <2>2. CASE Unlink
      BY <2>1, <2>2, TurnsNew DEF Unlink
    <2>3. CASE UNCHANGED <<jsonl, acked, gone>>
      BY <1>2, <1>14, <2>1, <2>3 DEF RemoveJsonl
    <2>4. QED
      BY <1>14, <2>2, <2>3 DEF RemoveJsonl
  <1>15. CASE Restart
    <2>1. /\ \A p \in Procs : pc'[p] \in {"next", "new", "done"}
          /\ gone' = {} /\ UNCHANGED <<acked, crossed>>
      BY <1>15 DEF Restart
    <2>2. CASE UNCHANGED jsonl
      BY <2>1, <2>2 DEF Turns, Recorded
    <2>3. CASE /\ jsonl \in Seq(Line) /\ jsonl' \in Seq(Line)
               /\ jsonl' # None /\ Len(jsonl') >= Len(jsonl)
               /\ \A k \in 1..Len(jsonl) : jsonl'[k] = jsonl[k]
      <3>1. \A t \in acked : Recorded(t) => Recorded(t)'
        BY <2>3, RecordedStays DEF Shape, StoreTypes
      <3>2. QED
        BY <2>1, <2>3, <3>1 DEF Turns
    <2>4. QED
      BY <1>15, <2>2, <2>3, RestartFile
  <1>16. QED
    BY <1>1, <1>3, <1>4, <1>5, <1>6, <1>7, <1>8, <1>9, <1>10, <1>11, <1>12, <1>13,
       <1>14, <1>15 DEF Next, Step

\* What a step makes of the file: a line is damaged only by a fault.
LEMMA FileStep ==
  ASSUME Shape, [Next]_vars
  PROVE  /\ \/ UNCHANGED jsonl
            \/ jsonl' \in {None, <<>>}
            \/ /\ jsonl \in Seq(Line)
               /\ \E x \in Line \ {Torn, Junk} : jsonl' = AddLine(jsonl, x)
            \/ jsonl \in Seq(Line) /\ jsonl' = Tear(jsonl) /\ Faults' = Faults + 1
         /\ Faults' \in {Faults, Faults + 1}
  <1>0. crashes \in Nat /\ errors \in Nat
    BY StoreFacts DEF Shape, StoreTypes
  <1>1. CASE UNCHANGED vars \/ Tick \/ CleanExpired
    <2>1. UNCHANGED <<jsonl, crashes, errors>>
      BY <1>1 DEF vars, diskVars, boundVars, Tick, CleanExpired
    <2>2. QED
      BY <1>0, <2>1 DEF Faults
  <1>2. ASSUME NEW p \in Requests, NEW a \in Articles \cup {None}, Arrive(p, a)
        PROVE  UNCHANGED <<jsonl, crashes, errors>>
    BY <1>2 DEF Arrive, diskVars, boundVars
  <1>3. ASSUME NEW p \in Procs,
               \/ LoadMeta(p) \/ ReadMeta(p) \/ StoreMeta(p) \/ GetLock(p) \/ Return(p)
               \/ Lock(p) \/ CacheMeta(p) \/ ReadMessages(p) \/ Touch(p) \/ Mark(p)
               \/ Uncache(p) \/ DropLock(p)
        PROVE  UNCHANGED <<jsonl, crashes, errors>>
    BY <1>3 DEF LoadMeta, ReadMeta, StoreMeta, GetLock, Return, Lock, CacheMeta,
                ReadMessages, Touch, Mark, Uncache, DropLock, diskVars, boundVars
  <1>4. ASSUME NEW p \in Procs,
               TruncMeta(p) \/ FillMeta(p) \/ TruncSaved(p) \/ Save(p) \/ RemoveMeta(p)
        PROVE  UNCHANGED <<jsonl, crashes>> /\ errors' \in {errors, errors + 1}
    BY <1>4 DEF TruncMeta, FillMeta, TruncSaved, Save, RemoveMeta, Fail, IgnoredError, boundVars
  <1>5. ASSUME NEW p \in Procs, NewFile(p) \/ Open(p) \/ RemoveJsonl(p)
        PROVE  /\ jsonl' \in {jsonl, None, <<>>}
               /\ crashes' = crashes /\ errors' \in {errors, errors + 1}
    BY <1>5 DEF NewFile, Open, RemoveJsonl, Unlink, Fail, IgnoredError, boundVars
  <1>6. ASSUME NEW p \in Procs, NEW i \in {1, 2}, Write(p, i)
        PROVE  /\ \/ UNCHANGED jsonl
                  \/ /\ jsonl \in Seq(Line)
                     /\ \E x \in Line \ {Torn, Junk} : jsonl' = AddLine(jsonl, x)
                  \/ jsonl \in Seq(Line) /\ jsonl' = Tear(jsonl) /\ errors' = errors + 1
               /\ crashes' = crashes /\ errors' \in {errors, errors + 1}
    <2>1. pc[p] \in {"write1", "write2"}
      BY <1>6 DEF Write
    <2>2. CASE UNCHANGED boundVars
      BY <1>6, <2>1, <2>2, <1>0, WriterFacts DEF Write, Fail, boundVars
    <2>3. CASE Fail(p, Tail(todo[p]))
      BY <1>6, <2>1, <2>3, <1>0, WriterFacts DEF Write, Fail, Unlock, Goto
    <2>4. QED
      BY <1>6, <2>2, <2>3 DEF Write
  <1>7. CASE Restart
    BY <1>0, <1>7, RestartFile DEF Restart, Faults
  <1>8. QED
    BY <1>0, <1>1, <1>2, <1>3, <1>4, <1>5, <1>6, <1>7 DEF Next, Step, Faults

LEMMA BoundedStep ==
  ASSUME Shape, Bounded, [Next]_vars
  PROVE  Bounded'
  <1>0. Faults \in Nat /\ Faults' \in {Faults, Faults + 1}
    BY FileStep, StoreFacts DEF Shape, StoreTypes, Faults
  <1>1. CASE UNCHANGED jsonl
    <2>1. Damaged(jsonl)' = Damaged(jsonl)
      BY <1>1
    <2>2. IsFiniteSet(Damaged(jsonl)) => Cardinality(Damaged(jsonl)) \in Nat
      BY FS_CardinalityType
    <2>3. QED
      BY <1>0, <1>1, <2>1, <2>2 DEF Bounded
  <1>2. CASE jsonl' \in {None, <<>>}
    <2>1. jsonl' # None => Damaged(jsonl') = {}
      BY <1>2 DEF Damaged
    <2>2. IsFiniteSet({}) /\ Cardinality({}) = 0
      BY FS_EmptySet
    <2>3. jsonl' # None => /\ IsFiniteSet(Damaged(jsonl'))
                           /\ Cardinality(Damaged(jsonl')) <= Faults'
      <3> SUFFICES ASSUME jsonl' # None
                   PROVE  /\ IsFiniteSet(Damaged(jsonl'))
                          /\ Cardinality(Damaged(jsonl')) <= Faults'
        OBVIOUS
      <3>1. Damaged(jsonl') = {}
        BY <2>1
      <3>2. Faults' >= 0
        BY <1>0
      <3>3. QED
        BY <2>2, <3>1, <3>2
    <2>4. QED
      BY <2>3 DEF Bounded
  <1>3. CASE /\ jsonl \in Seq(Line)
             /\ \E x \in Line \ {Torn, Junk} : jsonl' = AddLine(jsonl, x)
    <2>1. Damaged(jsonl') = Damaged(jsonl)
      BY <1>3, FileFacts
    <2>2. IsFiniteSet(Damaged(jsonl)) => Cardinality(Damaged(jsonl)) \in Nat
      BY FS_CardinalityType
    <2>3. QED
      BY <1>0, <1>3, StoreFacts, <2>1, <2>2 DEF Bounded
  <1>4. CASE jsonl \in Seq(Line) /\ jsonl' = Tear(jsonl) /\ Faults' = Faults + 1
    <2> DEFINE D == Damaged(jsonl) \cup {Len(jsonl) + 1}
    <2>1. Damaged(jsonl') \subseteq D
      BY <1>4, TearFacts
    <2>2. /\ IsFiniteSet(Damaged(jsonl)) /\ Cardinality(Damaged(jsonl)) \in Nat
          /\ Cardinality(Damaged(jsonl)) <= Faults
      BY <1>4, StoreFacts, FS_CardinalityType DEF Bounded
    <2>3. IsFiniteSet(D) /\ Cardinality(D) \in Nat
          /\ Cardinality(D) <= Cardinality(Damaged(jsonl)) + 1
      <3> DEFINE n == Len(jsonl) + 1
      <3>1. /\ IsFiniteSet(D)
            /\ \/ n \in Damaged(jsonl) /\ Cardinality(D) = Cardinality(Damaged(jsonl))
               \/ n \notin Damaged(jsonl) /\ Cardinality(D) = Cardinality(Damaged(jsonl)) + 1
        BY <2>2, FS_AddElement
      <3>2. QED
        BY <2>2, <3>1
    <2>4. /\ IsFiniteSet(Damaged(jsonl')) /\ Cardinality(Damaged(jsonl')) \in Nat
          /\ Cardinality(Damaged(jsonl')) <= Cardinality(D)
      BY <2>1, <2>3, FS_Subset, FS_CardinalityType
    <2>5. Cardinality(Damaged(jsonl')) <= Faults'
      BY <1>0, <1>4, <2>2, <2>3, <2>4
    <2>6. QED
      BY <2>4, <2>5 DEF Bounded
  <1>5. QED
    BY <1>1, <1>2, <1>3, <1>4, FileStep

LEMMA InitTurns == Init => Turns /\ Bounded
  <1> SUFFICES ASSUME Init
               PROVE  Turns /\ Bounded
    OBVIOUS
  <1>1. jsonl = None \/ jsonl = <<>>
    BY DEF Init
  <1>2. Damaged(<<>>) = {}
    BY DEF Damaged
  <1>3. Bounded
    <2>1. IsFiniteSet({}) /\ Cardinality({}) = 0
      BY FS_EmptySet
    <2>2. crashes = 0 /\ errors = 0
      BY DEF Init
    <2>3. QED
      BY <1>1, <1>2, <2>1, <2>2 DEF Bounded, Faults
  <1>4. QED
    BY <1>3 DEF Init, Turns, Writing

LEMMA TurnsAlways == Spec => [](Shape /\ Turns /\ Bounded)
  <1>1. Shape /\ Turns /\ Bounded /\ [Next]_vars => Shape' /\ Turns' /\ Bounded'
    BY ShapeStep, TurnsStep, BoundedStep
  <1>2. QED
    BY <1>1, InitShape, InitTurns, PTL DEF Spec

\* For any number of requests and faults, through restarts, failed writes that
\* leave part of a line in the file, and the deletions of the cleanup goroutine:
\* as long as no Delete (store.go:212) has dropped a mutex that another call had
\* fetched, a turn that Append has acknowledged is in the JSONL file in one
\* piece until the session is deleted or created again, though its first message
\* may have been glued to a torn line, and then GetMessages skips it
\* (store.go:169); and there are no more such lines than there were faults.
THEOREM AcknowledgedTurnsWhole == Spec => []TurnsWhole
  <1>1. Turns /\ Bounded => TurnsWhole
    BY DEF Turns, Bounded, TurnsWhole, Faults
  <1>2. QED
    BY <1>1, TurnsAlways, PTL
-----------------------------------------------------------------------------
(* The cached meta and the one on disk.                                    *)

LEMMA MetaFacts ==
  /\ \A m \in Meta : m = [art |-> m.art, active |-> m.active]
  /\ \A m \in CachedMeta : Plain(m) \in Meta /\ m.clock \in {"wall", "mono", "torn"}
  BY DEF Meta, CachedMeta, Plain

\* A step outside the places where cache and disk may differ, which keeps both.
LEMMA CoherentOn ==
  ASSUME Shape, Coherent, UNCHANGED <<metas, metaFile, crashes>>,
         jsonl' = jsonl \/ jsonl' # None,
         crossed => crossed', errors' = 0 => errors = 0,
         NEW p \in Procs, NEW l, Goto(p, l), pc[p] \notin Busy, l \notin Busy,
         \A q \in Procs \ {p} : copy'[q] = copy[q]
  PROVE  Coherent'
  <1> SUFFICES ASSUME ~ crossed', errors' = 0
               PROVE  Coherent'
    BY DEF Coherent
  <1>1. pc \in [Procs -> Critical \cup Outside \cup {"lock"}]
    BY DEF Shape, LockInv, LockTypes
  <1>2. pc'[p] = l /\ \A q \in Procs \ {p} : pc'[q] = pc[q]
    BY <1>1 DEF Goto
  <1>3. /\ \A q \in Procs : Phase(q)
        /\ (\A q \in Procs : pc[q] \notin Busy) => Settled
    BY DEF Coherent
  <1>4. Settled => Settled'
    BY DEF Settled
  <1>5. ASSUME NEW q \in Procs
        PROVE  Phase(q)'
    <2>1. CASE q = p
      BY <1>2, <2>1 DEF Phase, Busy
    <2>2. CASE q # p
      <3>1. copy'[q] = copy[q] /\ pc'[q] = pc[q] /\ Phase(q)
        BY <1>2, <1>3, <2>2
      <3>2. QED
        BY <3>1 DEF Phase
    <2>3. QED
      BY <2>1, <2>2
  <1>6. (\A q \in Procs : pc'[q] \notin Busy) => \A q \in Procs : pc[q] \notin Busy
    BY <1>2
  <1>7. QED
    BY <1>3, <1>4, <1>5, <1>6 DEF Coherent

\* A step inside a section: nobody else is at such a place.
LEMMA CoherentInside ==
  ASSUME Shape, Coherent, UNCHANGED crossed, NEW p \in Procs, pc[p] \in Critical,
         NEW l, Goto(p, l), errors' = 0 => errors = 0,
         ~ crossed /\ errors = 0 /\ errors' = 0 => Phase(p)' /\ (l \notin Busy => Settled')
  PROVE  Coherent'
  <1> SUFFICES ASSUME ~ crossed, errors = 0, errors' = 0
               PROVE  Coherent'
    BY DEF Coherent
  <1>1. pc \in [Procs -> Critical \cup Outside \cup {"lock"}]
    BY DEF Shape, LockInv, LockTypes
  <1>2. pc'[p] = l /\ \A q \in Procs \ {p} : pc'[q] = pc[q] /\ pc'[q] \notin Critical
    BY <1>1, Alone DEF Shape, Goto
  <1>3. \A q \in Procs \ {p} : Phase(q)'
    BY <1>2 DEF Phase, Critical
  <1>4. QED
    BY <1>2, <1>3 DEF Coherent

\* What holds inside a section.
LEMMA InSection ==
  ASSUME Shape, Coherent, ~ crossed, errors = 0, NEW p \in Procs, pc[p] \in Critical
  PROVE  Phase(p) /\ (pc[p] \notin Busy => Settled)
  <1>1. \A q \in Procs \ {p} : pc[q] \notin Critical
    BY Alone DEF Shape
  <1>2. Busy \subseteq Critical
    BY DEF Busy, Critical
  <1>3. QED
    BY <1>1, <1>2 DEF Coherent

LEMMA CoherentStoreMeta ==
  ASSUME Shape, Coherent, NEW p \in Procs, StoreMeta(p)
  PROVE  Coherent'
  <1> USE StoreFacts
  <1> SUFFICES ASSUME ~ crossed', errors' = 0
               PROVE  Coherent'
    BY DEF Coherent
  <1>1. pc \in [Procs -> Critical \cup Outside \cup {"lock"}]
        /\ copy \in [Procs -> Meta \cup {None}]
    BY DEF Shape, LockInv, LockTypes, StoreTypes
  <1>2. pc[p] = "storeMeta" /\ copy[p] \in Meta
    BY DEF StoreMeta, Shape, Copied, HasCopy
  <1>3. /\ metas' = [art |-> copy[p].art, active |-> copy[p].active, clock |-> "wall"]
        /\ ~ crossed /\ metaFile = copy[p] /\ metas \in {None, metas'}
        /\ errors = 0 /\ crashes' = crashes /\ metaFile' = metaFile /\ jsonl' = jsonl
    BY DEF StoreMeta, diskVars, boundVars
  <1>4. /\ Plain(metas') = metaFile /\ metas'.clock = "wall"
    BY <1>2, <1>3, MetaFacts DEF Plain
  <1>5. pc'[p] = "next" /\ \A q \in Procs \ {p} : pc'[q] = pc[q] /\ copy'[q] = copy[q]
    BY <1>1 DEF StoreMeta, Answer, Goto
  <1>6. /\ \A q \in Procs : Phase(q)
        /\ (\A q \in Procs : pc[q] \notin Busy) => Settled
    BY <1>3 DEF Coherent
  <1>7. Settled => Settled'
    BY <1>3, <1>4 DEF Settled
  <1>8. ASSUME NEW q \in Procs
        PROVE  Phase(q)'
    <2>1. CASE q = p
      BY <1>5, <2>1 DEF Phase
    <2>2. CASE q # p
      <3>1. copy'[q] = copy[q] /\ pc'[q] = pc[q] /\ Phase(q)
        BY <1>5, <1>6, <2>2
      <3>2. pc[q] \notin {"mark", "trunc", "save"}
        <4>1. metas # None => metas.clock = "wall"
          BY <1>3, <1>4
        <4>2. QED
          BY <3>1, <4>1 DEF Phase
      <3>3. pc[q] \notin {"uncache", "droplock"}
        BY <1>2, <1>3, <3>1 DEF Phase
      <3>4. QED
        BY <1>3, <3>1, <3>2, <3>3 DEF Phase
    <2>3. QED
      BY <2>1, <2>2
  <1>9. (\A q \in Procs : pc'[q] \notin Busy) => \A q \in Procs : pc[q] \notin Busy
    BY <1>2, <1>5 DEF Busy
  <1>10. QED
    BY <1>6, <1>7, <1>8, <1>9 DEF Coherent

\* A step in which a file operation fails.
LEMMA CoherentFailed ==
  ASSUME Shape, NEW p \in Procs, (\E rest : Fail(p, rest)) \/ IgnoredError
  PROVE  errors' # 0 /\ Coherent'
  <1>1. errors \in Nat /\ errors' = errors + 1
    BY StoreFacts DEF Shape, StoreTypes, Fail, IgnoredError
  <1>2. errors' # 0
    BY <1>1
  <1>3. QED
    BY <1>2 DEF Coherent

\* CreateWithArticle.
LEMMA CoherentCreate ==
  ASSUME Shape, Coherent, NEW p \in Procs,
         TruncMeta(p) \/ FillMeta(p) \/ NewFile(p) \/ CacheMeta(p)
  PROVE  Coherent'
  <1> USE StoreFacts
  <1>1. /\ pc \in [Procs -> Critical \cup Outside \cup {"lock"}]
        /\ copy \in [Procs -> Meta \cup {None}]
    BY DEF Shape, LockInv, LockTypes, StoreTypes
  <1>2. CASE Fail(p, <<>>)
    BY <1>2, CoherentFailed
  <1>3. CASE TruncMeta(p) /\ ~ Fail(p, <<>>)
    <2>1. /\ pc[p] = "create" /\ Goto(p, "fill") /\ metaFile' = Corrupt
          /\ UNCHANGED <<crossed, errors>>
      BY <1>3 DEF TruncMeta, boundVars
    <2>2. Phase(p)'
      BY <1>1, <2>1 DEF Phase, Goto
    <2>3. QED
      BY <2>1, <2>2, CoherentInside DEF Critical, Busy
  <1>4. CASE FillMeta(p) /\ ~ Fail(p, <<>>)
    <2>1. /\ pc[p] = "fill" /\ Goto(p, "newfile") /\ metaFile' = copy[p]
          /\ UNCHANGED <<crossed, errors, copy>>
      BY <1>4 DEF FillMeta, boundVars
    <2>2. Phase(p)'
      BY <1>1, <2>1 DEF Phase, Goto
    <2>3. QED
      BY <2>1, <2>2, CoherentInside DEF Critical, Busy
  <1>5. CASE NewFile(p) /\ ~ Fail(p, <<>>)
    <2>1. /\ pc[p] = "newfile" /\ Goto(p, "cache") /\ jsonl' = <<>>
          /\ UNCHANGED <<crossed, errors, copy, metaFile>>
      BY <1>5 DEF NewFile, boundVars
    <2>2. ASSUME ~ crossed, errors = 0
          PROVE  Phase(p)'
      BY <1>1, <2>1, <2>2, InSection DEF Phase, Goto, Critical
    <2>3. QED
      BY <2>1, <2>2, CoherentInside DEF Critical, Busy
  <1>6. CASE CacheMeta(p)
    <2>1. /\ pc[p] = "cache" /\ Goto(p, "next")
          /\ metas' = [art |-> copy[p].art, active |-> copy[p].active, clock |-> "mono"]
          /\ UNCHANGED <<crossed, errors, crashes, metaFile, jsonl>>
      BY <1>6 DEF CacheMeta, Unlock, boundVars, diskVars
    <2>2. copy[p] \in Meta
      BY <2>1 DEF Shape, Copied, HasCopy
    <2>3. Plain(metas') = copy[p] /\ metas'.clock # "torn"
      BY <2>1, <2>2, MetaFacts DEF Plain
    <2>4. ASSUME ~ crossed, errors = 0
          PROVE  Phase(p)' /\ Settled'
      <3>1. metaFile = copy[p] /\ jsonl # None
        BY <2>1, <2>4, InSection DEF Phase, Critical
      <3>2. QED
        BY <1>1, <2>1, <2>3, <3>1 DEF Phase, Settled, Goto
    <2>5. QED
      BY <2>1, <2>4, CoherentInside DEF Critical
  <1>7. QED
    BY <1>2, <1>3, <1>4, <1>5, <1>6

\* touchMeta.
LEMMA CoherentTouch ==
  ASSUME Shape, Turns, Coherent, NEW p \in Procs, Touch(p) \/ Mark(p) \/ TruncSaved(p) \/ Save(p)
  PROVE  Coherent'
  <1> USE StoreFacts
  <1>1. /\ pc \in [Procs -> Critical \cup Outside \cup {"lock"}]
        /\ copy \in [Procs -> Meta \cup {None}]
        /\ metas \in CachedMeta \cup {None}
    BY DEF Shape, LockInv, LockTypes, StoreTypes
  <1>2. CASE IgnoredError
    BY <1>2, CoherentFailed
  <1>3. CASE Touch(p) /\ metas = None
    BY <1>3, CoherentOn DEF Touch, Unlock, Busy, diskVars, boundVars
  <1>4. CASE Touch(p) /\ metas # None
    <2>1. /\ pc[p] = "touch" /\ UNCHANGED <<crossed, errors>>
          /\ copy' = [copy EXCEPT ![p] = [art |-> metas.art, active |-> now]]
      BY <1>4 DEF Touch, boundVars
    <2>2. copy'[p] = [art |-> metas.art, active |-> now] /\ metas \in CachedMeta
      BY <1>1, <1>4, <2>1
    <2>3. CASE metas.clock = "wall"
      <3>1. metas' = [metas EXCEPT !.clock = "torn"] /\ Goto(p, "mark")
        BY <1>4, <2>3 DEF Touch
      <3>2. metas' \in CachedMeta /\ metas'.clock = "torn" /\ metas'.art = metas.art
        BY <2>2, <3>1 DEF CachedMeta
      <3>3. copy'[p].art = metas.art
        BY <2>2
      <3>4. Phase(p)'
        BY <1>1, <3>1, <3>2, <3>3 DEF Phase, Goto
      <3>5. QED
        BY <2>1, <3>1, <3>4, CoherentInside DEF Critical, Busy
    <2>4. CASE metas.clock # "wall"
      <3>1. metas' = [metas EXCEPT !.active = now, !.clock = "mono"] /\ Goto(p, "trunc")
        BY <1>4, <2>4 DEF Touch
      <3>2. metas' \in CachedMeta /\ metas'.clock = "mono"
            /\ metas'.art = metas.art /\ metas'.active = now
        BY <2>2, <3>1 DEF CachedMeta, Shape, StoreTypes
      <3>3. Plain(metas)' = copy'[p]
        BY <2>2, <3>2 DEF Plain
      <3>4. Phase(p)'
        BY <1>1, <3>1, <3>2, <3>3 DEF Phase, Goto
      <3>5. QED
        BY <2>1, <3>1, <3>4, CoherentInside DEF Critical, Busy
    <2>5. QED
      BY <2>3, <2>4
  <1>5. CASE Mark(p)
    <2>1. /\ pc[p] = "mark" /\ Goto(p, "trunc") /\ UNCHANGED <<crossed, errors, copy>>
          /\ copy[p] \in Meta
      BY <1>5 DEF Mark, boundVars, Shape, Copied, HasCopy
    <2>2. ASSUME ~ crossed, errors = 0
          PROVE  Phase(p)'
      <3>1. metas # None /\ metas.clock = "torn" /\ metas.art = copy[p].art
        BY <2>1, <2>2, InSection DEF Phase, Critical
      <3>2. metas' = [metas EXCEPT !.active = copy[p].active, !.clock = "mono"]
        BY <1>5, <3>1 DEF Mark
      <3>3. copy[p].active \in 0..MaxTime /\ metas \in CachedMeta
        BY <1>1, <2>1, <3>1 DEF Meta
      <3>4. metas' \in CachedMeta /\ metas'.clock = "mono"
            /\ metas'.art = copy[p].art /\ metas'.active = copy[p].active
        BY <3>1, <3>2, <3>3 DEF CachedMeta
      <3>5. Plain(metas)' = copy[p]
        BY <2>1, <3>4, MetaFacts DEF Plain
      <3>6. QED
        BY <1>1, <2>1, <3>4, <3>5 DEF Phase, Goto
    <2>3. QED
      BY <2>1, <2>2, CoherentInside DEF Critical, Busy
  <1>6. CASE TruncSaved(p) /\ ~ IgnoredError
    <2>1. /\ pc[p] = "trunc" /\ Goto(p, "save") /\ UNCHANGED <<crossed, errors, copy, metas>>
      BY <1>6 DEF TruncSaved, boundVars
    <2>2. ASSUME ~ crossed, errors = 0
          PROVE  Phase(p)'
      <3>1. Phase(p)
        BY <2>1, <2>2, InSection DEF Critical
      <3>2. pc'[p] = "save"
        BY <1>1, <2>1 DEF Goto
      <3>3. QED
        BY <2>1, <3>1, <3>2 DEF Phase, Plain
    <2>3. QED
      BY <2>1, <2>2, CoherentInside DEF Critical, Busy
  <1>7. CASE Save(p) /\ ~ IgnoredError
    <2>1. /\ pc[p] = "save" /\ Goto(p, "next") /\ metaFile' = copy[p]
          /\ UNCHANGED <<crossed, errors, crashes, metas, jsonl>>
      BY <1>7 DEF Save, Unlock, boundVars
    <2>2. ASSUME ~ crossed, errors = 0
          PROVE  Phase(p)' /\ Settled'
      <3>1. Phase(p)
        BY <2>1, <2>2, InSection DEF Critical
      <3>2. jsonl # None
        BY <2>1, <2>2 DEF Turns, Writing
      <3>3. pc'[p] = "next"
        BY <1>1, <2>1 DEF Goto
      <3>4. QED
        BY <2>1, <3>1, <3>2, <3>3 DEF Phase, Settled, Plain
    <2>3. QED
      BY <2>1, <2>2, CoherentInside DEF Critical
  <1>8. QED
    BY <1>2, <1>3, <1>4, <1>5, <1>6, <1>7

\* Delete.
LEMMA CoherentDelete ==
  ASSUME Shape, Coherent, NEW p \in Procs,
         RemoveJsonl(p) \/ RemoveMeta(p) \/ Uncache(p) \/ DropLock(p)
  PROVE  Coherent'
  <1> USE StoreFacts
  <1>1. pc \in [Procs -> Critical \cup Outside \cup {"lock"}]
    BY DEF Shape, LockInv, LockTypes
  <1>2. CASE IgnoredError
    BY <1>2, CoherentFailed
  <1>3. CASE RemoveJsonl(p) /\ ~ IgnoredError
    <2>1. pc[p] = "delete" /\ Goto(p, "rmmeta") /\ UNCHANGED <<crossed, errors>>
      BY <1>3 DEF RemoveJsonl, boundVars
    <2>2. Phase(p)'
      BY <1>1, <2>1 DEF Phase, Goto
    <2>3. QED
      BY <2>1, <2>2, CoherentInside DEF Critical, Busy
  <1>4. CASE RemoveMeta(p) /\ ~ IgnoredError
    <2>1. /\ pc[p] = "rmmeta" /\ Goto(p, "uncache") /\ metaFile' = None
          /\ UNCHANGED <<crossed, errors>>
      BY <1>4 DEF RemoveMeta, boundVars
    <2>2. Phase(p)'
      BY <1>1, <2>1 DEF Phase, Goto
    <2>3. QED
      BY <2>1, <2>2, CoherentInside DEF Critical, Busy
  <1>5. CASE Uncache(p)
    <2>1. /\ pc[p] = "uncache" /\ Goto(p, "droplock") /\ metas' = None
          /\ UNCHANGED <<crossed, errors, metaFile>>
      BY <1>5 DEF Uncache, boundVars, diskVars
    <2>2. ASSUME ~ crossed, errors = 0
          PROVE  Phase(p)'
      BY <1>1, <2>1, <2>2, InSection DEF Phase, Goto, Critical
    <2>3. QED
      BY <2>1, <2>2, CoherentInside DEF Critical, Busy
  <1>6. CASE DropLock(p)
    <2> SUFFICES ASSUME ~ crossed'
                 PROVE  Coherent'
      BY DEF Coherent
    <2>1. /\ pc[p] = "droplock" /\ Goto(p, "next") /\ crossed' = crossed
          /\ UNCHANGED <<errors, crashes, metas, metaFile, jsonl>>
      BY <1>6 DEF DropLock, Unlock, boundVars, diskVars, Shape, StoreTypes
    <2>2. ASSUME ~ crossed, errors = 0
          PROVE  Phase(p)' /\ Settled'
      <3>1. metas = None /\ metaFile = None
        BY <2>1, <2>2, InSection DEF Phase, Critical
      <3>2. QED
        BY <1>1, <2>1, <3>1 DEF Phase, Settled, Goto
    <2>3. QED
      BY <2>1, <2>2, CoherentInside DEF Critical
  <1>7. QED
    BY <1>2, <1>3, <1>4, <1>5, <1>6

LEMMA CoherentStep ==
  ASSUME Shape, Turns, Coherent, [Next]_vars
  PROVE  Coherent'
  <1> USE StoreFacts
  <1>1. CASE UNCHANGED vars \/ Tick \/ CleanExpired
    BY <1>1 DEF vars, diskVars, boundVars, Tick, CleanExpired, Coherent, Settled, Phase, Plain
  <1>2. ASSUME NEW p \in Procs, NEW l, Goto(p, l), pc[p] \notin Busy, l \notin Busy,
               UNCHANGED <<metas, metaFile, crashes, errors, crossed, jsonl>>,
               \A q \in Procs \ {p} : copy'[q] = copy[q]
        PROVE  Coherent'
    BY <1>2, CoherentOn
  <1>3. ASSUME NEW p \in Requests, NEW a \in Articles \cup {None}, Arrive(p, a)
        PROVE  Coherent'
    BY <1>2, <1>3 DEF Arrive, diskVars, boundVars, Busy
  <1>4. ASSUME NEW p \in Procs, LoadMeta(p) \/ ReadMeta(p)
        PROVE  Coherent'
    <2>1. /\ UNCHANGED <<metas, metaFile, crashes, errors, crossed, jsonl>>
          /\ pc[p] \in {"meta", "readMeta"}
      BY <1>4 DEF LoadMeta, ReadMeta, diskVars, boundVars
    <2>2. \E l \in {"next", "readMeta", "storeMeta"} : Goto(p, l)
      BY <1>4 DEF LoadMeta, ReadMeta, Answer
    <2>3. \A q \in Procs \ {p} : copy'[q] = copy[q]
      BY <1>4 DEF LoadMeta, ReadMeta, Shape, StoreTypes
    <2>4. QED
      BY <1>2, <2>1, <2>2, <2>3 DEF Busy
  <1>5. ASSUME NEW p \in Procs, StoreMeta(p)
        PROVE  Coherent'
    BY <1>5, CoherentStoreMeta
  <1>6. ASSUME NEW p \in Procs, Return(p) \/ GetLock(p)
        PROVE  Coherent'
    <2>1. /\ UNCHANGED <<metas, metaFile, crashes, errors, crossed, jsonl, copy>>
          /\ pc[p] = "next" /\ \E l \in {"done", "lock"} : Goto(p, l)
      BY <1>6 DEF Return, GetLock, diskVars, boundVars
    <2>2. QED
      BY <1>2, <2>1 DEF Busy
  <1>7. ASSUME NEW p \in Procs, Lock(p)
        PROVE  Coherent'
    <2>1. todo[p] # <<>> /\ todo[p] \in Seq(Calls)
      BY <1>7 DEF Shape, Lock, LockInv, LockTypes, Outside, Calls
    <2>2. Head(todo[p]) \in Calls
      BY <2>1
    <2>3. QED
      BY <1>2, <1>7, <2>2 DEF Lock, diskVars, boundVars, Calls, Busy
  <1>8. ASSUME NEW p \in Procs, ReadMessages(p)
        PROVE  Coherent'
    BY <1>2, <1>8 DEF ReadMessages, Unlock, diskVars, boundVars, Busy
  <1>9. ASSUME NEW p \in Procs, TruncMeta(p) \/ FillMeta(p) \/ NewFile(p) \/ CacheMeta(p)
        PROVE  Coherent'
    BY <1>9, CoherentCreate
  <1>10. ASSUME NEW p \in Procs, Open(p)
         PROVE  Coherent'
    <2>1. CASE Fail(p, Tail(todo[p]))
      BY <2>1, CoherentFailed
    <2>2. CASE ~ Fail(p, Tail(todo[p]))
      <3>1. /\ pc[p] = "append" /\ Goto(p, "write1")
            /\ UNCHANGED <<metas, metaFile, crashes, errors, crossed, copy>>
            /\ jsonl' = IF jsonl = None THEN <<>> ELSE jsonl
        BY <1>10, <2>2 DEF Open, boundVars
      <3>2. QED
        BY <3>1, CoherentOn DEF Busy
    <2>3. QED
      BY <2>1, <2>2
  <1>11. ASSUME NEW p \in Procs, NEW i \in {1, 2}, Write(p, i)
         PROVE  Coherent'
    <2>1. CASE Fail(p, Tail(todo[p]))
      BY <2>1, CoherentFailed
    <2>2. CASE ~ Fail(p, Tail(todo[p]))
      <3>1. /\ pc[p] \in {"write1", "write2"} /\ (Goto(p, "write2") \/ Goto(p, "touch"))
            /\ UNCHANGED <<metas, metaFile, crashes, errors, crossed, copy>>
        BY <1>11, <2>2 DEF Write, boundVars
      <3>2. jsonl' = jsonl \/ (p \notin gone /\ jsonl' = AddLine(jsonl, <<TurnOf(p), i>>))
        BY <1>11, <2>2 DEF Write
      <3>3. jsonl' = jsonl \/ jsonl' # None
        BY <3>1, <3>2, WriterFacts, FileFacts
      <3>4. QED
        BY <3>1, <3>3, CoherentOn DEF Busy
    <2>3. QED
      BY <2>1, <2>2
  <1>12. ASSUME NEW p \in Procs, Touch(p) \/ Mark(p) \/ TruncSaved(p) \/ Save(p)
         PROVE  Coherent'
    BY <1>12, CoherentTouch
  <1>13. ASSUME NEW p \in Procs,
                RemoveJsonl(p) \/ RemoveMeta(p) \/ Uncache(p) \/ DropLock(p)
         PROVE  Coherent'
    BY <1>13, CoherentDelete
  <1>14. CASE Restart
    <2>1. /\ metas' = None /\ crashes' # 0
          /\ \A p \in Procs : pc'[p] \in {"next", "new", "done"}
      BY <1>14 DEF Restart, Shape, StoreTypes
    <2>2. QED
      BY <2>1 DEF Coherent, Settled, Phase
  <1>15. QED
    BY <1>1, <1>3, <1>4, <1>5, <1>6, <1>7, <1>8, <1>9, <1>10, <1>11, <1>12, <1>13,
       <1>14 DEF Next, Step

LEMMA InitCoherent == Init => Coherent
  <1> SUFFICES ASSUME Init
               PROVE  Coherent
    OBVIOUS
  <1>1. metas = None /\ (metaFile = None \/ jsonl = <<>>)
        /\ \A p \in Procs : pc[p] \in {"new", "next"}
    BY DEF Init
  <1>2. QED
    BY <1>1, StoreFacts DEF Coherent, Settled, Phase

\* For any number of requests and restarts: as long as no file operation fails
\* and no Delete (store.go:212) has dropped a mutex that another call had
\* fetched, whenever nobody is inside a section the cached meta is the one in
\* the meta file, with the reading of one clock in it, although GetMeta (124)
\* fills the cache without the mutex, Append changes the cached object before it
\* rewrites the file (215), and Delete and CreateWithArticle change file and
\* cache in several steps; and the messages are there unless a restart came in
\* between.
THEOREM CacheIsDisk == Spec => []CacheMatchesDisk
  <1>1. Shape /\ Coherent => CacheMatchesDisk
    <2> SUFFICES ASSUME Shape, Coherent, ~ crossed, errors = 0, metas # None,
                        \A m \in Mutexes : owner[m] = None
                 PROVE  /\ metaFile = Plain(metas) /\ metas.clock # "torn"
                        /\ crashes = 0 => jsonl # None
      BY DEF CacheMatchesDisk
    <2>1. \A p \in Procs : pc[p] \notin Busy
      <3> SUFFICES ASSUME NEW p \in Procs, pc[p] \in Busy
                   PROVE  FALSE
        OBVIOUS
      <3>1. pc[p] \in Critical
        BY DEF Busy, Critical
      <3>2. mu[p] \in Mutexes /\ owner[mu[p]] = p
        BY <3>1, ConstantFacts DEF Shape, LockInv, LockTypes, Owners
      <3>3. QED
        BY <3>2, ConstantFacts
    <2>2. Settled
      BY <2>1 DEF Coherent
    <2>3. Plain(metas) \in Meta
      BY MetaFacts DEF Shape, StoreTypes
    <2>4. QED
      BY <2>2, <2>3 DEF Settled
  <1>2. Shape /\ Turns /\ Coherent /\ [Next]_vars => Shape' /\ Turns' /\ Coherent'
    BY ShapeStep, TurnsStep, CoherentStep
  <1>3. QED
    BY <1>1, <1>2, InitShape, InitTurns, InitCoherent, PTL DEF Spec
=============================================================================
