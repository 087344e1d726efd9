------------------------- MODULE ContainerPoolProofs -------------------------
(***************************************************************************)
(* Proofs about ContainerPool, for any number of pools, slots and runners. *)
(*                                                                         *)
(* SlotConserved is not inductive: it does not say that a runner at        *)
(* "release" holds a slot, nor that the slot belongs to the pool the       *)
(* runner will return it to.  PoolInv adds both, and takes the statement   *)
(* that the places of a slot are exactly one apart into Apart (no two) and *)
(* Covered (at least one).                                                 *)
(***************************************************************************)
EXTENDS ContainerPool, FiniteSetTheorems, TLAPS

Holding(w) == pc[w] \in {"file", "exec", "release", "put"}

\* What the locals of a call of RunCode say at each point of it.
CallShape ==
  \A w \in Runners :
    /\ pc[w] # "idle" => lang[w] \in Langs
    /\ slot[w] # NoSlot <=> Holding(w)
    /\ slot[w] # NoSlot => LangOf[slot[w]] = lang[w]

Homes == \A l \in Langs : idle[l] \subseteq SlotsOf(l)

HeldOnce ==
  \A v, w \in Runners : slot[v] # NoSlot /\ slot[v] = slot[w] => v = w

Apart ==
  \A s \in Slots :
    /\ s \in idle[LangOf[s]] => /\ \A w \in Runners : slot[w] # s
                                /\ rep[s] = "none"
                                /\ s \notin gone
    /\ \A w \in Runners : slot[w] = s => rep[s] = "none" /\ s \notin gone
    /\ rep[s] # "none" => s \notin gone

Covered ==
  \A s \in Slots :
    \/ s \in idle[LangOf[s]]
    \/ \E w \in Runners : slot[w] = s
    \/ rep[s] # "none"
    \/ s \in gone

\* Close sets the flag before it closes the first channel.
FlagFirst == closed \/ open = Langs

PoolInv ==
  /\ TypeOK
  /\ CallShape
  /\ Homes
  /\ HeldOnce
  /\ Apart
  /\ Covered
  /\ FlagFirst
  /\ ShrinksOnlyByRestarts
-----------------------------------------------------------------------------
\* An assignment to one element of an array of Booleans.
LEMMA BooleanUpdate ==
  ASSUME NEW S, NEW f \in [S -> BOOLEAN], NEW x, NEW b \in BOOLEAN
  PROVE  [f EXCEPT ![x] = b] \in [S -> BOOLEAN]
  OBVIOUS

LEMMA PoolInit == Init => PoolInv
  <1> SUFFICES ASSUME Init PROVE PoolInv
    OBVIOUS
  <1> USE PoolAssumption DEF Init
  <1>1. TypeOK
    <2>1. attempt \in [Slots -> 0..MaxRestart]
      OBVIOUS
    <2>2. closed \in BOOLEAN /\ healthy \in [Runners -> BOOLEAN]
      OBVIOUS
    <2>3. idle \in [Langs -> SUBSET Slots] /\ open \subseteq Langs
      BY DEF SlotsOf
    <2>4. /\ pc \in [Runners -> {"idle", "wait", "file", "exec", "release", "put"}]
          /\ lang \in [Runners -> Langs \cup {NoLang}]
          /\ slot \in [Runners -> Slots \cup {NoSlot}]
          /\ rep \in [Slots -> {"none", "restart", "put"}]
          /\ gone \subseteq Slots /\ overdue \subseteq Slots /\ unstopped \subseteq Slots
      OBVIOUS
    <2>5. QED
      BY <2>1, <2>2, <2>3, <2>4, Zenon DEF TypeOK
  <1>2. CallShape /\ HeldOnce
    BY DEF CallShape, Holding, HeldOnce
  <1>3. Homes /\ Apart /\ Covered /\ FlagFirst /\ ShrinksOnlyByRestarts
    BY DEF Homes, Apart, Covered, FlagFirst, ShrinksOnlyByRestarts, SlotsOf
  <1>4. QED
    BY <1>1, <1>2, <1>3 DEF PoolInv

\* The local variable of RunCode that becomes Release's argument.
LEMMA HealthyType ==
  ASSUME healthy \in [Runners -> BOOLEAN], NEW w,
         RunStep(w) \/ \E l \in Langs : Enter(w, l)
  PROVE  healthy' \in [Runners -> BOOLEAN]
  <1>1. \/ healthy' = healthy
        \/ \E b \in BOOLEAN : healthy' = [healthy EXCEPT ![w] = b]
    BY DEF RunStep, Enter, Take, Refused, CreateFile, Exec, Release, ReleasePut, Finish
  <1>2. QED
    BY <1>1, BooleanUpdate

\* The calls of RunCode keep the invariant.
LEMMA RunnerStep ==
  ASSUME PoolInv, NEW w \in Runners,
         RunStep(w) \/ \E l \in Langs : Enter(w, l)
  PROVE  PoolInv'
  <1>h. healthy' \in [Runners -> BOOLEAN]
    BY HealthyType DEF PoolInv, TypeOK
  <1> USE PoolAssumption DEF PoolInv, TypeOK, CallShape, Holding, Homes, HeldOnce,
      Apart, Covered, FlagFirst, ShrinksOnlyByRestarts, SlotsOf,
      poolVars, runVars, repVars, taskVars
  <1>1. CASE \E l \in Langs : Enter(w, l)
    BY <1>1 DEF Enter
  <1>2. CASE Take(w)
    BY <1>2 DEF Take
  <1>3. CASE Refused(w)
    BY <1>3 DEF Refused, Finish
  <1>4. CASE CreateFile(w)
    BY <1>4 DEF CreateFile
  <1>5. CASE Exec(w)
    <2>1. slot[w] \in Slots
      BY <1>5 DEF Exec
    <2>2. TypeOK'
      <3>1. overdue' \subseteq Slots /\ unstopped' \subseteq Slots
        BY <1>5, <2>1 DEF Exec
      <3>2. QED
        BY <1>5, <1>h, <3>1 DEF Exec
    <2>3. (CallShape /\ Homes /\ HeldOnce)'
      BY <1>5 DEF Exec
    <2>4. (Apart /\ Covered /\ FlagFirst /\ ShrinksOnlyByRestarts)'
      BY <1>5 DEF Exec
    <2>5. QED
      BY <2>2, <2>3, <2>4, Zenon DEF PoolInv
  <1>6. CASE Release(w)
    <2>1. slot[w] \in Slots /\ lang[w] \in Langs /\ LangOf[slot[w]] = lang[w]
      BY <1>6 DEF Release
    <2>2. CASE closed
      <3>1. TypeOK'
        <4>1. gone' \subseteq Slots
          BY <1>6, <2>1, <2>2 DEF Release, Finish
        <4>2. rep' \in [Slots -> {"none", "restart", "put"}]
          BY <1>6, <2>1, <2>2 DEF Release, Finish
        <4>3. attempt' \in [Slots -> 0..MaxRestart]
          BY <1>6, <2>1, <2>2 DEF Release, Finish
        <4>4. QED
          BY <1>6, <2>2, <1>h, <4>1, <4>2, <4>3 DEF Release, Finish
      <3>2. (CallShape /\ Homes /\ HeldOnce)'
        BY <1>6, <2>1, <2>2 DEF Release, Finish
      <3>3. (Apart /\ Covered /\ FlagFirst /\ ShrinksOnlyByRestarts)'
        BY <1>6, <2>1, <2>2 DEF Release, Finish
      <3>4. QED
        BY <3>1, <3>2, <3>3, Zenon DEF PoolInv
    <2>3. CASE ~closed /\ healthy[w]
      BY <1>6, <2>1, <2>3 DEF Release
    <2>4. CASE ~closed /\ ~healthy[w]
      <3>1. TypeOK'
        <4>1. gone' \subseteq Slots
          BY <1>6, <2>1, <2>4 DEF Release, Finish
        <4>2. rep' \in [Slots -> {"none", "restart", "put"}]
          BY <1>6, <2>1, <2>4 DEF Release, Finish
        <4>3. attempt' \in [Slots -> 0..MaxRestart]
          BY <1>6, <2>1, <2>4 DEF Release, Finish
        <4>4. QED
          BY <1>6, <2>4, <1>h, <4>1, <4>2, <4>3 DEF Release, Finish
      <3>2. (CallShape /\ Homes /\ HeldOnce)'
        BY <1>6, <2>1, <2>4 DEF Release, Finish
      <3>3. (Apart /\ Covered)'
        BY <1>6, <2>1, <2>4 DEF Release, Finish
      <3>4. (FlagFirst /\ ShrinksOnlyByRestarts)'
        BY <1>6, <2>1, <2>4 DEF Release, Finish
      <3>5. QED
        BY <3>1, <3>2, <3>3, <3>4, Zenon DEF PoolInv
    <2>5. QED
      BY <2>2, <2>3, <2>4
  <1>7. CASE ReleasePut(w)
    <2>1. slot[w] \in Slots /\ lang[w] \in Langs /\ LangOf[slot[w]] = lang[w]
      BY <1>7 DEF ReleasePut
    <2>2. TypeOK'
      BY <1>7, <2>1 DEF ReleasePut, Put, Finish
    <2>3. (CallShape /\ Homes /\ HeldOnce)'
      BY <1>7, <2>1 DEF ReleasePut, Put, Finish
    <2>4. (Apart /\ Covered)'
      BY <1>7, <2>1 DEF ReleasePut, Put, Finish
    <2>5. (FlagFirst /\ ShrinksOnlyByRestarts)'
      BY <1>7, <2>1 DEF ReleasePut, Put, Finish
    <2>6. QED
      BY <2>2, <2>3, <2>4, <2>5, Zenon DEF PoolInv
  <1>8. QED
    BY <1>1, <1>2, <1>3, <1>4, <1>5, <1>6, <1>7 DEF RunStep

\* So do the replenish goroutines.
LEMMA ReplenishStep ==
  ASSUME PoolInv, NEW s \in Slots, Replenish(s)
  PROVE  PoolInv'
  <1> USE PoolAssumption DEF PoolInv, TypeOK, CallShape, Holding, Homes, HeldOnce,
      Apart, Covered, FlagFirst, ShrinksOnlyByRestarts, SlotsOf,
      poolVars, runVars, repVars, taskVars
  <1>1. CASE RestartFail(s)
    <2>1. attempt' \in [Slots -> 0..MaxRestart]
      BY <1>1 DEF RestartFail
    <2>2. TypeOK'
      BY <1>1, <2>1 DEF RestartFail, Stop
    <2>3. (CallShape /\ Homes /\ HeldOnce /\ Apart /\ Covered /\ FlagFirst)'
      BY <1>1 DEF RestartFail
    <2>4. ShrinksOnlyByRestarts'
      BY <1>1 DEF RestartFail
    <2>5. QED
      BY <2>2, <2>3, <2>4
  <1>2. CASE RestartOK(s)
    <2>1. TypeOK'
      BY <1>2 DEF RestartOK, Stop
    <2>2. (CallShape /\ Homes /\ HeldOnce /\ Apart /\ Covered /\ FlagFirst)'
      BY <1>2 DEF RestartOK
    <2>3. ShrinksOnlyByRestarts'
      BY <1>2 DEF RestartOK
    <2>4. QED
      BY <2>1, <2>2, <2>3
  <1>3. CASE ReplenishPut(s)
    <2>1. TypeOK'
      BY <1>3 DEF ReplenishPut, Put
    <2>2. (CallShape /\ Homes /\ HeldOnce)'
      BY <1>3 DEF ReplenishPut, Put
    <2>3. (Apart /\ Covered)'
      BY <1>3 DEF ReplenishPut, Put
    <2>4. (FlagFirst /\ ShrinksOnlyByRestarts)'
      BY <1>3 DEF ReplenishPut, Put
    <2>5. QED
      BY <2>1, <2>2, <2>3, <2>4
  <1>4. QED
    BY <1>1, <1>2, <1>3 DEF Replenish

LEMMA PoolNext == PoolInv /\ [Next]_vars => PoolInv'
  <1> SUFFICES ASSUME PoolInv, [Next]_vars PROVE PoolInv'
    OBVIOUS
  <1>1. CASE \E w \in Runners : RunStep(w) \/ \E l \in Langs : Enter(w, l)
    BY <1>1, RunnerStep
  <1>2. CASE \E s \in Slots : Replenish(s)
    BY <1>2, ReplenishStep
  <1> USE DEF PoolInv, TypeOK, CallShape, Holding, Homes, HeldOnce,
      Apart, Covered, FlagFirst, ShrinksOnlyByRestarts, poolVars, runVars, repVars, taskVars
  <1>3. CASE CloseFlag
    BY <1>3 DEF CloseFlag
  <1>4. CASE \E l \in Langs : CloseChan(l)
    BY <1>4 DEF CloseChan
  <1>5. CASE UNCHANGED vars
    BY <1>5 DEF vars
  <1>6. QED
    BY <1>1, <1>2, <1>3, <1>4, <1>5 DEF Next

LEMMA PoolInvariant == Spec => []PoolInv
  BY PoolInit, PoolNext, PTL DEF Spec
-----------------------------------------------------------------------------
\* The state of the pool, of every call of RunCode and of every replenish
\* goroutine keeps its type; in particular a slot is restarted at most
\* MaxRestart times.
THEOREM PoolTypeCorrect == Spec => []TypeOK
  <1>1. PoolInv => TypeOK
    BY DEF PoolInv
  <1>2. QED
    BY PoolInvariant, <1>1, PTL

\* PoolInv puts every slot in exactly one place.
LEMMA OnePlace == PoolInv => SlotConserved
  <1> SUFFICES ASSUME PoolInv PROVE SlotConserved
    OBVIOUS
  <1> USE PoolAssumption
  <1>1. \A l \in Langs : idle[l] \subseteq SlotsOf(l)
    BY DEF PoolInv, Homes
  <1>2. ASSUME NEW s \in Slots
        PROVE  \E x \in Places(s) : Places(s) = {x}
    <2>1. \A l \in Langs : s \in idle[l] <=> (l = LangOf[s] /\ s \in idle[LangOf[s]])
      BY <1>1 DEF SlotsOf
    <2>2. CASE s \in idle[LangOf[s]]
      <3>1. Places(s) = {<<"idle", LangOf[s]>>}
        BY <2>1, <2>2 DEF Places, PoolInv, Apart
      <3>2. QED
        BY <3>1
    <2>3. CASE \E w \in Runners : slot[w] = s
      <3>1. PICK w \in Runners : slot[w] = s
        BY <2>3
      <3>2. \A v \in Runners : slot[v] = s <=> v = w
        BY <3>1 DEF PoolInv, HeldOnce
      <3>3. s \notin idle[LangOf[s]] /\ rep[s] = "none" /\ s \notin gone
        BY <3>1 DEF PoolInv, Apart
      <3>4. Places(s) = {<<"run", w>>}
        BY <2>1, <3>2, <3>3 DEF Places
      <3>5. QED
        BY <3>4
    <2>4. CASE rep[s] # "none"
      <3>1. /\ s \notin idle[LangOf[s]] /\ s \notin gone
            /\ \A w \in Runners : slot[w] # s
        BY <2>4 DEF PoolInv, Apart
      <3>2. Places(s) = {<<"rep", s>>}
        BY <2>1, <2>4, <3>1 DEF Places
      <3>3. QED
        BY <3>2
    <2>5. CASE s \in gone
      <3>1. /\ s \notin idle[LangOf[s]] /\ rep[s] = "none"
            /\ \A w \in Runners : slot[w] # s
        BY <2>5 DEF PoolInv, Apart
      <3>2. Places(s) = {<<"gone", s>>}
        BY <2>1, <2>5, <3>1 DEF Places
      <3>3. QED
        BY <3>2
    <2>6. QED
      BY <2>2, <2>3, <2>4, <2>5 DEF PoolInv, Covered
  <1>3. QED
    BY <1>1, <1>2 DEF SlotConserved

\* No interleaving of calls, timeouts, restarts and Close hands a container
\* to two calls of RunCode, loses one, or moves one to another pool.
THEOREM SlotsConserved == Spec => []SlotConserved
  BY PoolInvariant, OnePlace, PTL

\* A proper subset of a pool leaves room in its channel.
LEMMA RoomLeft ==
  ASSUME PoolInv, NEW s \in Slots, s \notin idle[LangOf[s]]
  PROVE  Cardinality(idle[LangOf[s]]) < Cardinality(SlotsOf(LangOf[s]))
  <1> DEFINE P == SlotsOf(LangOf[s])
             I == idle[LangOf[s]]
  <1>1. P \subseteq Slots /\ s \in P
    BY DEF SlotsOf
  <1>2. I \subseteq P
    BY PoolAssumption DEF PoolInv, Homes
  <1>3. IsFiniteSet(P)
    BY <1>1, PoolAssumption, FS_Subset
  <1>4. /\ Cardinality(I) <= Cardinality(P)
        /\ Cardinality(P) = Cardinality(I) => P = I
        /\ IsFiniteSet(I)
    BY <1>2, <1>3, FS_Subset
  <1>5. Cardinality(I) \in Nat /\ Cardinality(P) \in Nat
    BY <1>3, <1>4, FS_CardinalityType
  <1>6. Cardinality(P) # Cardinality(I)
    BY <1>1, <1>4
  <1>7. QED
    BY <1>4, <1>5, <1>6

\* Neither Release nor replenish can block on the send that returns a slot,
\* for a slot that is not in its channel is what makes the room for it.
THEOREM PutsNeverBlock == Spec => []PutNeverBlocks
  <1>1. PoolInv => PutNeverBlocks
    <2> SUFFICES ASSUME PoolInv PROVE PutNeverBlocks
      OBVIOUS
    <2>1. ASSUME NEW w \in Runners, pc[w] = "put"
          PROVE  Cardinality(idle[lang[w]]) < Cardinality(SlotsOf(lang[w]))
      <3>1. slot[w] \in Slots /\ LangOf[slot[w]] = lang[w]
        BY <2>1 DEF PoolInv, TypeOK, CallShape, Holding
      <3>2. slot[w] \notin idle[LangOf[slot[w]]]
        BY <3>1 DEF PoolInv, Apart
      <3>3. QED
        BY <3>1, <3>2, RoomLeft
    <2>2. ASSUME NEW s \in Slots, rep[s] = "put"
          PROVE  Cardinality(idle[LangOf[s]]) < Cardinality(SlotsOf(LangOf[s]))
      <3>1. s \notin idle[LangOf[s]]
        BY <2>2 DEF PoolInv, Apart
      <3>2. QED
        BY <3>1, RoomLeft
    <2>3. QED
      BY <2>1, <2>2 DEF PutNeverBlocks
  <1>2. QED
    BY PoolInvariant, <1>1, PTL

\* While the pool is open, only a container whose restart failed MaxRestart
\* times in a row leaves it.
THEOREM PoolShrinksOnlyByRestarts == Spec => []ShrinksOnlyByRestarts
  <1>1. PoolInv => ShrinksOnlyByRestarts
    BY DEF PoolInv
  <1>2. QED
    BY PoolInvariant, <1>1, PTL
-----------------------------------------------------------------------------
\* Where a slot is whose task ran into the deadline, and which replenish has not
\* given back without stopping it: on its way to a restart, being restarted, or
\* dropped.
OverdueHeld ==
  \A s \in overdue \ unstopped :
    \/ s \in gone
    \/ rep[s] = "restart"
    \/ \E w \in Runners : slot[w] = s /\ pc[w] = "release" /\ ~healthy[w]

\* One slot that stays in one of these places.
LEMMA OverdueKept ==
  ASSUME PoolInv, OverdueHeld, [Next]_vars, NEW s \in overdue \ unstopped
  PROVE  \/ s \notin overdue' \ unstopped'
         \/ s \in gone'
         \/ rep'[s] = "restart"
         \/ \E w \in Runners : slot'[w] = s /\ pc'[w] = "release" /\ ~healthy'[w]
  <1> USE DEF poolVars, runVars, repVars, taskVars
  <1>t. /\ s \in Slots
        /\ pc \in [Runners -> {"idle", "wait", "file", "exec", "release", "put"}]
        /\ slot \in [Runners -> Slots \cup {NoSlot}]
        /\ healthy \in [Runners -> BOOLEAN]
        /\ rep \in [Slots -> {"none", "restart", "put"}]
    BY DEF PoolInv, TypeOK
  <1>g. gone \subseteq gone'
    BY DEF Next, RunStep, Replenish, Enter, Take, Refused, CreateFile, Exec, Release,
      ReleasePut, Put, RestartFail, RestartOK, ReplenishPut, CloseFlag, CloseChan, vars
  <1>1. CASE s \in gone
    BY <1>1, <1>g
  <1>2. CASE rep[s] = "restart"
    <2>1. CASE \E w \in Runners : Release(w)
      <3>1. rep'[s] = "restart"
        BY <1>t, <1>2, <2>1 DEF Release
      <3>2. QED
        BY <3>1
    <2>2. CASE \E x \in Slots : Replenish(x)
      BY <1>t, <1>2, <2>2 DEF Replenish, RestartFail, RestartOK, ReplenishPut, Stop
    <2>3. CASE rep' = rep
      BY <1>2, <2>3
    <2>4. QED
      BY <2>1, <2>2, <2>3 DEF Next, RunStep, Enter, Take, Refused, CreateFile, Exec,
        ReleasePut, CloseFlag, CloseChan, vars
  <1>3. CASE \E w \in Runners : slot[w] = s /\ pc[w] = "release" /\ ~healthy[w]
    <2>1. PICK v \in Runners : slot[v] = s /\ pc[v] = "release" /\ ~healthy[v]
      BY <1>3
    <2>2. CASE Release(v)
      BY <1>t, <2>1, <2>2 DEF Release
    <2>3. CASE ~Release(v)
      <3>1. slot'[v] = slot[v] /\ pc'[v] = pc[v] /\ healthy'[v] = healthy[v]
        <4>1. CASE \E w \in Runners : RunStep(w) \/ \E l \in Langs : Enter(w, l)
          BY <1>t, <2>1, <2>3, <4>1 DEF RunStep, Enter, Take, Refused, CreateFile,
            Exec, Release, ReleasePut, Finish
        <4>2. CASE UNCHANGED runVars
          BY <4>2
        <4>3. QED
          BY <4>1, <4>2 DEF Next, Replenish, RestartFail, RestartOK, ReplenishPut,
            CloseFlag, CloseChan, vars
      <3>2. QED
        BY <2>1, <3>1
    <2>4. QED
      BY <2>2, <2>3
  <1>4. QED
    BY <1>1, <1>2, <1>3 DEF OverdueHeld

\* A slot comes to be overdue in Exec only.
LEMMA OverdueNew ==
  ASSUME PoolInv, [Next]_vars, NEW s \in overdue' \ unstopped', s \notin overdue \ unstopped
  PROVE  \E w \in Runners :
           Exec(w) /\ s = slot[w] /\ healthy' = [healthy EXCEPT ![w] = FALSE]
  <1> USE DEF poolVars, runVars, repVars, taskVars
  <1>1. CASE UNCHANGED taskVars
    BY <1>1
  <1>2. CASE \E x \in Slots : RestartFail(x) \/ RestartOK(x)
    BY <1>2 DEF RestartFail, RestartOK, Stop
  <1>3. CASE \E w \in Runners : Exec(w)
    BY <1>3 DEF Exec
  <1>4. QED
    BY <1>1, <1>2, <1>3 DEF Next, RunStep, Replenish, Enter, Take, Refused, CreateFile,
      Release, ReleasePut, ReplenishPut, CloseFlag, CloseChan, vars

LEMMA OverdueNext == PoolInv /\ OverdueHeld /\ [Next]_vars => OverdueHeld'
  <1> SUFFICES ASSUME PoolInv, OverdueHeld, [Next]_vars, NEW s \in overdue' \ unstopped'
               PROVE  \/ s \in gone'
                      \/ rep'[s] = "restart"
                      \/ \E w \in Runners : slot'[w] = s /\ pc'[w] = "release" /\ ~healthy'[w]
    BY DEF OverdueHeld
  <1>1. CASE s \in overdue \ unstopped
    BY <1>1, OverdueKept
  <1>2. CASE s \notin overdue \ unstopped
    <2>1. PICK w \in Runners : Exec(w) /\ s = slot[w] /\ healthy' = [healthy EXCEPT ![w] = FALSE]
      BY <1>2, OverdueNew
    <2>2. pc'[w] = "release" /\ slot'[w] = s /\ ~healthy'[w]
      BY <2>1 DEF Exec, PoolInv, TypeOK
    <2>3. QED
      BY <2>2
  <1>3. QED
    BY <1>1, <1>2

\* A container whose task was cut off at the deadline serves no other call while
\* that task may still run, whatever Close and the other calls do meanwhile,
\* unless every ContainerStop of replenish failed on it (pool.go:137).
THEOREM OverdueAlwaysRestarted == Spec => []OverdueRestarted
  <1>1. Init => OverdueHeld
    BY DEF Init, OverdueHeld
  <1>2. PoolInv /\ OverdueHeld => OverdueRestarted
    <2> SUFFICES ASSUME PoolInv, OverdueHeld, NEW s \in overdue \ unstopped
                 PROVE  /\ \A l \in Langs : s \notin idle[l]
                        /\ \A w \in Runners : slot[w] = s => pc[w] = "release"
      BY DEF OverdueRestarted
    <2>1. s \in Slots /\ slot \in [Runners -> Slots \cup {NoSlot}] /\ NoSlot \notin Slots
      BY PoolAssumption DEF PoolInv, TypeOK
    <2>2. s \notin idle[LangOf[s]]
      BY <2>1 DEF OverdueHeld, PoolInv, Apart
    <2>3. \A l \in Langs : s \notin idle[l]
      BY <2>1, <2>2 DEF PoolInv, Homes, SlotsOf
    <2>4. \A w \in Runners : slot[w] = s => pc[w] = "release"
      BY <2>1 DEF OverdueHeld, PoolInv, Apart, HeldOnce
    <2>5. QED
      BY <2>3, <2>4
  <1>3. QED
    BY PoolInvariant, OverdueNext, <1>1, <1>2, PTL DEF Spec
=============================================================================
