---------------------------- MODULE SessionStore ----------------------------
(***************************************************************************)
(* The inside of FileStore, for one session id: the mutex that getLock     *)
(* finds or makes in the map locks, the cached SessionMeta in metas, the   *)
(* meta file and the JSONL file, used by the requests to the agent and by  *)
(* the cleanup goroutine, across restarts of the process.                  *)
(*                                                                         *)
(* One access to shared state is one step, inside the mutex too: Delete    *)
(* takes the mutex out of the map while it holds it, so that two mutexes   *)
(* of one session can be in use at once, and GetMeta takes none.           *)
(*                                                                         *)
(* A request is a script of calls of the store, fixed by the answer of its *)
(* GetMeta.  A turn has two messages.  A request that appends more than    *)
(* one turn numbers them by the calls it has left.                         *)
(***************************************************************************)
EXTENDS Integers, Sequences, FiniteSets

CONSTANTS
  Requests,     \* requests to the agent
  Cleaner,      \* the goroutine of StartCleanup
  Articles,
  Mutexes,      \* mutex objects; one that nobody refers to is used again
  TTL, MaxTime, \* in ticks of the clock; MaxTime bounds it
  MaxFaults,    \* bound on restarts and failed file operations
  None, Corrupt,
  Torn, Junk    \* lines of the JSONL file, see Line

Procs == Requests \cup {Cleaner}

\* GetMeta and cleanExpired read LastActiveAt while touchMeta may be writing
\* it.  Between two readings of the monotonic clock the reader gets the old or
\* the new one.  A meta that was loaded from disk has a wall clock reading, and
\* while its words are being replaced ("torn") time.Since may give anything.
Meta == [art : Articles, active : 0..MaxTime]
CachedMeta == [art : Articles, active : 0..MaxTime, clock : {"wall", "mono", "torn"}]

Turn == Requests \X Nat

\* A line is a message of a turn, or what a partial write has left at the end
\* of the file ("Torn": it has no newline yet), or a line that began that way
\* and was ended by the message written next: GetMessages skips it as malformed.
Line == (Turn \X {1, 2}) \cup {Torn, Junk}

ASSUME StoreAssumption ==
  /\ Cleaner \notin Requests
  /\ None \notin Procs \cup Mutexes \cup Articles
  /\ {None, Corrupt} \cap (Meta \cup CachedMeta) = {} /\ Corrupt # None
  /\ None \notin Seq(Line)
  /\ Torn # Junk /\ {Torn, Junk} \cap (Turn \X {1, 2}) = {}
  /\ TTL \in Nat /\ MaxTime \in Nat /\ MaxFaults \in Nat
  /\ IsFiniteSet(Requests) /\ IsFiniteSet(Mutexes)
  /\ Cardinality(Mutexes) > Cardinality(Requests)  \* a new one can always be made

VARIABLES
  now,
  locks,     \* the mutex of the session in the map, or None
  owner,     \* who holds a mutex
  metas,     \* the cached meta
  metaFile,  \* the meta file: None, Corrupt, or a meta
  jsonl,     \* the JSONL file: None, or the lines in it
  pc,
  todo,      \* the calls the request has still to make; the first is running
  art,       \* the article of a chat, or None
  mu,        \* the mutex the call has fetched
  copy,      \* the meta a call has read from disk, or is about to write there
  gone,      \* calls whose open file has been unlinked
  crashes, errors,
  \* for the properties
  acked,     \* turns whose Append returned nil, since the file was made
  crossed    \* a mutex in use was dropped, or an outdated meta was cached

diskVars == <<metaFile, jsonl>>
lockVars == <<locks, owner, mu>>
boundVars == <<now, crashes, errors>>
vars == <<diskVars, lockVars, art, boundVars, metas, pc, todo, copy, gone,
          acked, crossed>>

Plain(m) == [art |-> m.art, active |-> m.active]

Critical == {"create", "fill", "newfile", "cache", "append", "write1", "write2",
             "touch", "mark", "trunc", "save", "delete", "rmmeta", "uncache",
             "droplock", "read"}

TypeOK ==
  /\ now \in 0..MaxTime /\ crashes \in 0..MaxFaults /\ errors \in 0..MaxFaults
  /\ locks \in Mutexes \cup {None}
  /\ owner \in [Mutexes -> Procs \cup {None}]
  /\ metas \in CachedMeta \cup {None}
  /\ metaFile \in Meta \cup {None, Corrupt}
  /\ jsonl = None \/ jsonl \in Seq(Line)
  /\ pc \in [Procs -> Critical \cup {"new", "meta", "readMeta", "storeMeta",
                                     "next", "lock", "done"}]
  /\ todo \in [Procs -> Seq({"create", "append", "delete", "read"})]
  /\ art \in [Procs -> Articles \cup {None}]
  /\ mu \in [Procs -> Mutexes \cup {None}]
  /\ copy \in [Procs -> Meta \cup {None}]
  /\ gone \subseteq Requests /\ acked \subseteq Turn
  /\ crossed \in BOOLEAN

\* The store starts on an empty directory, or on the files of a session that
\* an earlier process has left.
Init ==
  /\ now = 0 /\ crashes = 0 /\ errors = 0
  /\ locks = None /\ owner = [m \in Mutexes |-> None]
  /\ metas = None
  /\ \/ metaFile = None /\ jsonl = None
     \/ \E a \in Articles : metaFile = [art |-> a, active |-> 0] /\ jsonl = <<>>
  /\ pc = [p \in Procs |-> IF p = Cleaner THEN "next" ELSE "new"]
  /\ todo = [p \in Procs |-> <<>>]
  /\ art = [p \in Procs |-> None]
  /\ mu = [p \in Procs |-> None]
  /\ copy = [p \in Procs |-> None]
  /\ gone = {} /\ acked = {} /\ crossed = FALSE
-----------------------------------------------------------------------------
Goto(p, l) == pc' = [pc EXCEPT ![p] = l]

\* What time.Since(meta.LastActiveAt) > s.ttl may give.
Stale(m) == IF m.clock = "torn" THEN BOOLEAN ELSE {now - m.active > TTL}

(* The requests.                                                           *)

\* A request arrives, with an article if it is a chat that brings one.
Arrive(p, a) ==
  /\ pc[p] = "new"
  /\ art' = [art EXCEPT ![p] = a]
  /\ Goto(p, "meta")
  /\ UNCHANGED <<diskVars, lockVars, boundVars, metas, todo, copy, gone, acked, crossed>>

\* What requests do next when GetMeta has answered with the article of the
\* session, or None: a chat creates, continues or resets it, a confirmation
\* appends the tool call, and then what the resumed run has produced, if it has
\* (confirm.go:153, 220), GET /sessions/:id/messages reads, a cancel and GET
\* /sessions are done, and so is a visitor who does not own the session.
Scripts(p, a) ==
  IF a = None
    THEN {IF art[p] = None THEN <<>> ELSE <<"create", "read", "append">>}
  ELSE IF art[p] = None
    THEN {<<"read", "append">>, <<"append">>, <<"append", "append">>, <<"read">>, <<>>}
  ELSE IF art[p] = a
    THEN {<<"read", "append">>, <<>>}
  ELSE {<<"delete", "create", "read", "append">>, <<>>}

Answer(p, a) ==
  /\ \E script \in Scripts(p, a) : todo' = [todo EXCEPT ![p] = script]
  /\ Goto(p, "next")

Return(p) ==
  /\ p # Cleaner
  /\ pc[p] = "next" /\ todo[p] = <<>>
  /\ Goto(p, "done")
  /\ UNCHANGED <<diskVars, lockVars, art, boundVars, metas, todo, copy, gone,
                 acked, crossed>>
-----------------------------------------------------------------------------
(* GetMeta, which takes no lock.                                           *)

LoadMeta(p) ==
  /\ pc[p] = "meta"
  /\ IF metas # None
       THEN \E stale \in Stale(metas) : Answer(p, IF stale THEN None ELSE metas.art)
       ELSE Goto(p, "readMeta") /\ UNCHANGED todo
  /\ UNCHANGED <<diskVars, lockVars, art, boundVars, metas, copy, gone, acked, crossed>>

ReadMeta(p) ==
  /\ pc[p] = "readMeta"
  /\ IF metaFile \in {None, Corrupt} \/ now - metaFile.active > TTL
       THEN Answer(p, None) /\ UNCHANGED copy
       ELSE /\ copy' = [copy EXCEPT ![p] = metaFile]
            /\ Goto(p, "storeMeta") /\ UNCHANGED todo
  /\ UNCHANGED <<diskVars, lockVars, art, boundVars, metas, gone, acked, crossed>>

StoreMeta(p) ==
  /\ pc[p] = "storeMeta"
  /\ metas' = [art |-> copy[p].art, active |-> copy[p].active, clock |-> "wall"]
  /\ Answer(p, copy[p].art)
  /\ copy' = [copy EXCEPT ![p] = None]
  /\ crossed' = (crossed \/ metaFile # copy[p] \/ metas \notin {None, metas'})
  /\ UNCHANGED <<diskVars, lockVars, art, boundVars, gone, acked>>
-----------------------------------------------------------------------------
(* The calls under the mutex of the session.                               *)

\* getLock: LoadOrStore.
GetLock(p) ==
  /\ pc[p] = "next" /\ todo[p] # <<>>
  /\ IF locks # None
       THEN mu' = [mu EXCEPT ![p] = locks] /\ UNCHANGED locks
       ELSE LET m == CHOOSE x \in Mutexes : \A q \in Procs : mu[q] # x
            IN locks' = m /\ mu' = [mu EXCEPT ![p] = m]
  /\ Goto(p, "lock")
  /\ UNCHANGED <<diskVars, art, boundVars, owner, metas, todo, copy, gone, acked, crossed>>

Lock(p) ==
  /\ pc[p] = "lock" /\ owner[mu[p]] = None
  /\ owner' = [owner EXCEPT ![mu[p]] = p]
  /\ Goto(p, Head(todo[p]))
  /\ UNCHANGED <<diskVars, art, boundVars, locks, mu, metas, todo, copy, gone,
                 acked, crossed>>

\* The deferred Unlock.
Unlock(p, rest) ==
  /\ owner' = [owner EXCEPT ![mu[p]] = None]
  /\ mu' = [mu EXCEPT ![p] = None]
  /\ todo' = [todo EXCEPT ![p] = rest]
  /\ Goto(p, "next")

\* A file operation of p fails and its call returns the error: what the request
\* then has left is rest.
Fail(p, rest) ==
  /\ crashes + errors < MaxFaults /\ errors' = errors + 1
  /\ Unlock(p, rest)
  /\ UNCHANGED <<now, crashes>>

\* A file operation fails and the call goes on regardless.
IgnoredError ==
  /\ crashes + errors < MaxFaults /\ errors' = errors + 1
  /\ UNCHANGED <<now, crashes>>

(* CreateWithArticle.  os.WriteFile truncates the file, then writes it.    *)

TruncMeta(p) ==
  /\ pc[p] = "create"
  /\ \/ /\ metaFile' = Corrupt
        /\ copy' = [copy EXCEPT ![p] = [art |-> art[p], active |-> now]]
        /\ Goto(p, "fill")
        /\ UNCHANGED <<lockVars, boundVars, todo>>
     \/ Fail(p, <<>>) /\ UNCHANGED <<metaFile, copy, locks>>
  /\ UNCHANGED <<jsonl, art, metas, gone, acked, crossed>>

FillMeta(p) ==
  /\ pc[p] = "fill"
  /\ \/ /\ metaFile' = copy[p]
        /\ Goto(p, "newfile")
        /\ UNCHANGED <<lockVars, boundVars, todo, copy>>
     \/ /\ Fail(p, <<>>)
        /\ copy' = [copy EXCEPT ![p] = None]
        /\ UNCHANGED <<metaFile, locks>>
  /\ UNCHANGED <<jsonl, art, metas, gone, acked, crossed>>

\* os.Create.
NewFile(p) ==
  /\ pc[p] = "newfile"
  /\ \/ /\ jsonl' = <<>> /\ acked' = {}
        /\ Goto(p, "cache")
        /\ UNCHANGED <<lockVars, boundVars, todo, copy>>
     \/ /\ Fail(p, <<>>)
        /\ copy' = [copy EXCEPT ![p] = None]
        /\ UNCHANGED <<jsonl, acked, locks>>
  /\ UNCHANGED <<metaFile, art, metas, gone, crossed>>

CacheMeta(p) ==
  /\ pc[p] = "cache"
  /\ metas' = [art |-> copy[p].art, active |-> copy[p].active, clock |-> "mono"]
  /\ copy' = [copy EXCEPT ![p] = None]
  /\ Unlock(p, Tail(todo[p]))
  /\ UNCHANGED <<diskVars, locks, art, boundVars, gone, acked, crossed>>

(* GetMessages.                                                            *)

FaultyReadMessages(p) ==
  /\ pc[p] = "read"
  /\ IF jsonl = None
       THEN /\ todo' = [todo EXCEPT ![p] = <<>>] /\ Goto(p, "next")
            /\ UNCHANGED <<owner, mu>>
       ELSE Unlock(p, Tail(todo[p]))
  /\ UNCHANGED <<diskVars, locks, art, boundVars, metas, copy, gone, acked, crossed>>

ReadMessages(p) ==
  /\ pc[p] = "read"
  /\ Unlock(p, IF jsonl = None THEN <<>> ELSE Tail(todo[p]))
  /\ UNCHANGED <<diskVars, locks, art, boundVars, metas, copy, gone, acked, crossed>>

(* Append and touchMeta.  The handlers ignore the error of Append.         *)

FaultyOpen(p) ==
  /\ pc[p] = "append"
  /\ \/ /\ jsonl' = <<>>
        /\ gone' = gone \ {p}
        /\ Goto(p, "write1")
        /\ UNCHANGED <<lockVars, boundVars, todo>>
     \/ Fail(p, Tail(todo[p])) /\ UNCHANGED <<jsonl, gone, locks>>
  /\ UNCHANGED <<metaFile, art, metas, copy, acked, crossed>>

\* O_APPEND|O_CREATE: a missing file is made.
Open(p) ==
  /\ pc[p] = "append"
  /\ \/ /\ jsonl' = IF jsonl = None THEN <<>> ELSE jsonl
        /\ gone' = gone \ {p}
        /\ Goto(p, "write1")
        /\ UNCHANGED <<lockVars, boundVars, todo>>
     \/ Fail(p, Tail(todo[p])) /\ UNCHANGED <<jsonl, gone, locks>>
  /\ UNCHANGED <<metaFile, art, metas, copy, acked, crossed>>

TurnOf(p) == <<p, Len(todo[p])>>

EndsTorn(f) == f # <<>> /\ f[Len(f)] = Torn

\* A message and its newline are written at the end of the file as it is then.
AddLine(f, x) == IF EndsTorn(f) THEN [f EXCEPT ![Len(f)] = Junk] ELSE Append(f, x)

\* Only a part of them is.
Tear(f) == IF EndsTorn(f) THEN f ELSE Append(f, Torn)

\* One Write for each message.
Write(p, i) ==
  /\ pc[p] = IF i = 1 THEN "write1" ELSE "write2"
  /\ \/ /\ jsonl' = IF p \in gone THEN jsonl ELSE AddLine(jsonl, <<TurnOf(p), i>>)
        /\ Goto(p, IF i = 1 THEN "write2" ELSE "touch")
        /\ UNCHANGED <<lockVars, boundVars, todo>>
     \/ /\ Fail(p, Tail(todo[p]))
        /\ \/ UNCHANGED jsonl
           \/ p \notin gone /\ jsonl' = Tear(jsonl)
        /\ UNCHANGED locks
  /\ UNCHANGED <<metaFile, art, metas, copy, gone, acked, crossed>>

\* The call returns nil: the turn is on record.
Ack(p) == acked' = IF p \in gone THEN acked ELSE acked \cup {TurnOf(p)}

Touch(p) ==
  /\ pc[p] = "touch"
  /\ IF metas = None
       THEN /\ Unlock(p, Tail(todo[p])) /\ Ack(p)
            /\ UNCHANGED <<metas, copy>>
       ELSE /\ copy' = [copy EXCEPT ![p] = [art |-> metas.art, active |-> now]]
            /\ IF metas.clock = "wall"
                 THEN metas' = [metas EXCEPT !.clock = "torn"] /\ Goto(p, "mark")
                 ELSE /\ metas' = [metas EXCEPT !.active = now, !.clock = "mono"]
                      /\ Goto(p, "trunc")
            /\ UNCHANGED <<owner, mu, todo, acked>>
  /\ UNCHANGED <<diskVars, locks, art, boundVars, gone, crossed>>

\* The rest of the words; metas may hold another object by now.
Mark(p) ==
  /\ pc[p] = "mark"
  /\ metas' = IF metas # None /\ metas.clock = "torn"
                THEN [metas EXCEPT !.active = copy[p].active, !.clock = "mono"]
                ELSE metas
  /\ Goto(p, "trunc")
  /\ UNCHANGED <<diskVars, lockVars, art, boundVars, todo, copy, gone, acked, crossed>>

\* touchMeta ignores the error of os.WriteFile, wherever it comes.
TruncSaved(p) ==
  /\ pc[p] = "trunc"
  /\ Goto(p, "save")
  /\ \/ metaFile' = Corrupt /\ UNCHANGED boundVars
     \/ IgnoredError /\ UNCHANGED metaFile
  /\ UNCHANGED <<jsonl, lockVars, art, metas, todo, copy, gone, acked, crossed>>

Save(p) ==
  /\ pc[p] = "save"
  /\ \/ metaFile' = copy[p] /\ UNCHANGED boundVars
     \/ IgnoredError /\ UNCHANGED metaFile
  /\ copy' = [copy EXCEPT ![p] = None]
  /\ Ack(p)
  /\ Unlock(p, Tail(todo[p]))
  /\ UNCHANGED <<jsonl, locks, art, metas, gone, crossed>>

(* Delete, which ignores the errors of os.Remove.                          *)

Unlink ==
  /\ jsonl' = None /\ acked' = {}
  /\ gone' = gone \cup {q \in Requests : pc[q] \in {"write1", "write2"}}

FaultyRemoveJsonl(p) ==
  /\ pc[p] = "delete"
  /\ Unlink /\ UNCHANGED boundVars
  /\ locks' = None
  /\ Goto(p, "rmmeta")
  /\ UNCHANGED <<metaFile, owner, mu, art, metas, todo, copy, crossed>>

RemoveJsonl(p) ==
  /\ pc[p] = "delete"
  /\ \/ Unlink /\ UNCHANGED boundVars
     \/ IgnoredError /\ UNCHANGED <<jsonl, acked, gone>>
  /\ Goto(p, "rmmeta")
  /\ UNCHANGED <<metaFile, lockVars, art, metas, todo, copy, crossed>>

RemoveMeta(p) ==
  /\ pc[p] = "rmmeta"
  /\ \/ metaFile' = None /\ UNCHANGED boundVars
     \/ IgnoredError /\ UNCHANGED metaFile
  /\ Goto(p, "uncache")
  /\ UNCHANGED <<jsonl, lockVars, art, metas, todo, copy, gone, acked, crossed>>

FaultyUncache(p) ==
  /\ pc[p] = "uncache"
  /\ Goto(p, "droplock")
  /\ UNCHANGED <<diskVars, lockVars, art, boundVars, metas, todo, copy, gone, acked, crossed>>

Uncache(p) ==
  /\ pc[p] = "uncache"
  /\ metas' = None
  /\ Goto(p, "droplock")
  /\ UNCHANGED <<diskVars, lockVars, art, boundVars, todo, copy, gone, acked, crossed>>

\* The mutex leaves the map, with those that wait for it.
DropLock(p) ==
  /\ pc[p] = "droplock"
  /\ locks' = None
  /\ crossed' = (crossed \/ \E q \in Procs \ {p} : mu[q] # None)
  /\ Unlock(p, Tail(todo[p]))
  /\ UNCHANGED <<diskVars, art, boundVars, metas, copy, gone, acked>>
-----------------------------------------------------------------------------
(* cleanExpired looks at what is cached, without the lock, and deletes.    *)
CleanExpired ==
  /\ pc[Cleaner] = "next" /\ todo[Cleaner] = <<>>
  /\ metas # None /\ TRUE \in Stale(metas)
  /\ todo' = [todo EXCEPT ![Cleaner] = <<"delete">>]
  /\ UNCHANGED <<diskVars, lockVars, art, boundVars, metas, pc, copy, gone,
                 acked, crossed>>

Tick ==
  /\ now < MaxTime /\ now' = now + 1
  /\ UNCHANGED <<diskVars, lockVars, art, crashes, errors, metas, pc, todo, copy,
                 gone, acked, crossed>>

\* The process dies, maybe in the middle of a Write, and is started again on the
\* same directory.
Restart ==
  /\ crashes + errors < MaxFaults /\ crashes' = crashes + 1
  /\ \/ UNCHANGED jsonl
     \/ /\ \E p \in Requests \ gone : pc[p] \in {"write1", "write2"}
        /\ jsonl' = Tear(jsonl)
  /\ locks' = None /\ owner' = [m \in Mutexes |-> None]
  /\ metas' = None
  /\ pc' = [p \in Procs |-> IF p = Cleaner THEN "next"
                            ELSE IF pc[p] = "new" THEN "new" ELSE "done"]
  /\ todo' = [p \in Procs |-> <<>>]
  /\ mu' = [p \in Procs |-> None]
  /\ copy' = [p \in Procs |-> None]
  /\ gone' = {}
  /\ UNCHANGED <<metaFile, art, now, errors, acked, crossed>>

Step(p) ==
  \/ LoadMeta(p) \/ ReadMeta(p) \/ StoreMeta(p)
  \/ GetLock(p) \/ Return(p)
  \/ TruncMeta(p) \/ FillMeta(p) \/ NewFile(p) \/ CacheMeta(p)
  \/ ReadMessages(p)
  \/ Open(p) \/ Write(p, 1) \/ Write(p, 2)
  \/ Touch(p) \/ Mark(p) \/ TruncSaved(p) \/ Save(p)
  \/ RemoveJsonl(p) \/ RemoveMeta(p) \/ Uncache(p) \/ DropLock(p)

Next ==
  \/ \E p \in Requests, a \in Articles \cup {None} : Arrive(p, a)
  \/ \E p \in Procs : Step(p) \/ Lock(p)
  \/ CleanExpired \/ Tick \/ Restart

Spec == Init /\ [][Next]_vars
-----------------------------------------------------------------------------
\* The critical sections of a session exclude each other as long as no
\* Delete has dropped a mutex that another call had fetched (store.go:212):
\* getLock then gives every call the same mutex, even though Delete replaces
\* it each time a session is reset or has expired.
LockDiscipline ==
  ~crossed =>
    \A p, q \in Procs : pc[p] \in Critical /\ pc[q] \in Critical => p = q

Damaged(f) == {i \in 1..Len(f) : f[i] \in {Torn, Junk}}

\* The turn is in the file in one piece; its first message may have been written
\* onto a torn line, and be skipped with it when the messages are read.
Recorded(t) ==
  \E i \in 1..(Len(jsonl) - 1) : jsonl[i] \in {<<t, 1>>, Junk} /\ jsonl[i + 1] = <<t, 2>>

\* A turn that Append has acknowledged stays in the JSONL file with nothing in
\* between, until the session is deleted or created again: a crash or a failed
\* write, even in the middle of a line, costs an acknowledged turn no more than
\* its first message, and no more than one turn.
TurnsWhole ==
  /\ ~crossed => \A t \in acked : Recorded(t)
  /\ jsonl # None => Cardinality(Damaged(jsonl)) <= crashes + errors

\* When no call is under way the cached meta is the one on disk, which a
\* restart will find, and the session it announces has its messages, unless
\* a file operation failed.  A restart between the removals of Delete, or
\* between the writes of CreateWithArticle, can leave a meta without them.
CacheMatchesDisk ==
  (~crossed /\ errors = 0 /\ metas # None /\ \A m \in Mutexes : owner[m] = None) =>
    /\ metaFile = Plain(metas) /\ metas.clock # "torn"
    /\ crashes = 0 => jsonl # None

\* A call waits for the mutex of the session only while the call that holds
\* it is inside its section, from where it runs to the Unlock without waiting
\* for anybody: not an early return, not a restart, not the removal of the
\* mutex from the map leaves a waiter behind.
WaitersServed ==
  \A p \in Procs :
    pc[p] = "lock" /\ owner[mu[p]] # None =>
      /\ pc[owner[mu[p]]] \in Critical
      /\ mu[owner[mu[p]]] = mu[p]
=============================================================================
