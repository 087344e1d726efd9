-------------------------------- MODULE Login --------------------------------
(***************************************************************************)
(* Login with GitHub, the cookie it ends in, and the tokens of the gRPC    *)
(* interface.  No session is kept: a login lives in the signed state that  *)
(* travels through GitHub, a user in the signed cookie, and what decides   *)
(* is the clock.  The jwt library has one clock for the whole process, the *)
(* variable jwt.TimeFunc.  Parse, which checks a cookie, puts a clock of   *)
(* its own there for as long as it runs; Verify, which checks the token of *)
(* every gRPC call, reads whatever is there.  The clock counts seconds, to *)
(* which the library cuts the times in a token.                            *)
(***************************************************************************)
EXTENDS Integers

CONSTANTS
  Requests,    \* HTTP requests of one browser that can be under way at once
  TTL,         \* life of a cookie's token, and the cookie's MaxAge
  StateTTL,    \* life of the state of a login
  GrantTTL,    \* life of a gRPC token
  MaxTime,     \* bound on the clock
  Real,        \* the value of TimeFunc that reads the clock
  None

Times == 0..MaxTime
Token == [iat : Times, exp : Nat]

ASSUME LoginAssumption ==
  /\ {TTL, StateTTL, GrantTTL} \subseteq Nat \ {0}
  /\ MaxTime \in Nat
  /\ Real \notin Nat
  /\ None \notin Nat /\ None \notin Requests
  /\ None \notin Token

VARIABLES
  now,
  timeFunc,    \* jwt.TimeFunc: Real, or the instant a Parse has put there
  state,       \* when the state of the login that was begun last expires
  cookie,      \* the token in the browser's cookie
  till,        \* when the browser drops the cookie
  grant,       \* when the gRPC token given out last expires
  pc,
  tok,         \* the token a request carries, or has just made
  at,          \* the instant a request passes to Parse
  old,         \* Parse: oldTimeFunc
  res,         \* what a request was, or will be, told
  \* for the properties
  first,       \* the Parse that began when no other was running
  crossed,     \* first has put the clock back before another Parse has
  shared       \* two Parses overlap, or have since the last time none ran

jwtVars == <<timeFunc, old, first, crossed, shared>>
browserVars == <<state, cookie, till>>
reqVars == <<pc, tok, at, res>>
vars == <<now, jwtVars, browserVars, grant, reqVars>>

InParse == {"swap", "valid", "restore"}
Parsing == {r \in Requests : pc[r] \in InParse}

TypeOK ==
  /\ now \in Times
  /\ timeFunc \in Times \cup {Real}
  /\ state \in Nat \cup {None} /\ grant \in Nat \cup {None}
  /\ cookie \in Token \cup {None} /\ till \in Nat
  /\ pc \in [Requests -> {"idle", "ask", "sign", "set", "save"} \cup InParse]
  /\ tok \in [Requests -> Token \cup {None}]
  /\ \A r \in Requests : pc[r] \in InParse \cup {"save", "set"} => tok[r] \in Token
  /\ at \in [Requests -> Times]
  /\ old \in [Requests -> Times \cup {Real}]
  /\ res \in [Requests -> {"none", "login", "user", "expired", "early", "anonymous", "failed"}]
  /\ first \in Requests \cup {None}
  /\ crossed \in BOOLEAN /\ shared \in BOOLEAN

Init ==
  /\ now = 0 /\ timeFunc = Real
  /\ state = None /\ cookie = None /\ till = 0
  /\ grant = None
  /\ pc = [r \in Requests |-> "idle"]
  /\ tok = [r \in Requests |-> None]
  /\ at = [r \in Requests |-> 0]
  /\ old = [r \in Requests |-> Real]
  /\ res = [r \in Requests |-> "none"]
  /\ first = None /\ crossed = FALSE /\ shared = FALSE
-----------------------------------------------------------------------------
Goto(r, l) == pc' = [pc EXCEPT ![r] = l]

Tell(r, v) == res' = [res EXCEPT ![r] = v] /\ Goto(r, "idle")

\* What the library's Valid says of a token at instant t.
Verdict(token, t) ==
  IF t >= token.exp THEN "expired" ELSE IF t < token.iat THEN "early" ELSE "user"

\* What TimeFunc() returns.
Clock == IF timeFunc = Real THEN now ELSE timeFunc

(* /auth/github/login and /auth/github/callback.                           *)

\* The state that travels through GitHub: when it expires.
SignState == now + StateTTL

VerifyState == now <= state

LoginURL ==
  /\ state' = SignState
  /\ UNCHANGED <<now, jwtVars, cookie, till, grant, reqVars>>

\* GitHub sends the browser back, once, perhaps without a code, or with a
\* state that is over by now.
Callback(r) ==
  /\ pc[r] = "idle" /\ state # None
  /\ \/ VerifyState /\ Goto(r, "ask") /\ res' = [res EXCEPT ![r] = "none"]
     \/ Tell(r, "failed")
  /\ tok' = [tok EXCEPT ![r] = None]
  /\ state' = None
  /\ UNCHANGED <<now, jwtVars, cookie, till, grant, at>>

\* The two calls to GitHub, ExchangeCode and FetchUser: each may take its
\* time, and fail.
AskGitHub(r) ==
  /\ pc[r] = "ask"
  /\ (Goto(r, "sign") /\ UNCHANGED res) \/ Tell(r, "failed")
  /\ UNCHANGED <<now, jwtVars, browserVars, grant, tok, at>>

FaultySign(r) ==
  /\ pc[r] = "sign"
  /\ tok' = [tok EXCEPT ![r] = [iat |-> now, exp |-> now + StateTTL]]
  /\ Goto(r, "set")
  /\ UNCHANGED <<now, jwtVars, browserVars, grant, at, res>>

Sign(r) ==
  /\ pc[r] = "sign"
  /\ tok' = [tok EXCEPT ![r] = [iat |-> now, exp |-> now + TTL]]
  /\ Goto(r, "set")
  /\ UNCHANGED <<now, jwtVars, browserVars, grant, at, res>>

\* The browser counts MaxAge from the time it gets the cookie.
SetCookie(r) ==
  /\ pc[r] = "set"
  /\ cookie' = tok[r] /\ till' = now + TTL
  /\ Tell(r, "login")
  /\ UNCHANGED <<now, jwtVars, state, grant, tok, at>>

Logout ==
  /\ cookie' = None /\ till' = 0
  /\ UNCHANGED <<now, jwtVars, state, grant, reqVars>>
-----------------------------------------------------------------------------
(* /auth/me.                                                               *)

Me(r) ==
  /\ pc[r] = "idle"
  /\ IF cookie # None /\ now < till
       THEN /\ tok' = [tok EXCEPT ![r] = cookie]
            /\ at' = [at EXCEPT ![r] = now]
            /\ Goto(r, "save") /\ res' = [res EXCEPT ![r] = "none"]
       ELSE /\ tok' = [tok EXCEPT ![r] = None]
            /\ Tell(r, "anonymous") /\ UNCHANGED at
  /\ UNCHANGED <<now, jwtVars, browserVars, grant>>

\* Parse, one step per access to jwt.TimeFunc.
Save(r) ==
  /\ pc[r] = "save"
  /\ old' = [old EXCEPT ![r] = timeFunc]
  /\ first' = IF Parsing = {} THEN r ELSE first
  /\ shared' = (Parsing # {})
  /\ Goto(r, "swap")
  /\ UNCHANGED <<now, timeFunc, crossed, browserVars, grant, tok, at, res>>

FaultySwap(r) ==
  /\ pc[r] = "swap"
  /\ timeFunc' = Real
  /\ Goto(r, "valid")
  /\ UNCHANGED <<now, old, first, crossed, shared, browserVars, grant, tok, at, res>>

Swap(r) ==
  /\ pc[r] = "swap"
  /\ timeFunc' = at[r]
  /\ Goto(r, "valid")
  /\ UNCHANGED <<now, old, first, crossed, shared, browserVars, grant, tok, at, res>>

Valid(r) ==
  /\ pc[r] = "valid"
  /\ res' = [res EXCEPT ![r] = Verdict(tok[r], Clock)]
  /\ Goto(r, "restore")
  /\ UNCHANGED <<now, jwtVars, browserVars, grant, tok, at>>

\* The rest of Parse's return, and what it means for the ghosts.
PutBack(r) ==
  /\ old' = [old EXCEPT ![r] = Real] /\ at' = [at EXCEPT ![r] = 0]
  /\ crossed' = (crossed \/ (r = first /\ Parsing # {r}))
  /\ first' = IF Parsing = {r} THEN None ELSE first
  /\ shared' = (shared /\ Parsing # {r})
  /\ Goto(r, "idle")
  /\ UNCHANGED <<now, browserVars, grant, tok, res>>

FaultyRestore(r) ==
  /\ pc[r] = "restore"
  /\ timeFunc' = IF res[r] = "user" THEN old[r] ELSE timeFunc
  /\ PutBack(r)

Restore(r) ==
  /\ pc[r] = "restore"
  /\ timeFunc' = old[r]
  /\ PutBack(r)
-----------------------------------------------------------------------------
(* The gRPC tokens.  They carry no time of issue.                          *)

\* GenerateToken with the right password; with any other nothing happens.
Public ==
  /\ grant' = now + GrantTTL
  /\ UNCHANGED <<now, jwtVars, browserVars, reqVars>>

Verify(exp) == Clock < exp

\* The interceptor of every other call: whether the caller is served now.  The
\* check leaves no trace.
Intercept == grant # None /\ Verify(grant)

Tick ==
  /\ now < MaxTime /\ now' = now + 1
  /\ UNCHANGED <<jwtVars, browserVars, grant, reqVars>>

Next ==
  \/ LoginURL \/ Logout \/ Public \/ Tick
  \/ \E r \in Requests :
       \/ Callback(r) \/ AskGitHub(r) \/ Sign(r) \/ SetCookie(r)
       \/ Me(r) \/ Save(r) \/ Swap(r) \/ Valid(r) \/ Restore(r)

Spec == Init /\ [][Next]_vars
-----------------------------------------------------------------------------
\* However the Parses interleave, nobody is sent away early: a token is
\* called expired only when the full time since it was issued has passed,
\* because every clock that a Parse leaves behind is slow, never fast.
NoEarlyExpiry ==
  /\ \A r \in Requests : res[r] = "expired" => now >= tok[r].iat + TTL
  /\ grant # None /\ ~Intercept => now >= grant

\* When no Parse runs, the library reads the real clock (the defer at
\* jwt.go:57), and while one runs alone, that clock or the instant of this
\* Parse: a gRPC call is then served only if its token is alive, or was when
\* the Parse beside it began.  It needs that the Parse that found the real
\* clock has never put it back while another one was running, which then puts
\* back a stopped clock; other overlaps have no effect once they are over.
ClockHome ==
  ~crossed =>
    /\ Parsing = {} => timeFunc = Real
    /\ ~shared => timeFunc \in {Real} \cup {at[r] : r \in Parsing}

\* A Parse that runs alone judges the cookie by its own instant.
SoleVerdictRight ==
  [][~crossed /\ ~shared =>
       \A r \in Requests : pc[r] = "valid" /\ pc'[r] = "restore" =>
         res'[r] = Verdict(tok[r], at[r])]_vars
=============================================================================
