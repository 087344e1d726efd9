---------------------------- MODULE LoginProofs ----------------------------
(***************************************************************************)
(* Proofs about Login, for any number of requests and any lives of the     *)
(* tokens.                                                                 *)
(*                                                                         *)
(* NoEarlyExpiry follows from PastOnly: whatever instant has been written  *)
(* to jwt.TimeFunc, or saved from there, is over.  ClockHome needs to know *)
(* who holds the real clock while it is away: the Parse that began first,  *)
(* in its oldTimeFunc (FirstKeepsReal), and what a Parse that is alone has *)
(* written so far (AloneClock).                                            *)
(***************************************************************************)
EXTENDS Login, TLAPS

\* Every instant that Parse keeps or has written is over.
PastOnly ==
  /\ timeFunc # Real => timeFunc <= now
  /\ \A r \in Requests : at[r] <= now /\ (old[r] # Real => old[r] <= now)

\* Every token of a cookie lives as long as every other.
LivesTTL ==
  /\ cookie # None => cookie.exp = cookie.iat + TTL
  /\ \A r \in Requests : tok[r] # None => tok[r].exp = tok[r].iat + TTL

\* A request is told of the token it carries.
ToldOfToken ==
  \A r \in Requests :
    /\ pc[r] \in {"ask", "sign"} => res[r] = "none"
    /\ res[r] = "expired" => tok[r] # None /\ tok[r].exp <= now

ExpiryInv == PastOnly /\ LivesTTL /\ ToldOfToken

\* The Parse that began first is still there, with the real clock.
FirstKeepsReal ==
  ~crossed =>
    /\ Parsing = {} => timeFunc = Real
    /\ Parsing # {} => first \in Parsing /\ old[first] = Real

AloneParsing ==
  ~shared => \A r, q \in Parsing : r = q

AloneClock ==
  ~crossed /\ ~shared =>
    \A r \in Requests :
      /\ pc[r] = "swap" => timeFunc = Real
      /\ pc[r] \in {"valid", "restore"} => timeFunc = at[r]

ClockInv == FirstKeepsReal /\ AloneParsing /\ AloneClock
-----------------------------------------------------------------------------
(* Types.                                                                  *)

LEMMA InitTypes == Init => TypeOK
  <1>1. 0 \in Times
    BY LoginAssumption DEF Times
  <1>2. SUFFICES ASSUME Init
                 PROVE  TypeOK
    OBVIOUS
  <1>3. /\ first \in Requests \cup {None}
        /\ crossed \in BOOLEAN /\ shared \in BOOLEAN
    BY <1>2, Zenon DEF Init
  <1>4. /\ tok \in [Requests -> Token \cup {None}]
        /\ \A r \in Requests : pc[r] = "idle"
    BY <1>2 DEF Init
  <1>5. QED
    BY <1>1, <1>2, <1>3, <1>4, LoginAssumption DEF Init, TypeOK, InParse

\* Every action keeps the types: what it writes to the cookie is the token
\* of a request that has one.
LEMMA NextTypes == TypeOK /\ [Next]_vars => TypeOK'
  <1> SUFFICES ASSUME TypeOK, [Next]_vars
               PROVE  TypeOK'
    OBVIOUS
  <1> USE LoginAssumption DEF Times, InParse
  <1>u. /\ TTL \in Nat /\ StateTTL \in Nat /\ GrantTTL \in Nat
        /\ \A n \in Times, d \in Nat : n + d \in Nat
    OBVIOUS
  <1>1. CASE LoginURL
    BY <1>1, <1>u DEF TypeOK, LoginURL, SignState, jwtVars, reqVars
  <1>2. CASE Logout
    BY <1>2 DEF TypeOK, Logout, jwtVars, reqVars
  <1>3. CASE Public
    BY <1>3, <1>u DEF TypeOK, Public, jwtVars, browserVars, reqVars
  <1>4. CASE Tick
    BY <1>4 DEF TypeOK, Tick, jwtVars, browserVars, reqVars
  <1>5. ASSUME NEW r \in Requests, Callback(r)
        PROVE  TypeOK'
    BY <1>5 DEF TypeOK, Callback, Goto, Tell, jwtVars
  <1>6. ASSUME NEW r \in Requests, AskGitHub(r)
        PROVE  TypeOK'
    BY <1>6 DEF TypeOK, AskGitHub, Goto, Tell, jwtVars, browserVars
  <1>7. ASSUME NEW r \in Requests, Sign(r)
        PROVE  TypeOK'
    <2>1. [iat |-> now, exp |-> now + TTL] \in Token
      BY <1>u DEF TypeOK, Token
    <2>2. QED
      BY <1>7, <2>1 DEF TypeOK, Sign, Goto, jwtVars, browserVars
  <1>8. ASSUME NEW r \in Requests, SetCookie(r)
        PROVE  TypeOK'
    <2>1. tok[r] \in Token /\ now + TTL \in Nat
      BY <1>8, <1>u DEF TypeOK, SetCookie
    <2>2. QED
      BY <1>8, <2>1 DEF TypeOK, SetCookie, Goto, Tell, jwtVars
  <1>9. ASSUME NEW r \in Requests, Me(r)
        PROVE  TypeOK'
    BY <1>9 DEF TypeOK, Me, Goto, Tell, jwtVars, browserVars
  <1>10. ASSUME NEW r \in Requests, Save(r)
         PROVE  TypeOK'
    BY <1>10 DEF TypeOK, Save, Goto, browserVars
  <1>11. ASSUME NEW r \in Requests, Swap(r)
         PROVE  TypeOK'
    BY <1>11 DEF TypeOK, Swap, Goto, browserVars
  <1>12. ASSUME NEW r \in Requests, Valid(r)
         PROVE  TypeOK'
    BY <1>12 DEF TypeOK, Valid, Verdict, Goto, jwtVars, browserVars
  <1>13. ASSUME NEW r \in Requests, Restore(r)
         PROVE  TypeOK'
    BY <1>13 DEF TypeOK, Restore, PutBack, Goto, browserVars
  <1>14. CASE UNCHANGED vars
    BY <1>14 DEF TypeOK, vars, jwtVars, browserVars, reqVars
  <1>15. QED
    BY <1>1, <1>2, <1>3, <1>4, <1>5, <1>6, <1>7, <1>8, <1>9, <1>10, <1>11,
       <1>12, <1>13, <1>14 DEF Next

\* Type correctness of the login and of the state of Parse (jwt.go).
THEOREM LoginTypeCorrect == Spec => []TypeOK
  BY InitTypes, NextTypes, PTL DEF Spec
-----------------------------------------------------------------------------
(* Nobody is sent away early.                                              *)

LEMMA InitExpiry == Init => ExpiryInv
  BY LoginAssumption DEF Init, ExpiryInv, PastOnly, LivesTTL, ToldOfToken

\* A clock is put back, or kept, only from a place where it was in the past.
LEMMA PastOnlyStep == TypeOK /\ PastOnly /\ [Next]_vars => PastOnly'
  <1> SUFFICES ASSUME TypeOK, PastOnly, [Next]_vars
               PROVE  PastOnly'
    OBVIOUS
  <1> USE LoginAssumption DEF Times
  <1>1. CASE Tick
    BY <1>1 DEF TypeOK, PastOnly, Tick, jwtVars, reqVars
  <1>2. ASSUME NEW r \in Requests, Me(r)
        PROVE  PastOnly'
    BY <1>2 DEF TypeOK, PastOnly, Me, Goto, Tell, jwtVars
  <1>3. ASSUME NEW r \in Requests, Save(r)
        PROVE  PastOnly'
    BY <1>3 DEF TypeOK, PastOnly, Save
  <1>4. ASSUME NEW r \in Requests, Swap(r)
        PROVE  PastOnly'
    BY <1>4 DEF TypeOK, PastOnly, Swap
  <1>5. ASSUME NEW r \in Requests, Restore(r)
        PROVE  PastOnly'
    BY <1>5 DEF TypeOK, PastOnly, Restore, PutBack
  <1>6. CASE UNCHANGED <<now, timeFunc, at, old>>
    BY <1>6 DEF PastOnly
  <1>7. QED
    BY <1>1, <1>2, <1>3, <1>4, <1>5, <1>6
       DEF Next, LoginURL, Logout, Public, Callback, AskGitHub, Sign,
           SetCookie, Valid, vars, jwtVars, browserVars, reqVars

LEMMA LivesTTLStep == TypeOK /\ LivesTTL /\ [Next]_vars => LivesTTL'
  <1> SUFFICES ASSUME TypeOK, LivesTTL, [Next]_vars
               PROVE  LivesTTL'
    OBVIOUS
  <1> USE LoginAssumption
  <1>1. CASE Logout
    BY <1>1 DEF TypeOK, LivesTTL, Logout, reqVars
  <1>2. ASSUME NEW r \in Requests, Callback(r)
        PROVE  LivesTTL'
    BY <1>2 DEF TypeOK, LivesTTL, Callback
  <1>3. ASSUME NEW r \in Requests, Sign(r)
        PROVE  LivesTTL'
    BY <1>3 DEF TypeOK, LivesTTL, Sign, browserVars
  <1>4. ASSUME NEW r \in Requests, SetCookie(r)
        PROVE  LivesTTL'
    BY <1>4 DEF TypeOK, LivesTTL, SetCookie
  <1>5. ASSUME NEW r \in Requests, Me(r)
        PROVE  LivesTTL'
    BY <1>5 DEF TypeOK, LivesTTL, Me, browserVars
  <1>6. CASE UNCHANGED <<cookie, tok>>
    BY <1>6 DEF LivesTTL
  <1>7. QED
    BY <1>1, <1>2, <1>3, <1>4, <1>5, <1>6
       DEF Next, LoginURL, Public, Tick, AskGitHub, Save, Swap, Valid,
           Restore, PutBack, vars, browserVars, reqVars

LEMMA ToldOfTokenStep == TypeOK /\ ExpiryInv /\ [Next]_vars => ToldOfToken'
  <1> SUFFICES ASSUME TypeOK, ExpiryInv, [Next]_vars
               PROVE  ToldOfToken'
    OBVIOUS
  <1> USE LoginAssumption DEF ExpiryInv, InParse
  <1>1. CASE Tick
    BY <1>1 DEF TypeOK, ToldOfToken, Tick, reqVars, Times, Token
  <1>2. ASSUME NEW r \in Requests, Callback(r)
        PROVE  ToldOfToken'
    BY <1>2 DEF TypeOK, ToldOfToken, Callback, Goto, Tell
  <1>3. ASSUME NEW r \in Requests, AskGitHub(r)
        PROVE  ToldOfToken'
    BY <1>3 DEF TypeOK, ToldOfToken, AskGitHub, Goto, Tell
  <1>4. ASSUME NEW r \in Requests, Sign(r)
        PROVE  ToldOfToken'
    BY <1>4 DEF TypeOK, ToldOfToken, Sign, Goto
  <1>5. ASSUME NEW r \in Requests, SetCookie(r)
        PROVE  ToldOfToken'
    BY <1>5 DEF TypeOK, ToldOfToken, SetCookie, Goto, Tell
  <1>6. ASSUME NEW r \in Requests, Me(r)
        PROVE  ToldOfToken'
    BY <1>6 DEF TypeOK, ToldOfToken, Me, Goto, Tell
  <1>7. ASSUME NEW r \in Requests, Save(r)
        PROVE  ToldOfToken'
    BY <1>7 DEF TypeOK, ToldOfToken, Save, Goto
  <1>8. ASSUME NEW r \in Requests, Swap(r)
        PROVE  ToldOfToken'
    BY <1>8 DEF TypeOK, ToldOfToken, Swap, Goto
  <1>9. ASSUME NEW r \in Requests, Valid(r)
        PROVE  ToldOfToken'
    <2>1. tok[r] \in Token
      BY <1>9 DEF TypeOK, Valid
    <2>2. Clock \in Nat /\ Clock <= now
      BY DEF TypeOK, PastOnly, Clock, Times
    <2>3. Verdict(tok[r], Clock) = "expired" => tok[r].exp <= now
      BY <2>1, <2>2 DEF Verdict, Token, TypeOK, Times
    <2>4. tok[r] # None
      BY <2>1
    <2>5. QED
      BY <1>9, <2>3, <2>4 DEF TypeOK, ToldOfToken, Valid, Goto
  <1>10. ASSUME NEW r \in Requests, Restore(r)
         PROVE  ToldOfToken'
    BY <1>10 DEF TypeOK, ToldOfToken, Restore, PutBack, Goto
  <1>11. CASE UNCHANGED <<now, reqVars>>
    BY <1>11 DEF ToldOfToken, reqVars
  <1>12. QED
    BY <1>1, <1>2, <1>3, <1>4, <1>5, <1>6, <1>7, <1>8, <1>9, <1>10, <1>11
       DEF Next, LoginURL, Logout, Public, vars, reqVars

LEMMA ExpiryGivesProperty == TypeOK /\ ExpiryInv => NoEarlyExpiry
  <1> SUFFICES ASSUME TypeOK, ExpiryInv
               PROVE  NoEarlyExpiry
    OBVIOUS
  <1> USE LoginAssumption DEF ExpiryInv
  <1>1. ASSUME NEW r \in Requests, res[r] = "expired"
        PROVE  now >= tok[r].iat + TTL
    <2>1. tok[r] \in Token /\ tok[r].exp <= now /\ tok[r].exp = tok[r].iat + TTL
      BY <1>1 DEF TypeOK, ToldOfToken, LivesTTL
    <2>2. QED
      BY <2>1 DEF Token, Times, TypeOK
  <1>2. ASSUME grant # None, ~Intercept
        PROVE  now >= grant
    BY <1>2 DEF TypeOK, PastOnly, Intercept, Verify, Clock, Times
  <1>3. QED
    BY <1>1, <1>2 DEF NoEarlyExpiry

\* For any number of requests in Parse (jwt.go), and any lives of the tokens:
\* however their swaps of jwt.TimeFunc interleave, no cookie and no gRPC token
\* is called expired before it is.
THEOREM ExpiryNeverEarly == Spec => []NoEarlyExpiry
  <1>1. Init => ExpiryInv
    BY InitExpiry
  <1>2. TypeOK /\ ExpiryInv /\ [Next]_vars => ExpiryInv'
    BY PastOnlyStep, LivesTTLStep, ToldOfTokenStep DEF ExpiryInv
  <1>3. QED
    BY <1>1, <1>2, LoginTypeCorrect, ExpiryGivesProperty, PTL DEF Spec
-----------------------------------------------------------------------------
(* The clock comes home.                                                   *)

LEMMA InitClock == Init => ClockInv
  BY LoginAssumption DEF Init, ClockInv, FirstKeepsReal, AloneParsing, AloneClock,
                         Parsing, InParse

\* A step that lets every Parse where it is.
LEMMA ClockUntouched ==
  ASSUME ClockInv, UNCHANGED jwtVars, Parsing' = Parsing,
         \A r \in Requests :
           /\ at'[r] = at[r] \/ pc'[r] \notin InParse
           /\ pc'[r] = "swap" => pc[r] = "swap"
           /\ pc'[r] \in {"valid", "restore"} => pc[r] \in {"valid", "restore"}
  PROVE  ClockInv'
  <1>1. FirstKeepsReal'
    BY DEF ClockInv, FirstKeepsReal, jwtVars
  <1>2. AloneParsing'
    BY DEF ClockInv, AloneParsing, jwtVars
  <1>3. AloneClock'
    BY DEF ClockInv, AloneClock, jwtVars, InParse
  <1>4. QED
    BY <1>1, <1>2, <1>3 DEF ClockInv

\* Where a request may be after an action, and that only Parse touches what
\* Parse uses.
LEMMA OtherSteps ==
  ASSUME TypeOK, [Next]_vars,
         ~ \E r \in Requests : Save(r) \/ Swap(r) \/ Valid(r) \/ Restore(r)
  PROVE  /\ UNCHANGED jwtVars
         /\ Parsing' = Parsing
         /\ \A r \in Requests :
              /\ at'[r] = at[r] \/ pc'[r] \notin InParse
              /\ pc'[r] = "swap" => pc[r] = "swap"
              /\ pc'[r] \in {"valid", "restore"} => pc[r] \in {"valid", "restore"}
  <1> USE DEF Parsing, InParse
  <1>1. CASE UNCHANGED <<jwtVars, reqVars>>
    BY <1>1 DEF jwtVars, reqVars
  <1>2. ASSUME NEW r \in Requests, Callback(r) \/ AskGitHub(r)
        PROVE  /\ UNCHANGED jwtVars
               /\ UNCHANGED at
               /\ pc[r] \in {"idle", "ask"}
               /\ \E l \in {"idle", "ask", "sign"} : pc' = [pc EXCEPT ![r] = l]
    BY <1>2 DEF Callback, AskGitHub, Goto, Tell
  <1>3. ASSUME NEW r \in Requests, Sign(r) \/ SetCookie(r)
        PROVE  /\ UNCHANGED jwtVars
               /\ UNCHANGED at
               /\ pc[r] \in {"sign", "set"}
               /\ \E l \in {"idle", "set"} : pc' = [pc EXCEPT ![r] = l]
    BY <1>3 DEF Sign, SetCookie, Goto, Tell
  <1>4. ASSUME NEW r \in Requests, Me(r)
        PROVE  /\ UNCHANGED jwtVars
               /\ \A q \in Requests \ {r} : at'[q] = at[q]
               /\ pc[r] = "idle"
               /\ \E l \in {"idle", "save"} : pc' = [pc EXCEPT ![r] = l]
    BY <1>4 DEF Me, Goto, Tell, TypeOK
  <1>5. ASSUME NEW r \in Requests, pc[r] \in {"idle", "ask", "sign", "set"},
               NEW l \in {"idle", "ask", "sign", "set", "save"},
               pc' = [pc EXCEPT ![r] = l],
               \A q \in Requests \ {r} : at'[q] = at[q]
        PROVE  /\ Parsing' = Parsing
               /\ \A q \in Requests :
                    /\ at'[q] = at[q] \/ pc'[q] \notin InParse
                    /\ pc'[q] = "swap" => pc[q] = "swap"
                    /\ pc'[q] \in {"valid", "restore"} => pc[q] \in {"valid", "restore"}
    BY <1>5 DEF TypeOK
  <1>6. CASE \E r \in Requests : Callback(r) \/ AskGitHub(r) \/ Sign(r) \/ SetCookie(r)
    BY <1>2, <1>3, <1>5, <1>6
  <1>7. CASE \E r \in Requests : Me(r)
    BY <1>4, <1>5, <1>7
  <1>8. QED
    BY <1>1, <1>6, <1>7
       DEF Next, LoginURL, Logout, Public, Tick, vars, reqVars

LEMMA ClockStep == TypeOK /\ ClockInv /\ [Next]_vars => ClockInv'
  <1> SUFFICES ASSUME TypeOK, ClockInv, [Next]_vars
               PROVE  ClockInv'
    OBVIOUS
  <1>1. ASSUME NEW r \in Requests, Save(r)
        PROVE  ClockInv'
    <2>1. /\ pc[r] = "save" /\ pc'[r] = "swap" /\ r \notin Parsing
          /\ \A q \in Requests \ {r} : pc'[q] = pc[q]
          /\ Parsing' = Parsing \cup {r}
      BY <1>1 DEF TypeOK, Save, Goto, Parsing, InParse
    <2>2. /\ UNCHANGED <<timeFunc, crossed, at>>
          /\ old'[r] = timeFunc /\ \A q \in Requests \ {r} : old'[q] = old[q]
          /\ first' = IF Parsing = {} THEN r ELSE first
          /\ shared' = (Parsing # {})
      BY <1>1 DEF TypeOK, Save
    <2>3. FirstKeepsReal'
      BY <2>1, <2>2 DEF ClockInv, FirstKeepsReal, Parsing
    <2>4. AloneParsing'
      BY <2>1, <2>2 DEF ClockInv, AloneParsing
    <2>5. AloneClock'
      BY <2>1, <2>2 DEF ClockInv, AloneClock, FirstKeepsReal, Parsing, InParse
    <2>6. QED
      BY <2>3, <2>4, <2>5 DEF ClockInv
  <1>2. ASSUME NEW r \in Requests, Swap(r) \/ Valid(r)
        PROVE  ClockInv'
    <2>1. /\ r \in Parsing
          /\ pc'[r] \in {"valid", "restore"}
          /\ \A q \in Requests \ {r} : pc'[q] = pc[q]
          /\ Parsing' = Parsing
      BY <1>2 DEF TypeOK, Swap, Valid, Goto, Parsing, InParse
    <2>2. /\ UNCHANGED <<old, first, crossed, shared, at>>
          /\ timeFunc' = at[r] \/ (timeFunc' = timeFunc /\ pc[r] = "valid")
      BY <1>2 DEF Swap, Valid, jwtVars
    <2>3. FirstKeepsReal'
      BY <2>1, <2>2 DEF ClockInv, FirstKeepsReal
    <2>4. AloneParsing'
      BY <2>1, <2>2 DEF ClockInv, AloneParsing
    <2>5. AloneClock'
      BY <2>1, <2>2 DEF ClockInv, AloneClock, AloneParsing, Parsing, InParse
    <2>6. QED
      BY <2>3, <2>4, <2>5 DEF ClockInv
  <1>3. ASSUME NEW r \in Requests, Restore(r)
        PROVE  ClockInv'
    <2>1. /\ r \in Parsing /\ pc'[r] = "idle"
          /\ \A q \in Requests \ {r} : pc'[q] = pc[q]
          /\ Parsing' = Parsing \ {r}
      BY <1>3 DEF TypeOK, Restore, PutBack, Goto, Parsing, InParse
    <2>2. /\ timeFunc' = old[r]
          /\ \A q \in Requests \ {r} : at'[q] = at[q] /\ old'[q] = old[q]
          /\ crossed' = (crossed \/ (r = first /\ Parsing # {r}))
          /\ first' = IF Parsing = {r} THEN None ELSE first
          /\ shared' = (shared /\ Parsing # {r})
      BY <1>3 DEF TypeOK, Restore, PutBack
    <2>3. FirstKeepsReal'
      BY <2>1, <2>2 DEF ClockInv, FirstKeepsReal, Parsing
    <2>4. AloneParsing'
      BY <2>1, <2>2 DEF ClockInv, AloneParsing
    <2>5. AloneClock'
      BY <2>1, <2>2, <2>4 DEF ClockInv, AloneClock, AloneParsing, Parsing, InParse
    <2>6. QED
      BY <2>3, <2>4, <2>5 DEF ClockInv
  <1>4. CASE ~ \E r \in Requests : Save(r) \/ Swap(r) \/ Valid(r) \/ Restore(r)
    BY <1>4, OtherSteps, ClockUntouched
  <1>5. QED
    BY <1>1, <1>2, <1>3, <1>4

\* For any number of requests: a Parse (jwt.go:56) that runs alone uses its own
\* instant, and the real clock is back when none runs, as long as the Parse
\* that took it away has not put it back under another one.
THEOREM RealClockComesHome == Spec => []ClockHome
  <1>1. TypeOK /\ ClockInv => ClockHome
    BY DEF TypeOK, ClockInv, FirstKeepsReal, AloneParsing, AloneClock, ClockHome,
           Parsing, InParse
  <1>2. QED
    BY <1>1, InitClock, ClockStep, LoginTypeCorrect, PTL DEF Spec

\* For any number of requests: a Parse that runs alone judges the cookie by its
\* own instant.
THEOREM SoleParseJudgesRight == Spec => SoleVerdictRight
  <1> DEFINE A == ~crossed /\ ~shared =>
                    \A r \in Requests : pc[r] = "valid" /\ pc'[r] = "restore" =>
                      res'[r] = Verdict(tok[r], at[r])
  <1>1. TypeOK /\ ClockInv /\ [Next]_vars => [A]_vars
    <2> SUFFICES ASSUME TypeOK, ClockInv, Next, ~crossed, ~shared,
                        NEW r \in Requests, pc[r] = "valid", pc'[r] = "restore"
                 PROVE  res'[r] = Verdict(tok[r], at[r])
      OBVIOUS
    <2>1. Valid(r)
      BY DEF Next, TypeOK, LoginURL, Logout, Public, Tick, Callback, AskGitHub, Sign,
             SetCookie, Me, Save, Swap, Valid, Restore, PutBack, Goto, Tell, reqVars
    <2>2. timeFunc = at[r] /\ at[r] \in Nat
      BY DEF ClockInv, AloneClock, TypeOK, Times
    <2>3. Clock = at[r]
      BY <2>2, LoginAssumption DEF Clock
    <2>4. QED
      BY <2>1, <2>3 DEF Valid, TypeOK
  <1>2. QED
    BY <1>1, InitClock, ClockStep, LoginTypeCorrect, PTL DEF Spec, SoleVerdictRight
=============================================================================
