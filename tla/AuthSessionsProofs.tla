------------------------- MODULE AuthSessionsProofs -------------------------
(***************************************************************************)
(* Proofs about AuthSessions: rotation never leaves a token and its        *)
(* successor live together, a family of tokens is one session, which does  *)
(* not come back once it has ended, and only what disturbs a session is    *)
(* taken for theft, survives a logout or rejects a request.                *)
(***************************************************************************)
EXTENDS AuthSessions, TLAPS

USE DEF rows, tabVars, callVars, formVars

-----------------------------------------------------------------------------
(* The invariant.                                                           *)

\* A row has a family from its creation on, whose first token is of it.
RowInv ==
    /\ \A t \in Tokens : status[t] = "none" <=> family[t] = 0
    /\ \A t \in Tokens : expired[t] => status[t] # "none"
    /\ \A t \in Tokens : family[t] # 0 => family[family[t]] = family[t]

HasRow(t) == t # 0 => family[t] # 0

\* Whoever holds a token holds one that has a row.
HeldInv ==
    /\ HasRow(jar.rt) /\ HasRow(login.token) /\ HasRow(logout.token)
    /\ \A r \in Requests : HasRow(presented[r]) /\ HasRow(granted[r])

\* A request starts one refresh at most, and its token is revoked before another
\* one is made for it.
CallOK(r) ==
    /\ call[r] \in ServerCall => presented[r] # 0
    /\ ~retried[r] => granted[r] = 0 /\ call[r] \notin ServerCall
    /\ call[r] = "create" \/ granted[r] # 0 =>
          presented[r] # 0 /\ status[presented[r]] = "revoked"

CallInv == \A r \in Requests : CallOK(r)

SessionInv == TypeOK /\ RowInv /\ HeldInv /\ CallInv

LEMMA TokenFacts == Tokens \subseteq Nat \ {0} /\ 1 \in Tokens /\ 0 \notin Tokens
  BY SessionAssumption DEF Tokens

\* What a refresh under way presents has a row and a family.
LEMMA Presented ==
    ASSUME SessionInv, NEW r \in Requests, call[r] \in ServerCall
    PROVE  /\ presented[r] \in Tokens /\ family[presented[r]] \in Tokens
           /\ family[family[presented[r]]] = family[presented[r]]
           /\ status[presented[r]] # "none"
           /\ call[r] = "create" => status[presented[r]] = "revoked"
           /\ retried[r]
<1>1. presented[r] # 0 /\ retried[r] /\ (call[r] = "create" => status[presented[r]] = "revoked")
  BY DEF SessionInv, CallInv, CallOK
<1>2. presented[r] \in Tokens /\ family[presented[r]] # 0
  BY <1>1 DEF SessionInv, TypeOK, HeldInv, HasRow
<1>3. family[presented[r]] \in Tokens
  BY <1>2 DEF SessionInv, TypeOK
<1> QED  BY <1>1, <1>2, <1>3 DEF SessionInv, RowInv

-----------------------------------------------------------------------------
(* What a step does to the rows: tokens fade, or one is made.               *)

Fades ==
    /\ family' = family
    /\ status' \in [Tokens -> {"none", "live", "revoked"}]
    /\ expired' \in [Tokens -> BOOLEAN]
    /\ \A t \in Tokens : /\ status'[t] = status[t] \/ (status[t] # "none" /\ status'[t] = "revoked")
                         /\ expired[t] => expired'[t]
                         /\ expired'[t] => expired[t] \/ status[t] # "none"

LEMMA RevokeFades ==
    ASSUME TypeOK, NEW ts, Revoke(ts), UNCHANGED <<expired, family>>
    PROVE  Fades
  BY DEF TypeOK, Revoke, Fades

LEMMA SameFades ==
    ASSUME TypeOK, UNCHANGED rows
    PROVE  Fades
  BY DEF TypeOK, Fades

\* What fades disturbs nobody who holds a token.
LEMMA FadesKeeps ==
    ASSUME SessionInv, Fades
    PROVE  /\ RowInv'
           /\ \A t : HasRow(t) <=> HasRow(t)'
           /\ \A t \in Tokens : status[t] = "revoked" => status'[t] = "revoked"
  BY DEF SessionInv, TypeOK, RowInv, HasRow, Fades

\* A token is made where there was none.
LEMMA Created ==
    ASSUME SessionInv, NEW t \in Tokens, NEW f \in Tokens, CreateRefreshToken(t, f),
           f = t \/ family[f] = f
    PROVE  /\ status' \in [Tokens -> {"none", "live", "revoked"}]
           /\ family' \in [Tokens -> Tokens \cup {0}]
           /\ expired' = expired
           /\ RowInv'
           /\ family'[t] # 0
           /\ \A s \in Tokens \cup {0} : HasRow(s) => HasRow(s)'
           /\ \A s \in Tokens : status[s] = "revoked" => status'[s] = "revoked"
<1> USE TokenFacts DEF SessionInv, TypeOK, CreateRefreshToken
<1>1. family[t] = 0
  BY DEF RowInv
<1>2. /\ status' \in [Tokens -> {"none", "live", "revoked"}]
      /\ family' \in [Tokens -> Tokens \cup {0}]
      /\ expired' = expired /\ family'[t] # 0
  OBVIOUS
<1>3. ASSUME NEW s \in Tokens, family'[s] # 0
      PROVE  family'[family'[s]] = family'[s]
  <2>1. CASE s = t
    BY <2>1
  <2>2. CASE s # t
    BY <1>1, <1>3, <2>2 DEF RowInv
  <2> QED  BY <2>1, <2>2
<1>4. \A s \in Tokens : status'[s] = "none" <=> family'[s] = 0
  BY DEF RowInv
<1>5. \A s \in Tokens \cup {0} : HasRow(s) => HasRow(s)'
  BY DEF HasRow
<1> QED  BY <1>2, <1>3, <1>4, <1>5 DEF RowInv

\* What a request's refresh has done stays true of it while nothing of it changes
\* and no revoked token comes back.
LEMMA CallKept ==
    ASSUME SessionInv, NEW s \in Requests,
           call'[s] = call[s], granted'[s] = granted[s],
           presented'[s] = presented[s], retried'[s] = retried[s],
           \A t \in Tokens : status[t] = "revoked" => status'[t] = "revoked"
    PROVE  CallOK(s)'
<1>1. CallOK(s)
  BY DEF SessionInv, CallInv
<1>2. presented[s] # 0 => presented[s] \in Tokens
  BY DEF SessionInv, TypeOK
<1>3. call'[s] \in ServerCall => presented'[s] # 0
  BY <1>1 DEF CallOK, ServerCall
<1>4. ~retried'[s] => granted'[s] = 0 /\ call'[s] \notin ServerCall
  BY <1>1, Zenon DEF CallOK, ServerCall
<1>5. call'[s] = "create" \/ granted'[s] # 0 => presented'[s] # 0 /\ status'[presented'[s]] = "revoked"
  BY <1>1, <1>2 DEF CallOK
<1> QED  BY <1>3, <1>4, <1>5, Zenon DEF CallOK, ServerCall

-----------------------------------------------------------------------------
(* Steps.                                                                   *)

LEMMA RefreshStep ==
    ASSUME SessionInv, NEW r \in Requests, Refresh(r) \/ RefreshBreaks(r)
    PROVE  SessionInv'
<1> USE SessionAssumption, TokenFacts DEF SessionInv, ToCall, ServerCall, Answer, Settled
<1>1. ASSUME FindToken(r) PROVE SessionInv'
  <2>1. Fades
    BY <1>1, SameFades DEF FindToken
  <2>2. TypeOK'
    BY <1>1 DEF FindToken, TypeOK
  <2>3. HeldInv'
    BY <1>1, <2>1, FadesKeeps DEF FindToken, HeldInv
  <2>4. CallInv'
    BY <1>1 DEF FindToken, CallInv, CallOK, TypeOK
  <2> QED  BY <2>1, <2>2, <2>3, <2>4, FadesKeeps
<1>2. ASSUME NEW ts, NEW next \in {"unauthorized", "create"}, Revoke(ts), ToCall(r, next),
             call[r] \in {"revokeFamily", "revokeExpired", "revokeOld"},
             next = "create" => presented[r] \in ts,
             UNCHANGED <<expired, family, jar, tabVars, presented, granted, formVars>>
      PROVE  SessionInv'
  <2>1. Fades
    BY <1>2, RevokeFades
  <2>2. TypeOK'
    BY <1>2, <2>1 DEF TypeOK, Fades
  <2>3. HeldInv'
    BY <1>2, <2>1, FadesKeeps DEF HeldInv
  <2>4. next = "create" => presented[r] \in Tokens /\ status'[presented[r]] = "revoked"
    BY <1>2, Presented DEF Revoke
  <2>5. CallInv'
    <3>1. retried' = retried /\ granted' = granted /\ presented' = presented /\ presented[r] # 0
          /\ retried[r] /\ call' = [call EXCEPT ![r] = next]
      BY <1>2, Presented DEF CallInv, CallOK
    <3>2. \A s \in Requests : presented[s] \in Tokens \cup {0} /\ granted[s] \in Tokens \cup {0}
      BY DEF TypeOK
    <3>3. \A s \in Requests : s # r => call'[s] = call[s]
      BY <3>1 DEF TypeOK
    <3>4. \A s \in Requests : s # r => CallOK(s)'
      BY <2>1, <3>1, <3>3, CallKept, FadesKeeps
    <3>5. CallOK(r)'
      <4>1. call'[r] = next
        BY <3>1 DEF TypeOK
      <4>2. granted[r] # 0 => presented'[r] # 0 /\ status'[presented'[r]] = "revoked"
        BY <2>1, <3>1, <3>2, FadesKeeps DEF CallInv, CallOK
      <4> QED  BY <1>2, <2>4, <3>1, <4>1, <4>2, Zenon DEF CallOK
    <3> QED  BY <3>4, <3>5 DEF CallInv
  <2> QED  BY <2>1, <2>2, <2>3, <2>5, FadesKeeps
<1>3. ASSUME RevokeTokenFamily(r) \/ RevokeExpired(r) PROVE SessionInv'
  BY <1>2, <1>3 DEF RevokeTokenFamily, RevokeExpired
<1>4. ASSUME RevokeOld(r) PROVE SessionInv'
  BY <1>2, <1>4 DEF RevokeOld
<1>5. ASSUME IssueInFamily(r) PROVE SessionInv'
  <2>0. /\ presented[r] \in Tokens /\ family[presented[r]] \in Tokens
        /\ family[family[presented[r]]] = family[presented[r]]
        /\ status[presented[r]] = "revoked" /\ retried[r]
    BY <1>5, Presented DEF IssueInFamily
  <2>1. PICK t \in Tokens : /\ CreateRefreshToken(t, family[presented[r]])
                            /\ granted' = [granted EXCEPT ![r] = t]
    BY <1>5 DEF IssueInFamily
  <2>2. /\ call' = [call EXCEPT ![r] = "pair"]
        /\ UNCHANGED <<jar, tabVars, presented, formVars>>
    BY <1>5 DEF IssueInFamily
  <2>3. TypeOK'
    <3>1. /\ status' \in [Tokens -> {"none", "live", "revoked"}]
          /\ family' \in [Tokens -> Tokens \cup {0}]
          /\ expired' = expired
      BY <2>0, <2>1, Created
    <3> QED  BY <2>1, <2>2, <3>1 DEF TypeOK
  <2>4. HeldInv'
    <3>1. /\ HasRow(t)'
          /\ \A s \in Tokens \cup {0} : HasRow(s) => HasRow(s)'
      BY <2>0, <2>1, Created DEF HasRow
    <3>2. HasRow(jar.rt)' /\ HasRow(login.token)' /\ HasRow(logout.token)'
      BY <2>2, <3>1 DEF HeldInv, TypeOK, HasRow
    <3>3. \A s \in Requests : HasRow(presented[s])' /\ HasRow(granted[s])'
      BY <2>1, <2>2, <3>1 DEF HeldInv, TypeOK, HasRow
    <3> QED  BY <3>2, <3>3 DEF HeldInv
  <2>5. CallInv'
    <3>1. \A s \in Tokens : status[s] = "revoked" => status'[s] = "revoked"
      BY <2>0, <2>1, Created
    <3>2. ASSUME NEW s \in Requests, s # r
          PROVE  /\ call'[s] = call[s] /\ granted'[s] = granted[s]
                 /\ presented'[s] = presented[s] /\ retried'[s] = retried[s]
      BY <2>1, <2>2, <3>2 DEF TypeOK
    <3>3. /\ call'[r] = "pair" /\ presented'[r] = presented[r] /\ retried'[r]
          /\ status'[presented[r]] = "revoked"
      <4>1. call'[r] = "pair"
        BY <2>2 DEF TypeOK
      <4>2. presented' = presented /\ retried' = retried
        BY <2>2
      <4>3. status'[presented[r]] = "revoked"
        BY <2>0, <3>1
      <4> QED  BY <2>0, <4>1, <4>2, <4>3
    <3>4. \A s \in Requests : s # r => CallOK(s)'
      BY <3>1, <3>2, CallKept
    <3>5. CallOK(r)'
      <4>1. call'[r] \in ServerCall => presented'[r] # 0
        BY <2>0, <3>3
      <4>2. presented'[r] # 0 /\ status'[presented'[r]] = "revoked"
        BY <2>0, <3>3
      <4> QED  BY <3>3, <4>1, <4>2, Zenon DEF CallOK, ServerCall
    <3> QED  BY <3>4, <3>5 DEF CallInv
  <2> QED  BY <2>0, <2>1, <2>3, <2>4, <2>5, Created
<1>6. ASSUME Renewed(r) \/ NotRenewed(r) \/ RefreshBreaks(r) PROVE SessionInv'
  <2>1. Fades
    BY <1>6, SameFades DEF Renewed, NotRenewed, RefreshBreaks
  <2>2. TypeOK'
    <3>1. CASE Renewed(r)
      BY <3>1 DEF Renewed, TypeOK
    <3>2. CASE NotRenewed(r)
      BY <3>2 DEF NotRenewed, TypeOK
    <3>3. CASE RefreshBreaks(r)
      BY <3>3 DEF RefreshBreaks, TypeOK
    <3> QED  BY <1>6, <3>1, <3>2, <3>3
  <2>3. HeldInv'
    <3>1. UNCHANGED <<presented, granted, login, logout, family>>
      BY <1>6 DEF Renewed, NotRenewed, RefreshBreaks
    <3>2. jar' = jar \/ jar'.rt = granted[r]
      BY <1>6 DEF Renewed, NotRenewed, RefreshBreaks
    <3> QED  BY <3>1, <3>2 DEF HeldInv, HasRow
  <2>4. CallInv'
    <3>1. /\ UNCHANGED <<presented, granted, retried, status>>
          /\ \E c \in Settled \cup {"error", "waitsForItself"} : call' = [call EXCEPT ![r] = c]
      BY <1>6 DEF Renewed, NotRenewed, RefreshBreaks
    <3> QED  BY <3>1 DEF CallInv, CallOK, TypeOK
  <2> QED  BY <2>1, <2>2, <2>3, <2>4, FadesKeeps
<1> QED  BY <1>1, <1>3, <1>4, <1>5, <1>6 DEF Refresh

LEMMA ApiStep ==
    ASSUME SessionInv, NEW r \in Requests, Api(r)
    PROVE  SessionInv'
<1> USE SessionAssumption, TokenFacts DEF SessionInv
<1>0. Fades
  BY SameFades DEF Api, Send, Served, RejectedRetry, AwaitRefresh
<1>1. ASSUME UNCHANGED <<rows, jar, retried, refresher, callVars, formVars>>,
             request' \in [Requests -> {"idle", "sent", "waiting", "ok", "rejected", "unauthorized"}],
             carried' \in [Requests -> BOOLEAN]
      PROVE  SessionInv'
  BY <1>1 DEF TypeOK, RowInv, HeldInv, HasRow, CallInv, CallOK
<1>2. ASSUME Send(r) PROVE SessionInv'
  BY <1>1, <1>2 DEF Send, TypeOK
<1>3. ASSUME Served(r) \/ RejectedRetry(r) PROVE SessionInv'
  BY <1>1, <1>3 DEF Served, RejectedRetry, TypeOK
<1>4. ASSUME AwaitRefresh(r) PROVE SessionInv'
  <2>1. /\ UNCHANGED <<rows, jar, carried, formVars, granted>> /\ ~retried[r]
        /\ retried' = [retried EXCEPT ![r] = TRUE]
        /\ request' = [request EXCEPT ![r] = "waiting"]
    BY <1>4 DEF AwaitRefresh, StartRefresh
  <2>2. \/ UNCHANGED <<call, presented, refresher>>
        \/ /\ call' = [call EXCEPT ![r] = IF jar.rt = 0 THEN "unauthorized" ELSE "find"]
           /\ presented' = [presented EXCEPT ![r] = jar.rt]
           /\ refresher' = [refresher EXCEPT ![TabOf[r]] = r]
    BY <1>4 DEF AwaitRefresh, StartRefresh, ToCall
  <2>3. TypeOK'
    BY <2>1, <2>2 DEF TypeOK, ServerCall, Answer
  <2>4. HeldInv'
    BY <2>1, <2>2 DEF HeldInv, HasRow, TypeOK
  <2>5. CallInv'
    BY <2>1, <2>2 DEF CallInv, CallOK, TypeOK, ServerCall
  <2> QED  BY <1>0, <2>3, <2>4, <2>5, FadesKeeps
<1> QED  BY <1>2, <1>3, <1>4 DEF Api

LEMMA FormStep ==
    ASSUME SessionInv, Login \/ Logout \/ Time
    PROVE  SessionInv'
<1> USE SessionAssumption, TokenFacts DEF SessionInv
<1>1. ASSUME IssueTokenPair PROVE SessionInv'
  <2>1. PICK t \in Tokens : CreateRefreshToken(t, t) /\ login' = [at |-> "answer", token |-> t]
    BY <1>1 DEF IssueTokenPair
  <2>2. UNCHANGED <<jar, tabVars, callVars, logins, logout, logoutAll>>
    BY <1>1 DEF IssueTokenPair
  <2>3. TypeOK'
    BY <2>1, <2>2, Created DEF TypeOK
  <2>4. HasRow(t)' /\ \A s \in Tokens \cup {0} : HasRow(s) => HasRow(s)'
    BY <2>1, Created DEF HasRow
  <2>5. HeldInv'
    <3>1. HasRow(jar.rt)' /\ HasRow(login.token)' /\ HasRow(logout.token)'
      BY <2>1, <2>2, <2>4 DEF HeldInv, TypeOK, HasRow
    <3>2. \A s \in Requests : HasRow(presented[s])' /\ HasRow(granted[s])'
      BY <2>2, <2>4 DEF HeldInv, TypeOK, HasRow
    <3> QED  BY <3>1, <3>2 DEF HeldInv
  <2>6. CallInv'
    <3>1. \A s \in Tokens : status[s] = "revoked" => status'[s] = "revoked"
      BY <2>1, Created
    <3> QED  BY <2>2, <3>1, CallKept DEF CallInv
  <2> QED  BY <2>1, <2>3, <2>5, <2>6, Created
<1>2. ASSUME Fades, TypeOK', UNCHANGED <<callVars, retried>>,
             jar'.rt \in {0, jar.rt, login.token}, login'.token \in {0, login.token},
             logout'.token \in {0, logout.token, jar.rt}
      PROVE  SessionInv'
  <2>1. HeldInv'
    BY <1>2 DEF HeldInv, HasRow, Fades
  <2>2. CallInv'
    BY <1>2, CallKept, FadesKeeps DEF CallInv
  <2> QED  BY <1>2, <2>1, <2>2, FadesKeeps
<1>3. ASSUME StartLogin PROVE SessionInv'
  <2>1. logins' \in 0..MaxLogins
    BY <1>3 DEF StartLogin, TypeOK
  <2>2. TypeOK'
    BY <1>3, <2>1 DEF StartLogin, TypeOK
  <2> QED  BY <1>2, <1>3, <2>2, SameFades DEF StartLogin
<1>4. ASSUME LoggedIn \/ LoginBreaks PROVE SessionInv'
  <2>1. TypeOK'
    <3>1. CASE LoggedIn
      BY <3>1 DEF LoggedIn, TypeOK
    <3>2. CASE LoginBreaks
      BY <3>2 DEF LoginBreaks, TypeOK
    <3> QED  BY <1>4, <3>1, <3>2
  <2> QED  BY <1>2, <1>4, <2>1, SameFades DEF LoggedIn, LoginBreaks
<1>5. ASSUME StartLogout PROVE SessionInv'
  <2>1. TypeOK'
    BY <1>5 DEF StartLogout, TypeOK
  <2> QED  BY <1>2, <1>5, <2>1, SameFades DEF StartLogout
<1>6. ASSUME LoggedOut \/ LogoutBreaks PROVE SessionInv'
  <2>1. TypeOK'
    <3>1. CASE LoggedOut
      BY <3>1 DEF LoggedOut, TypeOK
    <3>2. CASE LogoutBreaks
      BY <3>2 DEF LogoutBreaks, TypeOK
    <3> QED  BY <1>6, <3>1, <3>2
  <2> QED  BY <1>2, <1>6, <2>1, SameFades DEF LoggedOut, LogoutBreaks, TypeOK
<1>7. ASSUME LoggedOutAll \/ LogoutAllBreaks PROVE SessionInv'
  <2>1. TypeOK'
    <3>1. CASE LoggedOutAll
      BY <3>1 DEF LoggedOutAll, TypeOK
    <3>2. CASE LogoutAllBreaks
      BY <3>2 DEF LogoutAllBreaks, TypeOK
    <3> QED  BY <1>7, <3>1, <3>2
  <2> QED  BY <1>2, <1>7, <2>1, SameFades DEF LoggedOutAll, LogoutAllBreaks
<1>8. ASSUME LogoutRevokes PROVE SessionInv'
  <2>1. Fades
    BY <1>8, RevokeFades DEF LogoutRevokes
  <2>2. TypeOK'
    BY <1>8, <2>1 DEF LogoutRevokes, TypeOK, Fades
  <2> QED  BY <1>2, <1>8, <2>1, <2>2 DEF LogoutRevokes, TypeOK
<1>9. ASSUME LogoutAllHere \/ RevokedElsewhere PROVE SessionInv'
  <2>1. Fades
    BY <1>9, RevokeFades DEF LogoutAllHere, RevokedElsewhere, RevokeAllUserTokens
  <2>2. TypeOK'
    BY <1>9, <2>1 DEF LogoutAllHere, RevokedElsewhere, RevokeAllUserTokens, TypeOK, Fades
  <2> QED  BY <1>2, <1>9, <2>1, <2>2 DEF LogoutAllHere, RevokedElsewhere
<1>10. ASSUME AccessExpires \/ RefreshCookieExpires PROVE SessionInv'
  <2>1. TypeOK'
    <3>1. CASE AccessExpires
      BY <3>1 DEF AccessExpires, TypeOK
    <3>2. CASE RefreshCookieExpires
      BY <3>2 DEF RefreshCookieExpires, TypeOK
    <3> QED  BY <1>10, <3>1, <3>2
  <2>2. jar'.rt \in {0, jar.rt}
    BY <1>10 DEF AccessExpires, RefreshCookieExpires, TypeOK
  <2> QED  BY <1>2, <1>10, <2>1, <2>2, SameFades DEF AccessExpires, RefreshCookieExpires
<1>11. ASSUME NEW t \in Tokens, RefreshExpires(t) PROVE SessionInv'
  <2>1. Fades
    BY <1>11 DEF RefreshExpires, Fades, TypeOK
  <2>2. TypeOK'
    BY <1>11, <2>1 DEF RefreshExpires, TypeOK, Fades
  <2> QED  BY <1>2, <1>11, <2>1, <2>2 DEF RefreshExpires
<1> QED
  BY <1>1, <1>3, <1>4, <1>5, <1>6, <1>7, <1>8, <1>9, <1>10, <1>11 DEF Login, Logout, Time

LEMMA SessionStep == SessionInv /\ [Next]_vars => SessionInv'
<1> SUFFICES ASSUME SessionInv, [Next]_vars PROVE SessionInv'
  OBVIOUS
<1>1. CASE UNCHANGED vars
  BY <1>1 DEF vars, SessionInv, TypeOK, RowInv, HeldInv, HasRow, CallInv, CallOK
<1> QED  BY <1>1, ApiStep, RefreshStep, FormStep DEF Next

LEMMA SessionInit == Init => SessionInv
<1> SUFFICES ASSUME Init PROVE SessionInv
  OBVIOUS
<1> USE SessionAssumption, TokenFacts DEF Init, SessionInv
<1>1. TypeOK
  BY DEF TypeOK
<1>2. RowInv /\ HeldInv
  BY DEF RowInv, HeldInv, HasRow
<1>3. CallInv
  BY DEF CallInv, CallOK, ServerCall
<1> QED  BY <1>1, <1>2, <1>3

\* The rows, the cookies and the calls have the types of the code, for any tabs,
\* requests and tokens.
THEOREM SessionTypes == Spec => []TypeOK
<1>1. SessionInv => TypeOK
  BY DEF SessionInv
<1> QED  BY <1>1, SessionInit, SessionStep, PTL DEF Spec

-----------------------------------------------------------------------------
(* Rotation.                                                                *)

\* No answer carries a token whose predecessor may still be used: the old one is
\* revoked before the new one is made (auth.service.ts:100), whichever refreshes,
\* logouts and failures run beside it.
RotationRevokes == \A r \in Requests : granted[r] # 0 => status[presented[r]] = "revoked"

THEOREM RotatedTokensAreRevoked == Spec => []RotationRevokes
<1>1. SessionInv => RotationRevokes
  BY DEF SessionInv, CallInv, CallOK, RotationRevokes
<1> QED  BY <1>1, SessionInit, SessionStep, PTL DEF Spec

-----------------------------------------------------------------------------
(* A family is a session.                                                   *)

\* A step that makes no token gives no family its life back.
Wanes ==
    /\ family' = family
    /\ \A f \in Tokens : Lives(f)' => Lives(f)

LEMMA WanesEnds ==
    ASSUME Wanes
    PROVE  [Promised!Next]_SessionOfFamily
<1> DEFINE ended == {f \in Tokens : SessionOfFamily[f] = "live" /\ ~Lives(f)'}
<1>1. \A f \in Tokens : SessionOfFamily[f] = "live" <=> family[f] = f /\ Lives(f)
  BY DEF SessionOfFamily
<1>2. SessionOfFamily' = [f \in Tokens |-> IF f \in ended THEN "ended" ELSE SessionOfFamily[f]]
  <2>1. ASSUME NEW f \in Tokens
        PROVE  SessionOfFamily'[f] = IF f \in ended THEN "ended" ELSE SessionOfFamily[f]
    BY <1>1 DEF SessionOfFamily, Wanes
  <2>2. SessionOfFamily' = [f \in Tokens |-> SessionOfFamily'[f]]
    BY DEF SessionOfFamily
  <2> HIDE DEF ended
  <2> QED  BY <2>1, <2>2
<1>3. Promised!End(ended)
  BY <1>2 DEF Promised!End
<1> QED  BY <1>3 DEF Promised!Next

\* Tokens fade, and no refresh is let in: nothing comes to life.
LEMMA FadesWane ==
    ASSUME SessionInv, Fades, UNCHANGED presented,
           \A r \in Requests : call'[r] \in {"revokeOld", "create"} =>
               \/ call[r] \in {"revokeOld", "create"}
               \/ presented[r] \in Tokens /\ Live(presented[r])
    PROVE  Wanes
<1>1. ASSUME NEW t \in Tokens, Live(t)' PROVE Live(t)
  BY <1>1 DEF Live, Fades, SessionInv, TypeOK
<1>2. ASSUME NEW f \in Tokens, Lives(f)' PROVE Lives(f)
  <2>1. CASE Admitted(f)'
    <3>1. PICK r \in Requests : call'[r] \in {"revokeOld", "create"} /\ family[presented[r]] = f
      BY <2>1 DEF Admitted, Fades
    <3> QED  BY <3>1 DEF Lives, Admitted, InFamily
  <2>2. CASE (\E t \in InFamily(f) : Live(t))'
    BY <1>1, <2>2 DEF Lives, InFamily, Fades
  <2> QED  BY <1>2, <2>1, <2>2 DEF Lives
<1> QED  BY <1>2 DEF Wanes, Fades

\* A token that is made changes no family but its own, and lives.
LEMMA CreatedAlone ==
    ASSUME SessionInv, NEW t \in Tokens, NEW f \in Tokens, CreateRefreshToken(t, f),
           f = t \/ family[f] = f, UNCHANGED presented,
           \A s \in Requests : call'[s] = call[s] \/ family[presented[s]] = f
    PROVE  /\ \A g \in Tokens \ {f} : SessionOfFamily'[g] = SessionOfFamily[g]
           /\ t \in InFamily(f)' /\ Live(t)' /\ family'[f] = f
<1>0. /\ status' = [status EXCEPT ![t] = "live"] /\ family' = [family EXCEPT ![t] = f]
      /\ expired' = expired /\ family[t] = 0 /\ ~expired[t]
  BY DEF CreateRefreshToken, SessionInv, RowInv
<1>1. t \in InFamily(f)' /\ Live(t)' /\ family'[f] = f
  BY <1>0 DEF InFamily, Live, SessionInv, TypeOK
<1>2. ASSUME NEW g \in Tokens \ {f}
      PROVE  SessionOfFamily'[g] = SessionOfFamily[g]
  <2>1. family'[g] = g <=> family[g] = g
    BY <1>0, <1>2, TokenFacts DEF SessionInv, TypeOK
  <2>2. Admitted(g)' <=> Admitted(g)
    <3>1. ASSUME NEW s \in Requests, call[s] \in {"revokeOld", "create"}
          PROVE  presented[s] \in Tokens /\ family[presented[s]] # 0
      BY <3>1, Presented, TokenFacts DEF ServerCall
    <3>2. ASSUME NEW s \in Requests, call[s] \in {"revokeOld", "create"}
          PROVE  family'[presented'[s]] = family[presented[s]]
      BY <1>0, <3>1, <3>2 DEF SessionInv, TypeOK
    <3>3. ASSUME NEW s \in Requests, call'[s] # call[s], family'[presented'[s]] = g
          PROVE  FALSE
      BY <1>0, <1>2, <3>3, TokenFacts DEF SessionInv, TypeOK
    <3>4. ASSUME NEW s \in Requests, call'[s] # call[s], family[presented[s]] = g
          PROVE  FALSE
      BY <1>2, <3>4
    <3> QED  BY <3>2, <3>3, <3>4 DEF Admitted
  <2>3. InFamily(g)' = InFamily(g) /\ \A s \in InFamily(g) : Live(s)' <=> Live(s)
    BY <1>0, <1>2, TokenFacts DEF InFamily, Live, SessionInv, TypeOK
  <2>4. Lives(g)' <=> Lives(g)
    BY <2>2, <2>3 DEF Lives
  <2> QED  BY <2>1, <2>4 DEF SessionOfFamily
<1> QED  BY <1>1, <1>2

LEMMA RefreshRefines ==
    ASSUME SessionInv, SessionInv', NEW r \in Requests, Refresh(r) \/ RefreshBreaks(r)
    PROVE  [Promised!Next]_SessionOfFamily
<1> USE DEF ToCall, ServerCall
<1>1. ASSUME FindToken(r) PROVE Wanes
  <2>1. call'[r] = "revokeOld" => presented[r] \in Tokens /\ Live(presented[r])
    BY <1>1, Presented DEF FindToken, Live, SessionInv, TypeOK
  <2>2. \A s \in Requests : s # r => call'[s] = call[s]
    BY <1>1 DEF FindToken, SessionInv, TypeOK
  <2>3. call'[r] # "create"
    BY <1>1 DEF FindToken, SessionInv, TypeOK
  <2>4. Fades /\ UNCHANGED presented
    BY <1>1, SameFades DEF FindToken, SessionInv
  <2> QED  BY <2>1, <2>2, <2>3, <2>4, FadesWane
<1>2. ASSUME RevokeTokenFamily(r) \/ RevokeExpired(r) \/ RevokeOld(r) PROVE Wanes
  <2>1. Fades /\ UNCHANGED presented
    BY <1>2, RevokeFades DEF RevokeTokenFamily, RevokeExpired, RevokeOld, SessionInv
  <2>2. \A s \in Requests : call'[s] \in {"revokeOld", "create"} => call[s] \in {"revokeOld", "create"}
    BY <1>2 DEF RevokeTokenFamily, RevokeExpired, RevokeOld, SessionInv, TypeOK
  <2> QED  BY <2>1, <2>2, FadesWane
<1>3. ASSUME IssueInFamily(r) PROVE UNCHANGED SessionOfFamily
  <2>0. /\ presented[r] \in Tokens /\ family[presented[r]] \in Tokens
        /\ family[family[presented[r]]] = family[presented[r]]
        /\ call[r] = "create"
    BY <1>3, Presented DEF IssueInFamily
  <2>a. PICK f \in Tokens : f = family[presented[r]]
    BY <2>0
  <2>1. PICK t \in Tokens : CreateRefreshToken(t, f)
    BY <1>3, <2>a DEF IssueInFamily
  <2>2. call' = [call EXCEPT ![r] = "pair"] /\ presented' = presented
    BY <1>3 DEF IssueInFamily
  <2>3. \A s \in Requests : call'[s] = call[s] \/ family[presented[s]] = f
    BY <2>2, <2>a DEF SessionInv, TypeOK
  <2>4. family[f] = f
    BY <2>0, <2>a
  <2>5. /\ \A g \in Tokens \ {f} : SessionOfFamily'[g] = SessionOfFamily[g]
        /\ t \in InFamily(f)' /\ Live(t)' /\ family'[f] = f
    BY <2>1, <2>2, <2>3, <2>4, CreatedAlone
  <2>6. Lives(f) /\ Lives(f)'
    BY <2>0, <2>a, <2>5 DEF Lives, Admitted
  <2>7. SessionOfFamily[f] = "live" /\ SessionOfFamily'[f] = "live"
    BY <2>4, <2>5, <2>6 DEF SessionOfFamily
  <2>8. \A g \in Tokens : SessionOfFamily'[g] = SessionOfFamily[g]
    BY <2>5, <2>7
  <2> QED  BY <2>8 DEF SessionOfFamily
<1>4. ASSUME Renewed(r) \/ NotRenewed(r) \/ RefreshBreaks(r) PROVE Wanes
  <2>1. Fades /\ UNCHANGED presented
    BY <1>4, SameFades DEF Renewed, NotRenewed, RefreshBreaks, SessionInv
  <2>2. \E c \in Settled \cup {"error", "waitsForItself"} : call' = [call EXCEPT ![r] = c]
    BY <1>4 DEF Renewed, NotRenewed, RefreshBreaks, Settled
  <2>3. \A s \in Requests : call'[s] \in {"revokeOld", "create"} => call[s] \in {"revokeOld", "create"}
    BY <2>2 DEF Settled, SessionInv, TypeOK
  <2> QED  BY <2>1, <2>3, FadesWane
<1> QED  BY <1>1, <1>2, <1>3, <1>4, WanesEnds DEF Refresh

LEMMA OthersRefine ==
    ASSUME SessionInv, SessionInv',
           (\E r \in Requests : Api(r)) \/ Login \/ Logout \/ Time \/ UNCHANGED vars
    PROVE  [Promised!Next]_SessionOfFamily
<1>1. ASSUME IssueTokenPair PROVE \E t \in Tokens : Promised!Open(t)
  <2>1. PICK t \in Tokens : CreateRefreshToken(t, t)
    BY <1>1 DEF IssueTokenPair
  <2>2. UNCHANGED <<call, presented>>
    BY <1>1 DEF IssueTokenPair
  <2>3. /\ \A g \in Tokens \ {t} : SessionOfFamily'[g] = SessionOfFamily[g]
        /\ t \in InFamily(t)' /\ Live(t)' /\ family'[t] = t
    BY <2>1, <2>2, CreatedAlone
  <2>4. SessionOfFamily'[t] = "live"
    BY <2>3 DEF SessionOfFamily, Lives
  <2>5. SessionOfFamily[t] = "none"
    BY <2>1, TokenFacts DEF SessionOfFamily, CreateRefreshToken, SessionInv, RowInv
  <2>6. SessionOfFamily' = [SessionOfFamily EXCEPT ![t] = "live"]
    <3>1. /\ SessionOfFamily = [f \in Tokens |-> SessionOfFamily[f]]
          /\ SessionOfFamily' = [f \in Tokens |-> SessionOfFamily'[f]]
      BY DEF SessionOfFamily
    <3> QED  BY <2>3, <2>4, <3>1
  <2> QED  BY <2>5, <2>6 DEF Promised!Open
<1>2. ASSUME Fades, UNCHANGED <<call, presented>> PROVE Wanes
  BY <1>2, FadesWane
<1>3. ASSUME NEW r \in Requests, Api(r) PROVE Wanes
  <2>1. Fades
    BY <1>3, SameFades DEF Api, Send, Served, RejectedRetry, AwaitRefresh, SessionInv
  <2>2. CASE UNCHANGED <<call, presented>>
    BY <1>2, <2>1, <2>2
  <2>3. CASE ~UNCHANGED <<call, presented>>
    <3>1. AwaitRefresh(r) /\ StartRefresh(r)
      BY <1>3, <2>3 DEF Api, Send, Served, RejectedRetry, AwaitRefresh
    <3>2. ~retried[r]
      BY <3>1 DEF AwaitRefresh
    <3>3. /\ call' = [call EXCEPT ![r] = IF jar.rt = 0 THEN "unauthorized" ELSE "find"]
          /\ presented' = [presented EXCEPT ![r] = jar.rt]
          /\ family' = family
      BY <3>1 DEF AwaitRefresh, StartRefresh, ToCall
    <3>4. ASSUME NEW t \in Tokens, Live(t)' PROVE Live(t)
      BY <2>1, <3>4 DEF Live, Fades, SessionInv, TypeOK
    <3>5. ASSUME NEW f \in Tokens, Lives(f)' PROVE Lives(f)
      <4>1. CASE Admitted(f)'
        <5>1. PICK s \in Requests : call'[s] \in {"revokeOld", "create"} /\ family'[presented'[s]] = f
          BY <4>1 DEF Admitted
        <5>2. s # r
          BY <3>3, <5>1 DEF SessionInv, TypeOK
        <5> QED  BY <3>3, <5>1, <5>2 DEF Lives, Admitted, SessionInv, TypeOK
      <4>2. CASE (\E t \in InFamily(f) : Live(t))'
        BY <3>3, <3>4, <4>2 DEF Lives, InFamily
      <4> QED  BY <3>5, <4>1, <4>2 DEF Lives
    <3> QED  BY <3>3, <3>5 DEF Wanes
  <2> QED  BY <2>2, <2>3
<1>4. ASSUME StartLogin \/ LoggedIn \/ LoginBreaks PROVE Wanes
  BY <1>2, <1>4, SameFades DEF StartLogin, LoggedIn, LoginBreaks, SessionInv
<1>5. ASSUME StartLogout \/ LoggedOut \/ LogoutBreaks \/ LoggedOutAll \/ LogoutAllBreaks PROVE Wanes
  BY <1>2, <1>5, SameFades DEF StartLogout, LoggedOut, LogoutBreaks, LoggedOutAll,
                               LogoutAllBreaks, SessionInv
<1>6. ASSUME LogoutRevokes \/ LogoutAllHere \/ RevokedElsewhere PROVE Wanes
  <2>1. /\ \E ts : Revoke(ts)
        /\ UNCHANGED <<expired, family, call, presented>>
    BY <1>6 DEF LogoutRevokes, LogoutAllHere, RevokedElsewhere, RevokeAllUserTokens
  <2> QED  BY <1>2, <2>1, RevokeFades DEF SessionInv
<1>7. ASSUME AccessExpires \/ RefreshCookieExpires \/ UNCHANGED vars PROVE Wanes
  BY <1>2, <1>7, SameFades DEF AccessExpires, RefreshCookieExpires, vars, SessionInv
<1>8. ASSUME NEW t \in Tokens, RefreshExpires(t) PROVE Wanes
  <2>1. Fades
    BY <1>8 DEF RefreshExpires, Fades, SessionInv, TypeOK
  <2> QED  BY <1>2, <1>8, <2>1 DEF RefreshExpires
<1> QED
  BY <1>1, <1>3, <1>4, <1>5, <1>6, <1>7, <1>8, WanesEnds DEF Login, Logout, Time, Promised!Next

\* Rotation implements the abstract session, for any tabs, requests and tokens:
\* a family ends once, and no refresh, however it races, opens it again.
THEOREM RotationImplementsSession == Spec => ImplementsSession
<1>1. Init => Promised!Init
  BY TokenFacts DEF Init, Promised!Init, SessionOfFamily, Lives, Admitted, InFamily, Live
<1>2. SessionInv /\ SessionInv' /\ [Next]_vars => [Promised!Next]_SessionOfFamily
  BY RefreshRefines, OthersRefine DEF Next
<1> QED
  BY <1>1, <1>2, SessionInit, SessionStep, PTL DEF Spec, ImplementsSession, Promised!Spec

-----------------------------------------------------------------------------
(* A family is one line of tokens, unless something disturbed it.           *)

\* One refresh at a time in a tab, one of each request.
TabInv == \A r \in Requests :
    /\ call[r] = "none" => presented[r] = 0
    /\ ~retried[r] => call[r] = "none"
    /\ call[r] # "waitsForItself"
    /\ call[r] \in ServerCall \cup Answer => refresher[TabOf[r]] = r

LogoutInv ==
    /\ logout.at = "idle" => logout.token = 0
    /\ logout.at \in {"answer", "done"} /\ logout.token # 0 => status[logout.token] = "revoked"

\* A token nobody presented, and no cookie carries.
Untouched(t) ==
    jar.rt # t /\ logout.token # t /\ \A r \in Requests : presented[r] # t

\* A token that is made goes with one answer, and is new to the browser; a token
\* that was replaced is in no cookie.
FreshInv ==
    /\ \A r \in Requests : call[r] \in {"pair", "renewed"} => granted[r] # 0
    /\ \A r \in Requests : call[r] = "pair" =>
          /\ Untouched(granted[r]) /\ login.token # granted[r]
          /\ \A s \in Requests \ {r} : granted[s] # granted[r]
    /\ \A r \in Requests : call[r] = "renewed" => jar.rt # presented[r]
    /\ login.token # 0 => Untouched(login.token)
    /\ login.at = "answer" <=> login.token # 0

BrowserInv == SessionInv /\ TabInv /\ LogoutInv /\ FreshInv

\* A token whose refresh was let in, and did not fail: another takes its place.
Spent(t) == \E r \in Requests : presented[r] = t /\ call[r] \in {"create", "pair", "renewed"}

\* Two refreshes of one tab present the same token only if it had expired.
TwiceIsExpired(f) == \A r, s \in Requests :
    r # s /\ presented[r] = presented[s] /\ presented[r] \in InFamily(f) =>
        expired[presented[r]] /\ call[r] \notin {"revokeOld", "create", "pair", "renewed"}

RevokedHasCause(f) == \A t \in InFamily(f) :
    status[t] = "revoked" => expired[t] \/ Spent(t) \/ t = logout.token

OneUnspent(f) == \A t, u \in InFamily(f) : t = u \/ Spent(t) \/ Spent(u)

\* While a token is being made, none of its family is left.
OneAtATime(f) == \A r \in Requests : call[r] = "create" /\ presented[r] \in InFamily(f) =>
    /\ \A t \in InFamily(f) : Spent(t)
    /\ \A s \in Requests : call[s] = "create" /\ presented[s] \in InFamily(f) => s = r

RefusedIsExpired(f) == \A r \in Requests :
    /\ call[r] \in {"revokeFamily", "revokeExpired", "unauthorized", "refused"}
    /\ presented[r] \in InFamily(f)
    => expired[presented[r]]

OneLine(f) ==
    TwiceIsExpired(f) /\ RevokedHasCause(f) /\ OneUnspent(f) /\ OneAtATime(f) /\ RefusedIsExpired(f)

LineInv == \A f \in Tokens : Disturbed(f) \/ OneLine(f)

-----------------------------------------------------------------------------
(* The tabs, the logout and what is new to the browser.                     *)

\* What a refresh does to its own call, and to the tab's refreshPromise.
LEMMA TabKept ==
    ASSUME SessionInv, TabInv, NEW r \in Requests, NEW c, call' = [call EXCEPT ![r] = c],
           call[r] # "none", c \notin {"none", "waitsForItself"},
           UNCHANGED <<presented, retried>>,
           \/ c \in ServerCall \cup Answer /\ refresher' = refresher /\ call[r] \in ServerCall \cup Answer
           \/ /\ c \in Settled /\ refresher' = [refresher EXCEPT ![TabOf[r]] = NoRequest]
              /\ call[r] \in Answer
    PROVE  TabInv'
<1> USE SessionAssumption DEF SessionInv, TypeOK
<1>1. ASSUME NEW s \in Requests PROVE call'[s] = "none" => presented'[s] = 0
  BY DEF TabInv
<1>2. ASSUME NEW s \in Requests, ~retried'[s] PROVE call'[s] = "none"
  <2>1. ~retried[s]
    BY <1>2
  <2>2. call[s] = "none"
    BY <2>1 DEF TabInv
  <2> QED  BY <2>2
<1>3. ASSUME NEW s \in Requests PROVE call'[s] # "waitsForItself"
  BY DEF TabInv
<1>4. ASSUME NEW s \in Requests, call'[s] \in ServerCall \cup Answer
      PROVE  refresher'[TabOf[s]] = s
  <2>1. CASE s = r
    BY <1>4, <2>1 DEF TabInv, ServerCall, Answer, Settled
  <2>2. CASE s # r
    <3>1. refresher[TabOf[s]] = s
      BY <1>4, <2>2 DEF TabInv
    <3>2. CASE c \in Settled
      <4>1. c \notin ServerCall \cup Answer
        BY <3>2 DEF Settled, ServerCall, Answer
      <4>2. call[r] \in Answer /\ refresher' = [refresher EXCEPT ![TabOf[r]] = NoRequest]
        BY <4>1
      <4>3. refresher[TabOf[r]] = r
        BY <4>2 DEF TabInv
      <4>4. TabOf[s] # TabOf[r]
        BY <2>2, <3>1, <4>3
      <4> QED  BY <3>1, <4>2, <4>4
    <3>3. CASE refresher' = refresher
      BY <3>1, <3>3
    <3> QED  BY <3>2, <3>3
  <2> QED  BY <2>1, <2>2
<1> QED  BY <1>1, <1>2, <1>3, <1>4, Zenon DEF TabInv

LEMMA TabStep == SessionInv /\ TabInv /\ [Next]_vars => TabInv'
<1> SUFFICES ASSUME SessionInv, TabInv, [Next]_vars PROVE TabInv'
  OBVIOUS
<1>0. ASSUME UNCHANGED <<retried, refresher, callVars>> PROVE TabInv'
  BY <1>0 DEF TabInv
<1>1. ASSUME NEW r \in Requests, AwaitRefresh(r) PROVE TabInv'
  <2>1. /\ ~retried[r] /\ retried' = [retried EXCEPT ![r] = TRUE]
        /\ \/ UNCHANGED <<call, presented, refresher>>
           \/ /\ refresher[TabOf[r]] = NoRequest
              /\ call' = [call EXCEPT ![r] = IF jar.rt = 0 THEN "unauthorized" ELSE "find"]
              /\ presented' = [presented EXCEPT ![r] = jar.rt]
              /\ refresher' = [refresher EXCEPT ![TabOf[r]] = r]
    BY <1>1 DEF AwaitRefresh, StartRefresh, ToCall
  <2>2. ASSUME NEW s \in Requests, ~retried'[s] PROVE call'[s] = "none"
    <3>1. ~retried[s] /\ s # r
      BY <2>1, <2>2 DEF SessionInv, TypeOK
    <3>2. call[s] = "none"
      BY <3>1 DEF TabInv
    <3> QED  BY <2>1, <3>1, <3>2 DEF SessionInv, TypeOK
  <2>3. ASSUME NEW s \in Requests
        PROVE  /\ call'[s] = "none" => presented'[s] = 0
               /\ call'[s] # "waitsForItself"
    BY <2>1 DEF SessionInv, TypeOK, TabInv
  <2>4. ASSUME NEW s \in Requests, call'[s] \in ServerCall \cup Answer
        PROVE  refresher'[TabOf[s]] = s
    <3>1. TabOf[s] \in Tabs /\ TabOf[r] \in Tabs /\ s # NoRequest /\ refresher \in [Tabs -> Requests \cup {NoRequest}]
      BY SessionAssumption DEF SessionInv, TypeOK
    <3>2. CASE call'[s] = call[s]
      <4>1. refresher[TabOf[s]] = s
        BY <2>4, <3>2 DEF TabInv
      <4> QED  BY <2>1, <3>1, <4>1
    <3>3. CASE call'[s] # call[s]
      <4>1. s = r /\ refresher' = [refresher EXCEPT ![TabOf[r]] = r]
        BY <2>1, <3>3 DEF SessionInv, TypeOK
      <4> QED  BY <3>1, <4>1
    <3> QED  BY <3>2, <3>3
  <2> QED  BY <2>2, <2>3, <2>4, Zenon DEF TabInv
<1>2. ASSUME NEW r \in Requests, Refresh(r) \/ RefreshBreaks(r) PROVE TabInv'
  <2> USE DEF ToCall, ServerCall, Answer, Settled
  <2>1. CASE FindToken(r)
    <3>1. /\ call[r] = "find" /\ UNCHANGED <<presented, retried, refresher>>
          /\ \E c \in {"revokeFamily", "revokeExpired", "revokeOld"} : call' = [call EXCEPT ![r] = c]
      BY <2>1 DEF FindToken
    <3> QED  BY <3>1, TabKept
  <2>2. CASE RevokeTokenFamily(r) \/ RevokeExpired(r)
    BY <2>2, TabKept DEF RevokeTokenFamily, RevokeExpired
  <2>3. CASE RevokeOld(r) \/ IssueInFamily(r)
    BY <2>3, TabKept DEF RevokeOld, IssueInFamily
  <2>4. CASE RefreshBreaks(r)
    <3>1. /\ call[r] \in ServerCall \cup Answer /\ call[r] # "none"
          /\ \E c \in {"error"} : call' = [call EXCEPT ![r] = c]
          /\ UNCHANGED <<presented, retried, refresher>>
      BY <2>4 DEF RefreshBreaks
    <3> QED  BY <3>1, TabKept
  <2>5. CASE Renewed(r)
    <3>1. /\ call[r] = "pair" /\ \E c \in {"renewed"} : call' = [call EXCEPT ![r] = c]
          /\ refresher' = [refresher EXCEPT ![TabOf[r]] = NoRequest]
          /\ UNCHANGED <<presented, retried>>
      BY <2>5 DEF Renewed
    <3> QED  BY <3>1, TabKept
  <2>6. CASE NotRenewed(r)
    <3>1. /\ call[r] \in {"unauthorized", "error"}
          /\ \E c \in {"failed", "refused"} : call' = [call EXCEPT ![r] = c]
          /\ refresher' = [refresher EXCEPT ![TabOf[r]] = NoRequest]
          /\ UNCHANGED <<presented, retried>>
      BY <2>6 DEF NotRenewed, ShouldTryRefresh
    <3> QED  BY <3>1, TabKept
  <2> QED  BY <1>2, <2>1, <2>2, <2>3, <2>4, <2>5, <2>6 DEF Refresh
<1>3. ASSUME NEW r \in Requests, Send(r) \/ Served(r) \/ RejectedRetry(r) PROVE TabInv'
  BY <1>0, <1>3 DEF Send, Served, RejectedRetry
<1>4. ASSUME Login \/ Logout \/ Time PROVE TabInv'
  BY <1>0, <1>4 DEF Login, Logout, Time, StartLogin, IssueTokenPair, LoggedIn, LoginBreaks,
     StartLogout, LogoutRevokes, LoggedOut, LogoutBreaks, LogoutAllHere, LoggedOutAll,
     LogoutAllBreaks, RevokedElsewhere, AccessExpires, RefreshCookieExpires, RefreshExpires
<1>5. CASE UNCHANGED vars
  BY <1>0, <1>5 DEF vars
<1> QED  BY <1>1, <1>2, <1>3, <1>4, <1>5 DEF Next, Api

\* A revoked token stays revoked.
LEMMA RevokedStays ==
    ASSUME SessionInv, [Next]_vars, NEW t \in Tokens, status[t] = "revoked"
    PROVE  status'[t] = "revoked"
<1>1. ASSUME NEW u \in Tokens, NEW f, CreateRefreshToken(u, f) PROVE status'[t] = "revoked"
  BY <1>1 DEF CreateRefreshToken, SessionInv, TypeOK
<1>2. ASSUME NEW ts, Revoke(ts) PROVE status'[t] = "revoked"
  BY <1>2 DEF Revoke
<1>3. ASSUME NEW r \in Requests, Api(r) \/ Refresh(r) \/ RefreshBreaks(r)
      PROVE  status'[t] = "revoked"
  BY <1>1, <1>2, <1>3 DEF Api, Send, Served, RejectedRetry, AwaitRefresh, Refresh, FindToken,
     RevokeTokenFamily, RevokeExpired, RevokeOld, IssueInFamily, Renewed, NotRenewed, RefreshBreaks
<1>4. ASSUME Login \/ Logout \/ Time PROVE status'[t] = "revoked"
  BY <1>1, <1>2, <1>4 DEF Login, Logout, Time, StartLogin, IssueTokenPair, LoggedIn, LoginBreaks,
     StartLogout, LogoutRevokes, LoggedOut, LogoutBreaks, LogoutAllHere, LoggedOutAll,
     LogoutAllBreaks, RevokedElsewhere, RevokeAllUserTokens, AccessExpires,
     RefreshCookieExpires, RefreshExpires
<1> QED  BY <1>3, <1>4 DEF Next, vars

LEMMA LogoutStep == SessionInv /\ LogoutInv /\ [Next]_vars => LogoutInv'
<1> SUFFICES ASSUME SessionInv, LogoutInv, [Next]_vars PROVE LogoutInv'
  OBVIOUS
<1>0. ASSUME UNCHANGED logout PROVE LogoutInv'
  BY <1>0, RevokedStays DEF LogoutInv, SessionInv, TypeOK
<1>1. ASSUME NEW r \in Requests, Api(r) \/ Refresh(r) \/ RefreshBreaks(r) PROVE LogoutInv'
  BY <1>0, <1>1 DEF Api, Send, Served, RejectedRetry, AwaitRefresh, Refresh, FindToken,
     RevokeTokenFamily, RevokeExpired, RevokeOld, IssueInFamily, Renewed, NotRenewed, RefreshBreaks
<1>2. ASSUME Login \/ Time \/ UNCHANGED vars PROVE LogoutInv'
  BY <1>0, <1>2 DEF vars, Login, Time, StartLogin, IssueTokenPair, LoggedIn, LoginBreaks,
     AccessExpires, RefreshCookieExpires, RefreshExpires
<1>3. ASSUME LogoutAllHere \/ LoggedOutAll \/ LogoutAllBreaks \/ RevokedElsewhere PROVE LogoutInv'
  BY <1>0, <1>3 DEF LogoutAllHere, LoggedOutAll, LogoutAllBreaks, RevokedElsewhere
<1>4. ASSUME StartLogout PROVE LogoutInv'
  BY <1>4 DEF StartLogout, LogoutInv
<1>5. ASSUME LogoutRevokes PROVE LogoutInv'
  <2>1. logout.token # 0 => logout.token \in Tokens /\ status[logout.token] # "none"
    BY DEF SessionInv, TypeOK, HeldInv, HasRow, RowInv
  <2> QED  BY <1>5, <2>1 DEF LogoutRevokes, Revoke, LogoutInv, SessionInv, TypeOK
<1>6. ASSUME LoggedOut \/ LogoutBreaks PROVE LogoutInv'
  BY <1>6 DEF LoggedOut, LogoutBreaks, LogoutInv, SessionInv, TypeOK
<1> QED  BY <1>1, <1>2, <1>3, <1>4, <1>5, <1>6 DEF Next, Logout

LEMMA FreshStep == BrowserInv /\ [Next]_vars => FreshInv'
<1> SUFFICES ASSUME BrowserInv, [Next]_vars PROVE FreshInv'
  OBVIOUS
<1> USE DEF BrowserInv
<1>0. ASSUME UNCHANGED <<granted, presented, login>>, jar'.rt = jar.rt,
             logout'.token = logout.token,
             \A r \in Requests : call'[r] \in {"pair", "renewed"} => call'[r] = call[r]
      PROVE  FreshInv'
  BY <1>0 DEF FreshInv, Untouched
\* A renewed request presented a token.
<1>a. \A r \in Requests : call[r] \in {"pair", "renewed"} => presented[r] # 0
  BY DEF FreshInv, SessionInv, CallInv, CallOK
<1>1. ASSUME NEW r \in Requests, Api(r) PROVE FreshInv'
  <2>1. CASE UNCHANGED <<call, presented>>
    BY <1>0, <1>1, <2>1 DEF Api, Send, Served, RejectedRetry, AwaitRefresh, StartRefresh
  <2>2. CASE ~UNCHANGED <<call, presented>>
    <3>1. AwaitRefresh(r) /\ StartRefresh(r)
      BY <1>1, <2>2 DEF Api, Send, Served, RejectedRetry, AwaitRefresh
    <3>2. /\ call' = [call EXCEPT ![r] = IF jar.rt = 0 THEN "unauthorized" ELSE "find"]
          /\ presented' = [presented EXCEPT ![r] = jar.rt]
          /\ UNCHANGED <<granted, jar, login, logout>>
      BY <3>1 DEF AwaitRefresh, StartRefresh, ToCall
    <3> QED  BY <3>2 DEF FreshInv, Untouched, SessionInv, TypeOK
  <2> QED  BY <2>1, <2>2
<1>2. ASSUME NEW r \in Requests, IssueInFamily(r) PROVE FreshInv'
  <2>1. PICK t \in Tokens : /\ status[t] = "none"
                            /\ granted' = [granted EXCEPT ![r] = t]
    BY <1>2 DEF IssueInFamily, CreateRefreshToken
  <2>2. /\ call' = [call EXCEPT ![r] = "pair"]
        /\ UNCHANGED <<jar, presented, login, logout>>
    BY <1>2 DEF IssueInFamily, ToCall
  <2>3. t # 0 /\ ~HasRow(t)
    BY <2>1, TokenFacts DEF HasRow, SessionInv, RowInv
  <2>4. Untouched(t) /\ login.token # t /\ \A s \in Requests : granted[s] # t
    BY <2>3 DEF Untouched, SessionInv, HeldInv
  <2> QED  BY <2>1, <2>2, <2>3, <2>4 DEF FreshInv, Untouched, SessionInv, TypeOK
<1>3. ASSUME NEW r \in Requests, Renewed(r) PROVE FreshInv'
  <2>1. /\ call[r] = "pair" /\ jar'.rt = granted[r] /\ call' = [call EXCEPT ![r] = "renewed"]
        /\ UNCHANGED <<granted, presented, login, logout>>
    BY <1>3 DEF Renewed, ToCall
  <2>2. /\ granted[r] # 0 /\ Untouched(granted[r]) /\ login.token # granted[r]
        /\ \A s \in Requests \ {r} : granted[s] # granted[r]
    BY <2>1 DEF FreshInv
  <2> QED  BY <2>1, <2>2 DEF FreshInv, Untouched, SessionInv, TypeOK
<1>4. ASSUME NEW r \in Requests,
             \/ FindToken(r) \/ RevokeTokenFamily(r) \/ RevokeExpired(r) \/ RevokeOld(r)
             \/ NotRenewed(r) \/ RefreshBreaks(r)
      PROVE  FreshInv'
  <2>1. /\ UNCHANGED <<granted, presented, jar, login, logout>>
        /\ \E c \in {"revokeFamily", "revokeExpired", "revokeOld", "create", "unauthorized", "error",
                     "failed", "refused", "waitsForItself"} : call' = [call EXCEPT ![r] = c]
    BY <1>4 DEF FindToken, RevokeTokenFamily, RevokeExpired, RevokeOld, NotRenewed, RefreshBreaks, ToCall
  <2>2. \A s \in Requests : call'[s] \in {"pair", "renewed"} => call'[s] = call[s]
    BY <2>1 DEF SessionInv, TypeOK
  <2> QED  BY <1>0, <2>1, <2>2
<1>5. ASSUME IssueTokenPair PROVE FreshInv'
  <2>1. PICK t \in Tokens : status[t] = "none" /\ login' = [at |-> "answer", token |-> t]
    BY <1>5 DEF IssueTokenPair, CreateRefreshToken
  <2>2. UNCHANGED <<jar, callVars, logout>>
    BY <1>5 DEF IssueTokenPair
  <2>3. t # 0 /\ ~HasRow(t)
    BY <2>1, TokenFacts DEF HasRow, SessionInv, RowInv
  <2>4. Untouched(t) /\ \A s \in Requests : granted[s] # t
    BY <2>3 DEF Untouched, SessionInv, HeldInv
  <2> QED  BY <2>1, <2>2, <2>3, <2>4 DEF FreshInv, Untouched
<1>6. ASSUME LoggedIn PROVE FreshInv'
  <2>1. /\ login.at = "answer" /\ jar'.rt = login.token /\ login' = [at |-> "idle", token |-> 0]
        /\ UNCHANGED <<callVars, logout>>
    BY <1>6 DEF LoggedIn
  <2> QED  BY <2>1 DEF FreshInv, Untouched
<1>7. ASSUME StartLogin \/ LoginBreaks PROVE FreshInv'
  <2>1. /\ login'.token = 0 /\ login'.at # "answer"
        /\ UNCHANGED <<jar, callVars, logout>>
    BY <1>7 DEF StartLogin, LoginBreaks
  <2> QED  BY <2>1 DEF FreshInv, Untouched
<1>8. ASSUME StartLogout PROVE FreshInv'
  BY <1>8 DEF StartLogout, FreshInv, Untouched
<1>9. ASSUME LogoutRevokes \/ LogoutBreaks \/ LogoutAllHere \/ LogoutAllBreaks \/ RevokedElsewhere
      PROVE  FreshInv'
  BY <1>0, <1>9 DEF LogoutRevokes, LogoutBreaks, LogoutAllHere, LogoutAllBreaks, RevokedElsewhere,
     SessionInv, TypeOK
<1>10. ASSUME LoggedOut \/ LoggedOutAll \/ RefreshCookieExpires PROVE FreshInv'
  <2>1. jar'.rt = 0 /\ logout'.token = logout.token /\ UNCHANGED <<callVars, login>>
    BY <1>10 DEF LoggedOut, LoggedOutAll, RefreshCookieExpires, SessionInv, TypeOK
  <2> QED  BY <1>a, <2>1 DEF FreshInv, Untouched
<1>11. ASSUME AccessExpires \/ (\E t \in Tokens : RefreshExpires(t)) \/ UNCHANGED vars
       PROVE  FreshInv'
  BY <1>0, <1>11 DEF AccessExpires, RefreshExpires, vars, SessionInv, TypeOK
<1> QED
  BY <1>1, <1>2, <1>3, <1>4, <1>5, <1>6, <1>7, <1>8, <1>9, <1>10, <1>11
     DEF Next, Refresh, Login, Logout, Time

LEMMA BrowserStep == BrowserInv /\ [Next]_vars => BrowserInv'
  BY SessionStep, TabStep, LogoutStep, FreshStep DEF BrowserInv

LEMMA BrowserInit == Init => BrowserInv
<1> SUFFICES ASSUME Init PROVE BrowserInv
  OBVIOUS
<1>1. TabInv
  BY DEF Init, TabInv, ServerCall, Answer
<1>2. LogoutInv /\ FreshInv
  BY DEF Init, LogoutInv, FreshInv, Untouched
<1> QED  BY <1>1, <1>2, SessionInit DEF BrowserInv

-----------------------------------------------------------------------------
(* A family stays one line until something disturbs it.                     *)

\* What nothing takes back.
Forward ==
    /\ \A t \in Tokens : family[t] # 0 => family'[t] = family[t]
    /\ \A t \in Tokens : expired[t] => expired'[t]
    /\ \A r \in Requests : presented[r] # 0 => presented'[r] = presented[r]
    /\ \A r \in Requests : call[r] \in {"error", "failed"} => call'[r] \in {"error", "failed"}
    /\ logout.token # 0 => logout'.token = logout.token
    /\ logoutAll # "idle" => logoutAll' # "idle"
    /\ logout.at # "idle" => logout'.at # "idle"

LEMMA GoesForward == BrowserInv /\ [Next]_vars => Forward
<1> SUFFICES ASSUME BrowserInv, [Next]_vars PROVE Forward
  OBVIOUS
<1> USE DEF BrowserInv
<1>1. ASSUME NEW t \in Tokens, NEW f, CreateRefreshToken(t, f)
      PROVE  expired' = expired /\ \A u \in Tokens : family[u] # 0 => family'[u] = family[u]
  BY <1>1 DEF CreateRefreshToken, SessionInv, TypeOK, RowInv
<1>2. ASSUME NEW r \in Requests, Api(r) PROVE Forward
  <2>1. CASE UNCHANGED <<call, presented>>
    BY <1>2, <2>1 DEF Forward, Api, Send, Served, RejectedRetry, AwaitRefresh
  <2>2. CASE ~UNCHANGED <<call, presented>>
    <3>1. AwaitRefresh(r) /\ StartRefresh(r)
      BY <1>2, <2>2 DEF Api, Send, Served, RejectedRetry, AwaitRefresh
    <3>2. /\ call' = [call EXCEPT ![r] = IF jar.rt = 0 THEN "unauthorized" ELSE "find"]
          /\ presented' = [presented EXCEPT ![r] = jar.rt]
          /\ UNCHANGED <<rows, formVars>> /\ ~retried[r]
      BY <3>1 DEF AwaitRefresh, StartRefresh, ToCall
    <3>3. call[r] = "none" /\ presented[r] = 0
      BY <3>2 DEF TabInv
    <3> QED  BY <3>2, <3>3 DEF Forward, SessionInv, TypeOK
  <2> QED  BY <2>1, <2>2
<1>3. ASSUME NEW r \in Requests, Refresh(r) \/ RefreshBreaks(r) PROVE Forward
  <2>1. UNCHANGED <<presented, formVars>>
    BY <1>3 DEF Refresh, FindToken, RevokeTokenFamily, RevokeExpired, RevokeOld, IssueInFamily,
       Renewed, NotRenewed, RefreshBreaks
  <2>2. expired' = expired /\ \A u \in Tokens : family[u] # 0 => family'[u] = family[u]
    BY <1>1, <1>3 DEF Refresh, FindToken, RevokeTokenFamily, RevokeExpired, RevokeOld, IssueInFamily,
       Renewed, NotRenewed, RefreshBreaks
  <2>3. \A s \in Requests : call[s] \in {"error", "failed"} => call'[s] \in {"error", "failed"}
    BY <1>3 DEF Refresh, FindToken, RevokeTokenFamily, RevokeExpired, RevokeOld, IssueInFamily,
       Renewed, NotRenewed, RefreshBreaks, ToCall, ServerCall, SessionInv, TypeOK
  <2> QED  BY <2>1, <2>2, <2>3 DEF Forward
<1>4. ASSUME Login PROVE Forward
  BY <1>1, <1>4 DEF Login, StartLogin, IssueTokenPair, LoggedIn, LoginBreaks, Forward
<1>5. ASSUME Logout PROVE Forward
  BY <1>5 DEF Logout, StartLogout, LogoutRevokes, LoggedOut, LogoutBreaks, LogoutAllHere,
     LoggedOutAll, LogoutAllBreaks, RevokedElsewhere, RevokeAllUserTokens, Forward, LogoutInv,
     SessionInv, TypeOK
<1>6. ASSUME Time \/ UNCHANGED vars PROVE Forward
  BY <1>6 DEF Time, AccessExpires, RefreshCookieExpires, RefreshExpires, vars, Forward,
     SessionInv, TypeOK
<1> QED  BY <1>2, <1>3, <1>4, <1>5, <1>6 DEF Next

\* A disturbed session stays one.
LEMMA StaysDisturbed ==
    ASSUME BrowserInv, Forward, NEW f \in Tokens, Disturbed(f)
    PROVE  Disturbed(f)'
<1>1. ASSUME NEW t, t \in InFamily(f) PROVE t # 0 /\ t \in InFamily(f)'
  BY <1>1, TokenFacts DEF InFamily, Forward
<1>2. CASE Broken(f)
  BY <1>1, <1>2 DEF Broken, Forward, Disturbed
<1>3. CASE Shared(f)
  <2>1. PICK r, s \in Requests : /\ TabOf[r] # TabOf[s]
                                 /\ presented[r] = presented[s] /\ presented[r] \in InFamily(f)
    BY <1>3 DEF Shared
  <2>2. presented'[r] = presented'[s] /\ presented'[r] \in InFamily(f)'
    BY <1>1, <2>1 DEF Forward
  <2> QED  BY <2>1, <2>2 DEF Shared, Disturbed
<1>4. CASE RacedLogout(f)
  BY <1>1, <1>4 DEF RacedLogout, Forward, Disturbed
<1>5. CASE logoutAll # "idle"
  BY <1>5 DEF Forward, Disturbed
<1> QED  BY <1>2, <1>3, <1>4, <1>5 DEF Disturbed

\* What a family's refreshes may do beside letting a token in or making one.
Advances(r) ==
    \/ call'[r] = call[r]
    \/ call[r] = "pair" /\ call'[r] = "renewed"
    \/ call[r] \in {"revokeFamily", "revokeExpired"} /\ call'[r] = "unauthorized"
    \/ call[r] = "unauthorized" /\ call'[r] = "refused"
    \/ /\ call[r] = "find" /\ call'[r] \in {"revokeFamily", "revokeExpired"}
       /\ expired[presented[r]]
    \/ call[r] = "find" /\ call'[r] = "revokeOld" /\ ~expired[presented[r]]

LEMMA LineKept ==
    ASSUME SessionInv, Forward, NEW f \in Tokens, OneLine(f), InFamily(f)' = InFamily(f),
           \A r \in Requests : presented[r] \in InFamily(f) \/ presented'[r] \in InFamily(f) =>
               presented'[r] = presented[r] /\ Advances(r),
           \A t \in InFamily(f) : status'[t] = "revoked" =>
               status[t] = "revoked" \/ expired'[t] \/ Spent(t) \/ t = logout'.token
    PROVE  OneLine(f)'
<1>0. InFamily(f) \subseteq Tokens /\ \A t \in InFamily(f) : t # 0
  BY TokenFacts DEF InFamily
<1>a. \A t \in InFamily(f) : expired[t] => expired'[t]
  BY <1>0 DEF Forward
<1>b. \A t \in InFamily(f) : t = logout.token => t = logout'.token
  BY <1>0 DEF Forward
<1>1. ASSUME NEW t \in InFamily(f) PROVE Spent(t) <=> Spent(t)'
  <2>1. ASSUME NEW r \in Requests, presented[r] = t, call[r] \in {"create", "pair", "renewed"}
        PROVE  presented'[r] = t /\ call'[r] \in {"create", "pair", "renewed"}
    BY <2>1 DEF Advances
  <2>2. ASSUME NEW r \in Requests, presented'[r] = t, call'[r] \in {"create", "pair", "renewed"}
        PROVE  presented[r] = t /\ call[r] \in {"create", "pair", "renewed"}
    BY <2>2 DEF Advances
  <2> QED  BY <2>1, <2>2 DEF Spent
<1>2. TwiceIsExpired(f)'
  <2>1. ASSUME NEW r \in Requests, NEW s \in Requests, r # s, presented'[r] = presented'[s],
               presented'[r] \in InFamily(f)
        PROVE  expired'[presented'[r]] /\ call'[r] \notin {"revokeOld", "create", "pair", "renewed"}
    <3>1. presented'[r] = presented[r] /\ presented'[s] = presented[s] /\ Advances(r)
      BY <2>1
    <3>2. expired[presented[r]] /\ call[r] \notin {"revokeOld", "create", "pair", "renewed"}
      BY <2>1, <3>1 DEF OneLine, TwiceIsExpired
    <3>3. expired'[presented'[r]]
      BY <1>a, <2>1, <3>1, <3>2
    <3>4. call'[r] \notin {"revokeOld", "create", "pair", "renewed"}
      BY <3>1, <3>2 DEF Advances
    <3> QED  BY <3>3, <3>4
  <2> QED  BY <2>1 DEF TwiceIsExpired
<1>3. RevokedHasCause(f)'
  BY <1>a, <1>b, <1>1 DEF OneLine, RevokedHasCause
<1>4. OneUnspent(f)'
  BY <1>1 DEF OneLine, OneUnspent
<1>5. OneAtATime(f)'
  <2>1. ASSUME NEW r \in Requests, call'[r] = "create", presented'[r] \in InFamily(f)
        PROVE  call[r] = "create" /\ presented[r] \in InFamily(f)
    BY <2>1 DEF Advances
  <2> QED  BY <1>1, <2>1 DEF OneLine, OneAtATime
<1>6. RefusedIsExpired(f)'
  <2>1. ASSUME NEW r \in Requests, presented'[r] \in InFamily(f),
               call'[r] \in {"revokeFamily", "revokeExpired", "unauthorized", "refused"}
        PROVE  expired'[presented'[r]]
    <3>1. presented'[r] = presented[r] /\ Advances(r)
      BY <2>1
    <3>2. expired[presented[r]]
      BY <2>1, <3>1 DEF Advances, OneLine, RefusedIsExpired
    <3> QED  BY <1>a, <2>1, <3>1, <3>2
  <2> QED  BY <2>1 DEF RefusedIsExpired
<1> QED  BY <1>2, <1>3, <1>4, <1>5, <1>6 DEF OneLine

\* Theft detection has a cause in a family that is one line.
LEMMA FoundRevoked ==
    ASSUME BrowserInv, NEW f \in Tokens, ~Disturbed(f), OneLine(f), NEW r \in Requests,
           call[r] = "find", presented[r] \in InFamily(f), status[presented[r]] = "revoked"
    PROVE  expired[presented[r]]
<1>1. ASSUME Spent(presented[r]) PROVE expired[presented[r]]
  <2>1. PICK s \in Requests : presented[s] = presented[r] /\ call[s] \in {"create", "pair", "renewed"}
    BY <1>1 DEF Spent
  <2>2. s # r
    BY <2>1
  <2> QED  BY <2>1, <2>2 DEF OneLine, TwiceIsExpired
<1>2. presented[r] # logout.token
  BY DEF Disturbed, RacedLogout
<1> QED  BY <1>1, <1>2 DEF OneLine, RevokedHasCause

\* The refresh that revokes a family found its token expired, and what else is of the
\* family was spent before.
LEMMA FamilyRevoked ==
    ASSUME BrowserInv, NEW f \in Tokens, ~Disturbed(f), OneLine(f), NEW r \in Requests,
           call[r] = "revokeFamily", presented[r] \in InFamily(f), NEW t \in InFamily(f)
    PROVE  expired[t] \/ Spent(t)
<1>1. expired[presented[r]]
  BY DEF OneLine, RefusedIsExpired
<1>2. ~Spent(presented[r])
  <2>1. SUFFICES ASSUME NEW s \in Requests, presented[s] = presented[r],
                        call[s] \in {"create", "pair", "renewed"}
                 PROVE  FALSE
    BY DEF Spent
  <2>2. s # r
    BY <2>1
  <2> QED  BY <2>1, <2>2 DEF OneLine, TwiceIsExpired
<1> QED  BY <1>1, <1>2 DEF OneLine, OneUnspent

\* A second refresh of a tab presents the token of the first only if that had expired.
LEMMA PresentedAgain ==
    ASSUME BrowserInv, Forward, NEW f \in Tokens, ~Disturbed(f)', OneLine(f), NEW r \in Requests,
           refresher[TabOf[r]] = NoRequest, jar.rt \in InFamily(f), UNCHANGED rows,
           presented' = [presented EXCEPT ![r] = jar.rt], call' = [call EXCEPT ![r] = "find"],
           NEW s \in Requests, s # r, presented[s] = jar.rt
    PROVE  call[s] = "refused" /\ expired[jar.rt]
<1> USE DEF BrowserInv
<1>1. presented'[s] = jar.rt /\ presented'[r] = jar.rt /\ call'[s] = call[s]
      /\ jar.rt \in InFamily(f)' /\ jar.rt # 0
  BY TokenFacts DEF InFamily, SessionInv, TypeOK
<1>2. TabOf[s] = TabOf[r]
  BY <1>1 DEF Disturbed, Shared
<1>3. call[s] \notin ServerCall \cup Answer
  BY <1>2, SessionAssumption DEF TabInv
<1>4. call[s] \notin {"none", "waitsForItself", "error", "failed", "renewed"}
  BY <1>1 DEF TabInv, Disturbed, Broken, FreshInv
<1>5. call[s] = "refused"
  BY <1>3, <1>4 DEF SessionInv, TypeOK, Settled, ServerCall, Answer
<1> QED  BY <1>5 DEF OneLine, RefusedIsExpired

LEMMA PresentedKeeps ==
    ASSUME BrowserInv, Forward, NEW f \in Tokens, ~Disturbed(f)', OneLine(f), NEW r \in Requests,
           AwaitRefresh(r)
    PROVE  OneLine(f)'
<1> USE DEF BrowserInv
<1>1. CASE UNCHANGED <<call, presented>>
  BY <1>1, LineKept DEF AwaitRefresh, Advances, InFamily
<1>2. CASE ~UNCHANGED <<call, presented>>
  <2>1. /\ refresher[TabOf[r]] = NoRequest /\ ~retried[r] /\ UNCHANGED <<rows, logout>>
        /\ presented' = [presented EXCEPT ![r] = jar.rt]
        /\ call' = [call EXCEPT ![r] = IF jar.rt = 0 THEN "unauthorized" ELSE "find"]
    BY <1>2 DEF AwaitRefresh, StartRefresh, ToCall
  <2>2. call[r] = "none" /\ presented[r] = 0
    BY <2>1 DEF TabInv
  <2>3. InFamily(f)' = InFamily(f) /\ 0 \notin InFamily(f)
    BY <2>1, TokenFacts DEF InFamily
  <2>4. \A s \in Requests : s # r => presented'[s] = presented[s] /\ call'[s] = call[s]
    BY <2>1 DEF SessionInv, TypeOK
  <2>5. CASE jar.rt \notin InFamily(f)
    <3>1. presented'[r] \notin InFamily(f)
      BY <2>1, <2>5 DEF SessionInv, TypeOK
    <3>2. \A s \in Requests : presented[s] \in InFamily(f) \/ presented'[s] \in InFamily(f) =>
              presented'[s] = presented[s] /\ Advances(s)
      BY <2>2, <2>3, <2>4, <3>1 DEF Advances
    <3>3. status' = status
      BY <2>1
    <3> QED  BY <2>3, <3>2, <3>3, LineKept
  <2>6. CASE jar.rt \in InFamily(f)
    <3>1. presented'[r] = jar.rt /\ call'[r] = "find" /\ call' = [call EXCEPT ![r] = "find"]
      BY <2>1, <2>3, <2>6 DEF SessionInv, TypeOK
    <3>2. \A s \in Requests : s # r /\ presented[s] = jar.rt => call[s] = "refused" /\ expired[jar.rt]
      BY <2>1, <2>6, <3>1, PresentedAgain
    <3>3. \A t \in InFamily(f) : Spent(t) => Spent(t)'
      BY <2>2, <2>4 DEF Spent
    <3>4. TwiceIsExpired(f)'
      <4>1. ASSUME NEW p \in Requests, NEW s \in Requests, p # s, presented'[p] = presented'[s],
                   presented'[p] \in InFamily(f)
            PROVE  expired[presented'[p]] /\ call'[p] \notin {"revokeOld", "create", "pair", "renewed"}
        <5>1. CASE p = r
          BY <2>4, <3>1, <3>2, <4>1, <5>1
        <5>2. CASE s = r
          BY <2>4, <3>1, <3>2, <4>1, <5>2
        <5>3. CASE p # r /\ s # r
          BY <2>4, <4>1, <5>3 DEF OneLine, TwiceIsExpired
        <5> QED  BY <5>1, <5>2, <5>3
      <4> QED  BY <2>1, <2>3, <4>1 DEF TwiceIsExpired
    <3>5. RevokedHasCause(f)' /\ OneUnspent(f)'
      BY <2>1, <2>3, <3>3 DEF OneLine, RevokedHasCause, OneUnspent
    <3>6. OneAtATime(f)'
      BY <2>3, <2>4, <3>1, <3>3 DEF OneLine, OneAtATime
    <3>7. RefusedIsExpired(f)'
      BY <2>1, <2>3, <2>4, <3>1 DEF OneLine, RefusedIsExpired
    <3> QED  BY <3>4, <3>5, <3>6, <3>7 DEF OneLine
  <2> QED  BY <2>5, <2>6
<1> QED  BY <1>1, <1>2

LEMMA OldRevoked ==
    ASSUME BrowserInv, Forward, NEW f \in Tokens, OneLine(f), NEW r \in Requests, RevokeOld(r)
    PROVE  OneLine(f)'
<1> USE DEF BrowserInv
<1>1. /\ call[r] = "revokeOld" /\ call' = [call EXCEPT ![r] = "create"] /\ Revoke({presented[r]})
      /\ UNCHANGED <<expired, family, presented, logout>>
  BY DEF RevokeOld, ToCall
<1>2. /\ call'[r] = "create" /\ \A s \in Requests : s # r => call'[s] = call[s]
      /\ InFamily(f)' = InFamily(f) /\ InFamily(f) \subseteq Tokens
  BY <1>1 DEF SessionInv, TypeOK, InFamily
<1>3. CASE presented[r] \notin InFamily(f)
  <2>1. \A s \in Requests : presented[s] \in InFamily(f) => Advances(s)
    BY <1>2, <1>3 DEF Advances
  <2>2. \A t \in InFamily(f) : status'[t] = status[t]
    BY <1>1, <1>2, <1>3 DEF Revoke
  <2> QED  BY <1>1, <1>2, <2>1, <2>2, LineKept
<1>4. CASE presented[r] \in InFamily(f)
  <2>1. \A s \in Requests : s # r => presented[s] # presented[r]
    BY <1>1, <1>4 DEF OneLine, TwiceIsExpired
  <2>2. ~Spent(presented[r])
    BY <1>1, <2>1 DEF Spent
  <2>3. \A t \in InFamily(f) : Spent(t)'
    <3>1. ASSUME NEW t \in InFamily(f), Spent(t) PROVE Spent(t)'
      BY <1>1, <1>2, <3>1 DEF Spent
    <3>2. ASSUME NEW t \in InFamily(f), t = presented[r] PROVE Spent(t)'
      BY <1>1, <1>2, <3>2 DEF Spent
    <3>3. \A t \in InFamily(f) : t = presented[r] \/ Spent(t)
      BY <1>4, <2>2 DEF OneLine, OneUnspent
    <3> QED  BY <3>1, <3>2, <3>3
  <2>4. \A s \in Requests : call'[s] = "create" /\ presented[s] \in InFamily(f) => s = r
    BY <1>2, <1>4, <2>2 DEF OneLine, OneAtATime
  <2>5. TwiceIsExpired(f)'
    BY <1>1, <1>2, <2>1 DEF OneLine, TwiceIsExpired
  <2>6. RevokedHasCause(f)' /\ OneUnspent(f)'
    BY <1>2, <2>3 DEF RevokedHasCause, OneUnspent
  <2>7. OneAtATime(f)'
    BY <1>1, <1>2, <2>3, <2>4 DEF OneAtATime
  <2>8. RefusedIsExpired(f)'
    BY <1>1, <1>2 DEF OneLine, RefusedIsExpired
  <2> QED  BY <2>5, <2>6, <2>7, <2>8 DEF OneLine
<1> QED  BY <1>3, <1>4

LEMMA OneMade ==
    ASSUME BrowserInv, Forward, NEW f \in Tokens, OneLine(f), NEW r \in Requests, IssueInFamily(r)
    PROVE  OneLine(f)'
<1> USE DEF BrowserInv
<1>1. PICK t \in Tokens : CreateRefreshToken(t, family[presented[r]])
  BY DEF IssueInFamily
<1>2. /\ call[r] = "create" /\ call' = [call EXCEPT ![r] = "pair"]
      /\ UNCHANGED <<expired, presented, logout>>
      /\ status' = [status EXCEPT ![t] = "live"] /\ family[t] = 0 /\ status[t] = "none"
      /\ family' = [family EXCEPT ![t] = family[presented[r]]]
  BY <1>1 DEF IssueInFamily, ToCall, CreateRefreshToken, SessionInv, RowInv
<1>3. call'[r] = "pair" /\ \A s \in Requests : s # r => call'[s] = call[s]
  BY <1>2 DEF SessionInv, TypeOK
<1>4. presented[r] \in Tokens /\ family[presented[r]] \in Tokens
  BY <1>2, Presented DEF ServerCall
<1>5. CASE family[presented[r]] # f
  <2>1. InFamily(f)' = InFamily(f) /\ t \notin InFamily(f) /\ presented[r] \notin InFamily(f)
    BY <1>2, <1>4, <1>5, TokenFacts DEF InFamily, SessionInv, TypeOK
  <2>2. \A s \in Requests : presented[s] \in InFamily(f) => Advances(s)
    BY <1>3, <2>1 DEF Advances
  <2>3. \A u \in InFamily(f) : status'[u] = status[u]
    BY <1>2, <2>1 DEF InFamily, SessionInv, TypeOK
  <2> QED  BY <1>2, <2>1, <2>2, <2>3, LineKept
<1>6. CASE family[presented[r]] = f
  <2>1. /\ InFamily(f)' = InFamily(f) \cup {t} /\ t \notin InFamily(f)
        /\ presented[r] \in InFamily(f)
    BY <1>2, <1>4, <1>6, TokenFacts DEF InFamily, SessionInv, TypeOK
  <2>2. \A s \in Requests : presented[s] # t
    BY <1>2, TokenFacts DEF SessionInv, HeldInv, HasRow
  <2>3. \A u \in InFamily(f) : Spent(u)' 
    <3>1. \A u \in InFamily(f) : Spent(u)
      BY <1>2, <2>1 DEF OneLine, OneAtATime
    <3> QED  BY <1>2, <1>3, <3>1 DEF Spent
  <2>4. \A s \in Requests : call'[s] = "create" => presented'[s] \notin InFamily(f)'
    BY <1>2, <1>3, <2>1, <2>2 DEF OneLine, OneAtATime
  <2>5. TwiceIsExpired(f)'
    BY <1>2, <1>3, <2>1, <2>2 DEF OneLine, TwiceIsExpired
  <2>6. RevokedHasCause(f)'
    BY <1>2, <2>1, <2>3 DEF RevokedHasCause, SessionInv, TypeOK
  <2>7. OneUnspent(f)' /\ OneAtATime(f)'
    BY <2>1, <2>3, <2>4 DEF OneUnspent, OneAtATime
  <2>8. RefusedIsExpired(f)'
    BY <1>2, <1>3, <2>1, <2>2 DEF OneLine, RefusedIsExpired
  <2> QED  BY <2>5, <2>6, <2>7, <2>8 DEF OneLine
<1> QED  BY <1>5, <1>6

\* The other steps of a refresh.
LEMMA RefreshAdvances ==
    ASSUME BrowserInv, Forward, NEW f \in Tokens, ~Disturbed(f), ~Disturbed(f)', OneLine(f),
           NEW r \in Requests,
           \/ FindToken(r) \/ RevokeTokenFamily(r) \/ RevokeExpired(r)
           \/ Renewed(r) \/ NotRenewed(r) \/ RefreshBreaks(r)
    PROVE  OneLine(f)'
<1> USE DEF BrowserInv
<1>1. /\ UNCHANGED <<expired, family, presented, logout>>
      /\ \E c : call' = [call EXCEPT ![r] = c]
  BY DEF FindToken, RevokeTokenFamily, RevokeExpired, Renewed, NotRenewed, RefreshBreaks, ToCall
<1>2. \A s \in Requests : s # r => Advances(s)
  BY <1>1 DEF Advances, SessionInv, TypeOK
<1>3. InFamily(f)' = InFamily(f) /\ InFamily(f) \subseteq Tokens
  BY <1>1 DEF InFamily
<1>4. presented[r] \in InFamily(f) => Advances(r)
  <2> SUFFICES ASSUME presented[r] \in InFamily(f) PROVE Advances(r)
    OBVIOUS
  <2> USE DEF ToCall
  <2>1. CASE FindToken(r)
    <3>1. call[r] = "find" /\ presented[r] \in Tokens
      BY <1>3, <2>1 DEF FindToken
    <3>2. \/ call'[r] = "revokeFamily" /\ status[presented[r]] = "revoked"
          \/ call'[r] = "revokeExpired" /\ expired[presented[r]]
          \/ call'[r] = "revokeOld" /\ ~expired[presented[r]]
      BY <2>1, <3>1 DEF FindToken, SessionInv, TypeOK
    <3> QED  BY <3>1, <3>2, FoundRevoked DEF Advances
  <2>2. CASE RevokeTokenFamily(r) \/ RevokeExpired(r) \/ Renewed(r)
    BY <2>2 DEF RevokeTokenFamily, RevokeExpired, Renewed, Advances, SessionInv, TypeOK
  <2>3. CASE RefreshBreaks(r)
    <3>1. call'[r] = "error" /\ presented'[r] \in InFamily(f)'
      BY <1>1, <1>3, <2>3 DEF RefreshBreaks, SessionInv, TypeOK
    <3> QED  BY <3>1 DEF Disturbed, Broken
  <2>4. CASE NotRenewed(r)
    <3>1. call[r] # "error"
      BY DEF Disturbed, Broken
    <3> QED  BY <2>4, <3>1 DEF NotRenewed, ShouldTryRefresh, Advances, SessionInv, TypeOK
  <2> QED  BY <2>1, <2>2, <2>3, <2>4
<1>5. ASSUME NEW t \in InFamily(f), status'[t] = "revoked", status[t] # "revoked"
      PROVE  expired'[t] \/ Spent(t)
  <2>1. t \in Tokens /\ family[t] = f
    BY DEF InFamily
  <2>2. CASE RevokeTokenFamily(r)
    <3>1. t \in InFamily(family[presented[r]]) /\ call[r] = "revokeFamily"
      BY <1>5, <2>1, <2>2 DEF RevokeTokenFamily, Revoke
    <3>2. presented[r] \in InFamily(f)
      BY <2>1, <3>1, Presented DEF InFamily, ServerCall
    <3> QED  BY <1>1, <3>1, <3>2, FamilyRevoked
  <2>3. CASE RevokeExpired(r)
    <3>1. t = presented[r] /\ call[r] = "revokeExpired"
      BY <1>5, <2>1, <2>3 DEF RevokeExpired, Revoke
    <3> QED  BY <1>1, <3>1 DEF OneLine, RefusedIsExpired
  <2> QED  BY <1>5, <2>2, <2>3 DEF FindToken, Renewed, NotRenewed, RefreshBreaks
<1> QED  BY <1>1, <1>2, <1>3, <1>4, <1>5, LineKept

LEMMA FormsKeep ==
    ASSUME BrowserInv, Forward, NEW f \in Tokens, ~Disturbed(f)', OneLine(f),
           Login \/ Logout \/ Time \/ UNCHANGED vars
    PROVE  OneLine(f)'
<1> USE DEF BrowserInv
<1>0. ASSUME UNCHANGED <<status, family, call, presented>> PROVE OneLine(f)'
  BY <1>0, LineKept DEF Advances, InFamily
<1>1. CASE IssueTokenPair
  <2>1. PICK t \in Tokens : CreateRefreshToken(t, t)
    BY <1>1 DEF IssueTokenPair
  <2>2. /\ UNCHANGED <<expired, call, presented, logout>>
        /\ status' = [status EXCEPT ![t] = "live"] /\ family' = [family EXCEPT ![t] = t]
        /\ status[t] = "none" /\ family[t] = 0
    BY <1>1, <2>1 DEF IssueTokenPair, CreateRefreshToken, SessionInv, RowInv
  <2>3. \A s \in Requests : presented[s] # t
    BY <2>2, TokenFacts DEF SessionInv, HeldInv, HasRow
  <2>4. CASE t # f
    <3>1. InFamily(f)' = InFamily(f) /\ t \notin InFamily(f)
      BY <2>2, <2>4, TokenFacts DEF InFamily, SessionInv, TypeOK
    <3>2. \A u \in InFamily(f) : status'[u] = status[u]
      BY <2>2, <3>1 DEF InFamily, SessionInv, TypeOK
    <3> QED  BY <2>2, <3>1, <3>2, LineKept DEF Advances
  <2>5. CASE t = f
    <3>1. InFamily(f) = {}
      BY <2>2, <2>5, TokenFacts DEF InFamily, SessionInv, RowInv
    <3>2. InFamily(f)' = {t}
      BY <2>2, <2>5, <3>1 DEF InFamily, SessionInv, TypeOK
    <3>3. status'[t] = "live"
      BY <2>2 DEF SessionInv, TypeOK
    <3> QED  BY <2>2, <2>3, <3>2, <3>3 DEF OneLine, TwiceIsExpired, RevokedHasCause, OneUnspent,
                OneAtATime, RefusedIsExpired
  <2> QED  BY <2>4, <2>5
<1>2. CASE StartLogin \/ LoggedIn \/ LoginBreaks
  BY <1>0, <1>2 DEF StartLogin, LoggedIn, LoginBreaks
<1>3. CASE LogoutRevokes
  <2>1. \A t \in InFamily(f) : status'[t] = "revoked" => status[t] = "revoked" \/ t = logout'.token
    BY <1>3 DEF LogoutRevokes, Revoke, InFamily, SessionInv, TypeOK
  <2>2. UNCHANGED <<family, call, presented>>
    BY <1>3 DEF LogoutRevokes
  <2> QED  BY <2>1, <2>2, LineKept DEF Advances, InFamily
<1>4. CASE LogoutAllHere \/ RevokedElsewhere
  BY <1>4 DEF LogoutAllHere, RevokedElsewhere, Disturbed
<1>5. CASE StartLogout \/ LoggedOut \/ LogoutBreaks \/ LoggedOutAll \/ LogoutAllBreaks
  BY <1>0, <1>5 DEF StartLogout, LoggedOut, LogoutBreaks, LoggedOutAll, LogoutAllBreaks
<1>6. CASE Time \/ UNCHANGED vars
  BY <1>0, <1>6 DEF Time, AccessExpires, RefreshCookieExpires, RefreshExpires, vars
<1> QED  BY <1>1, <1>2, <1>3, <1>4, <1>5, <1>6 DEF Login, Logout

LEMMA LineStep == BrowserInv /\ LineInv /\ [Next]_vars => LineInv'
<1> SUFFICES ASSUME BrowserInv, LineInv, [Next]_vars, NEW f \in Tokens, ~Disturbed(f)'
             PROVE  OneLine(f)'
  BY DEF LineInv
<1>1. Forward
  BY GoesForward
<1>2. ~Disturbed(f)
  BY <1>1, StaysDisturbed
<1>3. OneLine(f)
  BY <1>2 DEF LineInv
<1>4. ASSUME NEW r \in Requests, Send(r) \/ Served(r) \/ RejectedRetry(r) PROVE OneLine(f)'
  <2>1. UNCHANGED <<status, family, call, presented>>
    BY <1>4 DEF Send, Served, RejectedRetry
  <2> QED  BY <1>1, <1>3, <2>1, LineKept DEF BrowserInv, Advances, InFamily
<1>5. ASSUME NEW r \in Requests, AwaitRefresh(r) PROVE OneLine(f)'
  BY <1>1, <1>3, <1>5, PresentedKeeps
<1>6. ASSUME NEW r \in Requests, Refresh(r) \/ RefreshBreaks(r) PROVE OneLine(f)'
  BY <1>1, <1>2, <1>3, <1>6, OldRevoked, OneMade, RefreshAdvances DEF Refresh
<1>7. ASSUME Login \/ Logout \/ Time \/ UNCHANGED vars PROVE OneLine(f)'
  BY <1>1, <1>3, <1>7, FormsKeep
<1> QED  BY <1>4, <1>5, <1>6, <1>7 DEF Next, Api

-----------------------------------------------------------------------------
(* Who is signed out, and whom a refusal rejects.                           *)

SignedOut == logout.at # "idle" \/ logoutAll # "idle" \/ \E t \in Tokens : expired[t]

OutInv ==
    /\ family[1] = 1
    /\ jar.rt = 0 => SignedOut
    /\ \A r \in Requests : call[r] # "none" /\ presented[r] = 0 => SignedOut

LEMMA StaysSignedOut == Forward /\ SignedOut => SignedOut'
  BY DEF Forward, SignedOut

LEMMA OutStep == BrowserInv /\ OutInv /\ [Next]_vars => OutInv'
<1> SUFFICES ASSUME BrowserInv, OutInv, [Next]_vars PROVE OutInv'
  OBVIOUS
<1> USE DEF BrowserInv
<1>0. Forward /\ (SignedOut => SignedOut')
  BY GoesForward, StaysSignedOut
<1>1. family'[1] = 1
  BY <1>0, TokenFacts DEF Forward, OutInv
<1>2. ASSUME \A r \in Requests : call'[r] = "none" <=> call[r] = "none",
             presented' = presented, jar'.rt = 0 => jar.rt = 0 \/ SignedOut'
      PROVE  OutInv'
  BY <1>0, <1>1, <1>2 DEF OutInv
<1>3. ASSUME NEW r \in Requests, AwaitRefresh(r) PROVE OutInv'
  <2>1. /\ jar' = jar
        /\ \/ UNCHANGED <<call, presented>>
           \/ /\ call' = [call EXCEPT ![r] = IF jar.rt = 0 THEN "unauthorized" ELSE "find"]
              /\ presented' = [presented EXCEPT ![r] = jar.rt]
    BY <1>3 DEF AwaitRefresh, StartRefresh, ToCall
  <2>2. ASSUME NEW s \in Requests, call'[s] # "none", presented'[s] = 0 PROVE SignedOut
    BY <2>1, <2>2 DEF OutInv, SessionInv, TypeOK
  <2> QED  BY <1>0, <1>1, <2>1, <2>2 DEF OutInv
<1>4. ASSUME NEW r \in Requests, Send(r) \/ Served(r) \/ RejectedRetry(r) PROVE OutInv'
  BY <1>2, <1>4 DEF Send, Served, RejectedRetry
<1>5. ASSUME NEW r \in Requests, Refresh(r) \/ RefreshBreaks(r) PROVE OutInv'
  <2>1. presented' = presented
    BY <1>5 DEF Refresh, FindToken, RevokeTokenFamily, RevokeExpired, RevokeOld, IssueInFamily,
       Renewed, NotRenewed, RefreshBreaks
  <2>2. \A s \in Requests : call'[s] = "none" <=> call[s] = "none"
    BY <1>5 DEF Refresh, FindToken, RevokeTokenFamily, RevokeExpired, RevokeOld, IssueInFamily,
       Renewed, NotRenewed, RefreshBreaks, ToCall, ServerCall, SessionInv, TypeOK
  <2>3. jar'.rt = 0 => jar.rt = 0
    BY <1>5 DEF Refresh, FindToken, RevokeTokenFamily, RevokeExpired, RevokeOld, IssueInFamily,
       Renewed, NotRenewed, RefreshBreaks, FreshInv
  <2> QED  BY <1>2, <2>1, <2>2, <2>3
<1>6. ASSUME LoggedOut \/ LoggedOutAll \/ RefreshCookieExpires PROVE OutInv'
  <2>1. SignedOut'
    <3>1. SignedOut
      BY <1>6, TokenFacts DEF LoggedOut, LoggedOutAll, RefreshCookieExpires, SignedOut, SessionInv, TypeOK
    <3> QED  BY <1>0, <3>1
  <2> QED  BY <1>2, <1>6, <2>1 DEF LoggedOut, LoggedOutAll, RefreshCookieExpires
<1>7. ASSUME Login PROVE OutInv'
  BY <1>2, <1>7 DEF Login, StartLogin, IssueTokenPair, LoggedIn, LoginBreaks, FreshInv
<1>8. ASSUME StartLogout \/ LogoutRevokes \/ LogoutBreaks \/ LogoutAllHere \/ LogoutAllBreaks \/ RevokedElsewhere
      PROVE  OutInv'
  BY <1>2, <1>8 DEF StartLogout, LogoutRevokes, LogoutBreaks, LogoutAllHere, LogoutAllBreaks, RevokedElsewhere
<1>9. ASSUME AccessExpires \/ (\E t \in Tokens : RefreshExpires(t)) \/ UNCHANGED vars PROVE OutInv'
  BY <1>2, <1>9 DEF AccessExpires, RefreshExpires, vars, SessionInv, TypeOK
<1> QED
  BY <1>3, <1>4, <1>5, <1>6, <1>7, <1>8, <1>9 DEF Next, Api, Login, Logout, Time

LEMMA RejectionsExcused ==
    BrowserInv /\ LineInv /\ OutInv /\ RefreshIsTransparent /\ [Next]_vars => RefreshIsTransparent'
<1> SUFFICES ASSUME BrowserInv, LineInv, OutInv, RefreshIsTransparent, [Next]_vars
             PROVE  RefreshIsTransparent'
  OBVIOUS
<1> DEFINE Excuse == (\E f \in Tokens : family[f] = f /\ Disturbed(f)) \/ SignedOut
<1>1. Forward
  BY GoesForward
<1>2. Excuse => Excuse'
  <2>1. ASSUME NEW f \in Tokens, family[f] = f, Disturbed(f) PROVE family'[f] = f /\ Disturbed(f)'
    BY <1>1, <2>1, StaysDisturbed, TokenFacts DEF Forward
  <2> QED  BY <1>1, <2>1, StaysSignedOut
\* The request of a refused, or failed, refresh.
<1>3. ASSUME NEW r \in Requests, call[r] \in {"unauthorized", "error"} PROVE Excuse
  <2>1. CASE presented[r] = 0
    BY <1>3, <2>1 DEF OutInv
  <2>2. CASE presented[r] # 0
    <3>1. /\ presented[r] \in Tokens /\ family[presented[r]] \in Tokens
          /\ family[family[presented[r]]] = family[presented[r]]
          /\ presented[r] \in InFamily(family[presented[r]])
      BY <2>2 DEF BrowserInv, SessionInv, TypeOK, HeldInv, HasRow, RowInv, InFamily
    <3>2. CASE call[r] = "error"
      BY <3>1, <3>2 DEF Disturbed, Broken
    <3>3. CASE call[r] = "unauthorized"
      BY <3>1, <3>3 DEF LineInv, OneLine, RefusedIsExpired, SignedOut
    <3> QED  BY <1>3, <3>2, <3>3
  <2> QED  BY <2>1, <2>2
<1>4. ASSUME NEW s \in Requests, request'[s] = "rejected", request[s] # "rejected" PROVE Excuse
  <2> USE DEF BrowserInv, SessionInv, TypeOK
  <2>1. request' # request
    BY <1>4
  <2>2. ~Login /\ ~Logout /\ ~Time
    BY <2>1 DEF Login, Logout, Time, StartLogin, IssueTokenPair, LoggedIn, LoginBreaks, StartLogout,
       LogoutRevokes, LoggedOut, LogoutBreaks, LogoutAllHere, LoggedOutAll, LogoutAllBreaks,
       RevokedElsewhere, AccessExpires, RefreshCookieExpires, RefreshExpires
  <2>3. PICK r \in Requests : Api(r) \/ Refresh(r) \/ RefreshBreaks(r)
    BY <2>1, <2>2 DEF Next, vars
  <2>4. ~Api(r)
    BY <1>4 DEF Api, Send, Served, RejectedRetry, AwaitRefresh
  <2>5. ~Renewed(r)
    BY <1>4 DEF Renewed
  <2>6. NotRenewed(r)
    BY <2>1, <2>3, <2>4, <2>5 DEF Refresh, FindToken, RevokeTokenFamily, RevokeExpired, RevokeOld,
       IssueInFamily, RefreshBreaks
  <2> QED  BY <1>3, <2>6 DEF NotRenewed
<1>5. ASSUME NEW s \in Requests, request[s] = "rejected" PROVE Excuse
  BY <1>5, TokenFacts DEF RefreshIsTransparent, SignedOut
<1>6. Excuse' => \/ \E f \in Tokens : family'[f] = f /\ Disturbed(f)'
                 \/ \E t \in Tokens : expired'[t]
                 \/ logout'.at # "idle"
  BY <1>1, TokenFacts DEF SignedOut, Disturbed, Forward, OutInv
<1> HIDE DEF Excuse
<1> QED  BY <1>2, <1>4, <1>5, <1>6 DEF RefreshIsTransparent

-----------------------------------------------------------------------------
(* What disturbs a session, and nothing else.                               *)

LineageInv == BrowserInv /\ LineInv /\ OutInv /\ RefreshIsTransparent

LEMMA LineageInit == Init => LineageInv
<1> SUFFICES ASSUME Init PROVE LineageInv
  OBVIOUS
<1>1. LineInv
  <2>1. ASSUME NEW f \in Tokens PROVE OneLine(f)
    <3>1. /\ InFamily(f) \subseteq {1} /\ 0 \notin InFamily(f)
          /\ \A r \in Requests : presented[r] = 0 /\ call[r] = "none"
          /\ \A t \in InFamily(f) : status[t] # "revoked"
      BY TokenFacts DEF Init, InFamily
    <3> QED  BY <3>1 DEF OneLine, TwiceIsExpired, RevokedHasCause, OneUnspent, OneAtATime, RefusedIsExpired
  <2> QED  BY <2>1 DEF LineInv
<1>2. OutInv /\ RefreshIsTransparent
  BY TokenFacts DEF Init, OutInv, RefreshIsTransparent
<1> QED  BY <1>1, <1>2, BrowserInit DEF LineageInv

LEMMA LineageStep == LineageInv /\ [Next]_vars => LineageInv'
  BY BrowserStep, LineStep, OutStep, RejectionsExcused DEF LineageInv

\* For any tabs, requests and tokens: theft detection revokes a family only where two
\* tabs refreshed at once, a refresh failed, a logout presented the same token, all
\* devices were logged out, or the token had expired.
THEOREM TheftDetectionHasCause == Spec => []TheftHasCause
<1>1. LineageInv => TheftHasCause
  <2> SUFFICES ASSUME LineageInv, NEW r \in Requests, call[r] = "revokeFamily",
                      ~Disturbed(family[presented[r]])
               PROVE  expired[presented[r]]
    BY DEF TheftHasCause
  <2>1. presented[r] \in InFamily(family[presented[r]]) /\ family[presented[r]] \in Tokens
    BY Presented DEF LineageInv, BrowserInv, ServerCall, InFamily
  <2> QED  BY <2>1 DEF LineageInv, LineInv, OneLine, RefusedIsExpired
<1> QED  BY <1>1, LineageInit, LineageStep, PTL DEF Spec

\* Once a logout was answered, no token of its session is live, unless the session was
\* disturbed in one of those ways: the token it revoked was the only one not spent.
THEOREM LoggingOutEndsTheSession == Spec => []LogoutEndsSession
<1>1. LineageInv => LogoutEndsSession
  <2> DEFINE f == family[logout.token]
  <2> SUFFICES ASSUME LineageInv, logout.at = "done", logout.token # 0, ~Disturbed(f),
                      NEW t \in InFamily(f)
               PROVE  ~Live(t)
    BY DEF LogoutEndsSession
  <2>1. logout.token \in Tokens /\ logout.token \in InFamily(f) /\ f \in Tokens
    BY DEF LineageInv, BrowserInv, SessionInv, TypeOK, HeldInv, HasRow, InFamily
  <2>2. status[logout.token] = "revoked"
    BY DEF LineageInv, BrowserInv, LogoutInv
  <2>3. ~Spent(logout.token)
    BY <2>1 DEF Spent, Disturbed, RacedLogout
  <2>4. t = logout.token \/ Spent(t)
    BY <2>1, <2>3 DEF LineageInv, LineInv, OneLine, OneUnspent
  <2>5. ASSUME Spent(t) PROVE status[t] = "revoked"
    BY <2>5 DEF Spent, LineageInv, BrowserInv, FreshInv, SessionInv, CallInv, CallOK
  <2> QED  BY <2>2, <2>4, <2>5 DEF Live
<1> QED  BY <1>1, LineageInit, LineageStep, PTL DEF Spec

\* A request that found its access token expired is rejected without a retry only if
\* the session was disturbed, expired or logged out.
THEOREM RefreshingIsTransparent == Spec => []RefreshIsTransparent
<1>1. LineageInv => RefreshIsTransparent
  BY DEF LineageInv
<1> QED  BY <1>1, LineageInit, LineageStep, PTL DEF Spec

=============================================================================
