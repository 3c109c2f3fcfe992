---------------------------- MODULE AuthSessions ----------------------------
(***************************************************************************)
(* Refresh-token sessions: auth.service.ts and auth.repository.ts in       *)
(* apps/api, and the axios interceptor of apps/web (lib/http.ts).          *)
(*                                                                         *)
(* One user, one browser.  Its tabs share the cookie jar; each tab has the *)
(* module's refreshPromise to itself.  A refresh is known by the request   *)
(* whose 401 started it.                                                   *)
(***************************************************************************)
EXTENDS Integers, FiniteSets

CONSTANTS
    Tabs,
    Requests,       (* calls of the API by the pages                        *)
    TabOf,          (* the tab of each                                      *)
    MaxTokens,      (* bound: rows of refresh_tokens                        *)
    MaxLogins,      (* bound: logins after the first                        *)
    NoRequest

Tokens == 1..MaxTokens

ASSUME SessionAssumption ==
    /\ MaxTokens \in Nat \ {0}
    /\ MaxLogins \in Nat
    /\ TabOf \in [Requests -> Tabs]
    /\ NoRequest \notin Requests

VARIABLES
    status,     (* of a refresh token: none, live, revoked                  *)
    expired,    (* has its expiresAt passed                                 *)
    family,     (* the first token of its family, 0 while there is no row   *)
    jar,        (* cookies: refresh token (0: none), is there an access token *)
    request,    (* the state of a request in its tab                        *)
    carried,    (* does the request, as sent, carry a valid access token    *)
    retried,    (* its _retry flag                                          *)
    refresher,  (* the request that started the tab's refreshPromise        *)
    call,       (* where the refresh a request started is                   *)
    presented,  (* the token it carries                                     *)
    granted,    (* the token made for it                                    *)
    login,      (* the login form's call and the token made for it          *)
    logins,     (* logins begun                                             *)
    logout,     (* the logout call and the token it carries                 *)
    logoutAll   (* logoutAll of this browser, or a revocation elsewhere     *)

rows == <<status, expired, family>>
tabVars == <<request, carried, retried, refresher>>
callVars == <<call, presented, granted>>
formVars == <<login, logins, logout, logoutAll>>
vars == <<rows, jar, tabVars, callVars, formVars>>

-----------------------------------------------------------------------------
\* A refresh on the server: its next database call, then what it answers.
ServerCall == {"find", "revokeFamily", "revokeExpired", "revokeOld", "create"}
Answer == {"pair", "unauthorized", "error"}
Settled == {"renewed", "refused", "failed"}

TypeOK ==
    /\ status \in [Tokens -> {"none", "live", "revoked"}]
    /\ expired \in [Tokens -> BOOLEAN]
    /\ family \in [Tokens -> Tokens \cup {0}]
    /\ jar \in [rt : Tokens \cup {0}, at : BOOLEAN]
    /\ request \in [Requests -> {"idle", "sent", "waiting", "ok", "rejected",
                               "unauthorized"}]
    /\ carried \in [Requests -> BOOLEAN]
    /\ retried \in [Requests -> BOOLEAN]
    /\ refresher \in [Tabs -> Requests \cup {NoRequest}]
    /\ call \in [Requests -> {"none", "waitsForItself"} \cup ServerCall \cup Answer
                             \cup Settled]
    /\ presented \in [Requests -> Tokens \cup {0}]
    /\ granted \in [Requests -> Tokens \cup {0}]
    /\ login \in [at : {"idle", "create", "answer"}, token : Tokens \cup {0}]
    /\ logins \in 0..MaxLogins
    /\ logout \in [at : {"idle", "revoke", "answer", "done", "failed"},
                   token : Tokens \cup {0}]
    /\ logoutAll \in {"idle", "answer", "done", "failed", "elsewhere"}

\* Signed in once.
Init ==
    /\ status = [t \in Tokens |-> IF t = 1 THEN "live" ELSE "none"]
    /\ expired = [t \in Tokens |-> FALSE]
    /\ family = [t \in Tokens |-> IF t = 1 THEN 1 ELSE 0]
    /\ jar = [rt |-> 1, at |-> TRUE]
    /\ request = [r \in Requests |-> "idle"]
    /\ carried = [r \in Requests |-> FALSE]
    /\ retried = [r \in Requests |-> FALSE]
    /\ refresher = [b \in Tabs |-> NoRequest]
    /\ call = [r \in Requests |-> "none"]
    /\ presented = [r \in Requests |-> 0]
    /\ granted = [r \in Requests |-> 0]
    /\ login = [at |-> "idle", token |-> 0]
    /\ logins = 0
    /\ logout = [at |-> "idle", token |-> 0]
    /\ logoutAll = "idle"

-----------------------------------------------------------------------------
(* The repository.                                                          *)

Live(t) == status[t] = "live" /\ ~expired[t]

InFamily(f) == {t \in Tokens : family[t] = f}

\* updateMany where revokedAt is null, and update by id.
Revoke(ts) ==
    status' = [t \in Tokens |-> IF t \in ts /\ status[t] # "none" THEN "revoked"
                                ELSE status[t]]

RevokeAllUserTokens == Revoke(Tokens) /\ UNCHANGED <<expired, family>>

\* Rows are numbered in the order of their creation.
CreateRefreshToken(t, f) ==
    /\ status[t] = "none"
    /\ \A s \in Tokens : status[s] = "none" => t <= s
    /\ status' = [status EXCEPT ![t] = "live"]
    /\ family' = [family EXCEPT ![t] = f]
    /\ UNCHANGED expired

-----------------------------------------------------------------------------
(* The interceptor.                                                         *)

Waiting(b) == {r \in Requests : TabOf[r] = b /\ request[r] = "waiting"}

ToCall(r, c) == call' = [call EXCEPT ![r] = c]

\* A request leaves with the cookies of that moment.
Send(r) ==
    /\ request[r] = "idle"
    /\ request' = [request EXCEPT ![r] = "sent"]
    /\ carried' = [carried EXCEPT ![r] = jar.at]
    /\ UNCHANGED <<rows, jar, retried, refresher, callVars, formVars>>

\* requireAuth verifies the access token alone; no row is read.
Served(r) ==
    /\ request[r] = "sent"
    /\ carried[r]
    /\ request' = [request EXCEPT ![r] = "ok"]
    /\ UNCHANGED <<rows, jar, carried, retried, refresher, callVars, formVars>>

\* A retry that is refused is not retried again.
RejectedRetry(r) ==
    /\ request[r] = "sent"
    /\ ~carried[r] /\ retried[r]
    /\ request' = [request EXCEPT ![r] = "unauthorized"]
    /\ UNCHANGED <<rows, jar, carried, retried, refresher, callVars, formVars>>

\* POST /api/auth/refresh; without a cookie the controller answers at once.
StartRefresh(r) ==
    /\ ToCall(r, IF jar.rt = 0 THEN "unauthorized" ELSE "find")
    /\ presented' = [presented EXCEPT ![r] = jar.rt]
    /\ refresher' = [refresher EXCEPT ![TabOf[r]] = r]
    /\ UNCHANGED granted

\* A slip: each 401 starts a refresh of its own.
RefreshForEach(r) ==
    /\ request[r] = "sent"
    /\ ~carried[r] /\ ~retried[r]
    /\ retried' = [retried EXCEPT ![r] = TRUE]
    /\ request' = [request EXCEPT ![r] = "waiting"]
    /\ StartRefresh(r)
    /\ UNCHANGED <<rows, jar, carried, formVars>>

AwaitRefresh(r) ==
    /\ request[r] = "sent"
    /\ ~carried[r] /\ ~retried[r]
    /\ retried' = [retried EXCEPT ![r] = TRUE]
    /\ request' = [request EXCEPT ![r] = "waiting"]
    /\ IF refresher[TabOf[r]] = NoRequest
       THEN StartRefresh(r)
       ELSE UNCHANGED <<callVars, refresher>>
    /\ UNCHANGED <<rows, jar, carried, formVars>>

-----------------------------------------------------------------------------
(* AuthService.refresh.                                                     *)

\* A slip: a revoked token is not told from a live one.
AdmitsRevoked(r) ==
    /\ call[r] = "find"
    /\ ToCall(r, IF expired[presented[r]] THEN "revokeExpired" ELSE "revokeOld")
    /\ UNCHANGED <<rows, jar, tabVars, presented, granted, formVars>>

\* findRefreshToken and the branch taken.  A row is never deleted.
FindToken(r) ==
    LET t == presented[r] IN
    /\ call[r] = "find"
    /\ ToCall(r, CASE status[t] = "revoked" -> "revokeFamily"
                   [] status[t] # "revoked" /\ expired[t] -> "revokeExpired"
                   [] OTHER -> "revokeOld")
    /\ UNCHANGED <<rows, jar, tabVars, presented, granted, formVars>>

RevokeTokenFamily(r) ==
    /\ call[r] = "revokeFamily"
    /\ Revoke(InFamily(family[presented[r]]))
    /\ ToCall(r, "unauthorized")
    /\ UNCHANGED <<expired, family, jar, tabVars, presented, granted, formVars>>

RevokeExpired(r) ==
    /\ call[r] = "revokeExpired"
    /\ Revoke({presented[r]})
    /\ ToCall(r, "unauthorized")
    /\ UNCHANGED <<expired, family, jar, tabVars, presented, granted, formVars>>

RevokeOld(r) ==
    /\ call[r] = "revokeOld"
    /\ Revoke({presented[r]})
    /\ ToCall(r, "create")
    /\ UNCHANGED <<expired, family, jar, tabVars, presented, granted, formVars>>

\* getActiveProjectCount and issueTokenPairInFamily.
IssueInFamily(r) ==
    /\ call[r] = "create"
    /\ \E t \in Tokens :
          /\ CreateRefreshToken(t, family[presented[r]])
          /\ granted' = [granted EXCEPT ![r] = t]
    /\ ToCall(r, "pair")
    /\ UNCHANGED <<jar, tabVars, presented, formVars>>

\* A query throws (500), the last one, getUserSubscription, too; or the answer does
\* not arrive.
RefreshBreaks(r) ==
    /\ call[r] \in ServerCall \cup {"pair", "unauthorized"}
    /\ ToCall(r, "error")
    /\ UNCHANGED <<rows, jar, tabVars, presented, granted, formVars>>

-----------------------------------------------------------------------------
(* The answer of a refresh in its tab.                                      *)

\* A slip: only the request that started the refresh is sent again.
RenewedAlone(r) ==
    LET b == TabOf[r] IN
    /\ call[r] = "pair"
    /\ jar' = [rt |-> granted[r], at |-> TRUE]
    /\ ToCall(r, "renewed")
    /\ refresher' = [refresher EXCEPT ![b] = NoRequest]
    /\ request' = [s \in Requests |-> IF s = r THEN "sent"
                     ELSE IF s \in Waiting(b) THEN "rejected" ELSE request[s]]
    /\ carried' = [s \in Requests |-> s = r \/ carried[s]]
    /\ UNCHANGED <<rows, retried, presented, granted, formVars>>

\* The requests that wait are sent again, all with the new cookies.
Renewed(r) ==
    LET b == TabOf[r] IN
    /\ call[r] = "pair"
    /\ jar' = [rt |-> granted[r], at |-> TRUE]
    /\ ToCall(r, "renewed")
    /\ refresher' = [refresher EXCEPT ![b] = NoRequest]
    /\ request' = [s \in Requests |-> IF s \in Waiting(b) THEN "sent" ELSE request[s]]
    /\ carried' = [s \in Requests |-> s \in Waiting(b) \/ carried[s]]
    /\ UNCHANGED <<rows, retried, presented, granted, formVars>>

\* A slip: the refresh is not exempt from its own interceptor.
RetriesEveryUrl(url) == url \notin {"login", "register", "logout"}

ShouldTryRefresh(url) == url \notin {"login", "register", "logout", "refresh"}

\* An error rejects the refreshPromise and with it all that wait.  Were the refresh
\* intercepted, it would wait for the refreshPromise it is.
NotRenewed(r) ==
    LET b == TabOf[r] IN
    /\ call[r] \in {"unauthorized", "error"}
    /\ IF call[r] = "unauthorized" /\ ShouldTryRefresh("refresh")
       THEN ToCall(r, "waitsForItself") /\ UNCHANGED <<request, refresher>>
       ELSE /\ ToCall(r, IF call[r] = "error" THEN "failed" ELSE "refused")
            /\ refresher' = [refresher EXCEPT ![b] = NoRequest]
            /\ request' = [s \in Requests |-> IF s \in Waiting(b) THEN "rejected"
                                              ELSE request[s]]
    /\ UNCHANGED <<rows, jar, carried, retried, presented, granted, formVars>>

-----------------------------------------------------------------------------
(* Login and logout.                                                        *)

StartLogin ==
    /\ login.at = "idle"
    /\ logins < MaxLogins
    /\ logins' = logins + 1
    /\ login' = [at |-> "create", token |-> 0]
    /\ UNCHANGED <<rows, jar, tabVars, callVars, logout, logoutAll>>

\* issueTokenPair: a family of its own.
IssueTokenPair ==
    /\ login.at = "create"
    /\ \E t \in Tokens : /\ CreateRefreshToken(t, t)
                         /\ login' = [at |-> "answer", token |-> t]
    /\ UNCHANGED <<jar, tabVars, callVars, logins, logout, logoutAll>>

LoggedIn ==
    /\ login.at = "answer"
    /\ jar' = [rt |-> login.token, at |-> TRUE]
    /\ login' = [at |-> "idle", token |-> 0]
    /\ UNCHANGED <<rows, tabVars, callVars, logins, logout, logoutAll>>

LoginBreaks ==
    /\ login.at # "idle"
    /\ login' = [at |-> "idle", token |-> 0]
    /\ UNCHANGED <<rows, jar, tabVars, callVars, logins, logout, logoutAll>>

StartLogout ==
    /\ logout.at = "idle"
    /\ logout' = [at |-> IF jar.rt = 0 THEN "answer" ELSE "revoke", token |-> jar.rt]
    /\ UNCHANGED <<rows, jar, tabVars, callVars, login, logins, logoutAll>>

\* A slip: logging out only clears the cookies.
LogoutClears ==
    /\ logout.at = "revoke"
    /\ logout' = [logout EXCEPT !.at = "answer"]
    /\ UNCHANGED <<rows, jar, tabVars, callVars, login, logins, logoutAll>>

\* Rows are never deleted: what was found is still there to be revoked.
LogoutRevokes ==
    /\ logout.at = "revoke"
    /\ Revoke({logout.token})
    /\ logout' = [logout EXCEPT !.at = "answer"]
    /\ UNCHANGED <<expired, family, jar, tabVars, callVars, login, logins, logoutAll>>

\* The answer clears whatever cookies the browser has by then.
LoggedOut ==
    /\ logout.at = "answer"
    /\ jar' = [rt |-> 0, at |-> FALSE]
    /\ logout' = [logout EXCEPT !.at = "done"]
    /\ UNCHANGED <<rows, tabVars, callVars, login, logins, logoutAll>>

LogoutBreaks ==
    /\ logout.at \in {"revoke", "answer"}
    /\ logout' = [logout EXCEPT !.at = "failed"]
    /\ UNCHANGED <<rows, jar, tabVars, callVars, login, logins, logoutAll>>

\* The route is behind requireAuth.
LogoutAllHere ==
    /\ logoutAll = "idle"
    /\ jar.at
    /\ RevokeAllUserTokens
    /\ logoutAll' = "answer"
    /\ UNCHANGED <<jar, tabVars, callVars, login, logins, logout>>

LoggedOutAll ==
    /\ logoutAll = "answer"
    /\ jar' = [rt |-> 0, at |-> FALSE]
    /\ logoutAll' = "done"
    /\ UNCHANGED <<rows, tabVars, callVars, login, logins, logout>>

LogoutAllBreaks ==
    /\ logoutAll = "answer"
    /\ logoutAll' = "failed"
    /\ UNCHANGED <<rows, jar, tabVars, callVars, login, logins, logout>>

\* Another browser of the user logs out all devices, or resets the password.
RevokedElsewhere ==
    /\ logoutAll = "idle"
    /\ RevokeAllUserTokens
    /\ logoutAll' = "elsewhere"
    /\ UNCHANGED <<jar, tabVars, callVars, login, logins, logout>>

-----------------------------------------------------------------------------
(* Time.                                                                    *)

\* 15 minutes: the cookie and the JWT in it have the same life.
AccessExpires ==
    /\ jar.at
    /\ jar' = [jar EXCEPT !.at = FALSE]
    /\ carried' = [r \in Requests |-> FALSE]
    /\ UNCHANGED <<rows, request, retried, refresher, callVars, formVars>>

\* 7 days: the row, and a little later the cookie set with it.
RefreshExpires(t) ==
    /\ status[t] # "none" /\ ~expired[t]
    /\ expired' = [expired EXCEPT ![t] = TRUE]
    /\ UNCHANGED <<status, family, jar, tabVars, callVars, formVars>>

RefreshCookieExpires ==
    /\ jar.rt # 0
    /\ expired[jar.rt]
    /\ jar' = [jar EXCEPT !.rt = 0]
    /\ UNCHANGED <<rows, tabVars, callVars, formVars>>

-----------------------------------------------------------------------------
Api(r) == Send(r) \/ Served(r) \/ RejectedRetry(r) \/ AwaitRefresh(r)

Refresh(r) ==
    \/ FindToken(r) \/ RevokeTokenFamily(r) \/ RevokeExpired(r) \/ RevokeOld(r)
    \/ IssueInFamily(r) \/ Renewed(r) \/ NotRenewed(r)

Login == StartLogin \/ IssueTokenPair \/ LoggedIn \/ LoginBreaks

Logout ==
    \/ StartLogout \/ LogoutRevokes \/ LoggedOut \/ LogoutBreaks
    \/ LogoutAllHere \/ LoggedOutAll \/ LogoutAllBreaks \/ RevokedElsewhere

Time == AccessExpires \/ RefreshCookieExpires \/ \E t \in Tokens : RefreshExpires(t)

Next ==
    \/ \E r \in Requests : Api(r) \/ Refresh(r) \/ RefreshBreaks(r)
    \/ Login \/ Logout \/ Time

Spec == Init /\ [][Next]_vars

\* Node runs what is pending, and a call is answered, or fails, in the end.
FairSpec ==
    /\ Spec
    /\ \A r \in Requests : WF_vars(Refresh(r))
    /\ \A r \in Requests : WF_vars(Served(r) \/ RejectedRetry(r) \/ AwaitRefresh(r))

-----------------------------------------------------------------------------
(* What may disturb the session of f.                                       *)

\* A refresh failed, and perhaps after its token was revoked.
Broken(f) == \E r \in Requests :
    call[r] \in {"error", "failed"} /\ presented[r] \in InFamily(f)

\* Two tabs presented one token, each unaware of the other's refresh.
Shared(f) == \E r, s \in Requests :
    /\ TabOf[r] # TabOf[s]
    /\ presented[r] = presented[s] /\ presented[r] \in InFamily(f)

\* A logout presented the token a refresh presents, too.
RacedLogout(f) == \E r \in Requests :
    presented[r] = logout.token /\ logout.token \in InFamily(f)

Disturbed(f) == Broken(f) \/ Shared(f) \/ RacedLogout(f) \/ logoutAll # "idle"

\* Theft detection has a cause: it takes the user for a thief only where two tabs
\* refreshed at once, an answer was lost, the session was logged out under the
\* request, or the token had expired.  One tab on a good connection never trips it.
TheftHasCause ==
    \A r \in Requests : call[r] = "revokeFamily" =>
        expired[presented[r]] \/ Disturbed(family[presented[r]])

\* Logging out ends the session: unless one of the same disturbances left a second
\* token in its family, none is live once the logout was answered.
LogoutEndsSession ==
    LET f == family[logout.token] IN
    logout.at = "done" /\ logout.token # 0 =>
        \/ Disturbed(f)
        \/ \A t \in InFamily(f) : ~Live(t)

\* Refreshing is transparent: a request that found its access token expired is
\* rejected unretried only if the session was disturbed or ended.
RefreshIsTransparent ==
    \A r \in Requests : request[r] = "rejected" =>
        \/ \E f \in Tokens : family[f] = f /\ Disturbed(f)
        \/ \E t \in Tokens : expired[t]
        \/ logout.at # "idle"

\* Every request the pages make settles; none waits for a refresh for ever.  A page
\* makes finitely many: there comes a time after which none is under way.
RequestsSettle ==
    <>[](\A r \in Requests : request[r] \notin {"sent", "waiting"})

\* A family is a session: it lives while one of its tokens, or a refresh that was
\* let in with one, does.
Admitted(f) == \E r \in Requests :
    call[r] \in {"revokeOld", "create"} /\ family[presented[r]] = f

Lives(f) == Admitted(f) \/ \E t \in InFamily(f) : Live(t)

SessionOfFamily ==
    [f \in Tokens |-> CASE family[f] # f -> "none"
                        [] family[f] = f /\ Lives(f) -> "live"
                        [] OTHER -> "ended"]

Promised == INSTANCE Session WITH Sessions <- Tokens, session <- SessionOfFamily

\* Rotation implements the abstract session: what has ended is never renewed.
ImplementsSession == Promised!Spec

=============================================================================
