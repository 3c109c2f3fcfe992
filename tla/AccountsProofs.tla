--------------------------- MODULE AccountsProofs ---------------------------
(***************************************************************************)
(* Proofs about Accounts and AccountPages, for any number of requests, any *)
(* identities, and any clicks in front of them.                            *)
(***************************************************************************)
EXTENDS AccountPages, SequenceTheorems, TLAPS

USE DEF dbVars, outVars, fixedVars

-----------------------------------------------------------------------------
(* Types.                                                                   *)

Names == {"null", Before} \cup Calls

\* The updates of a Promise.all.
UpdatesOf(o) == IF o = "confirmOtp" THEN {"markUsed", "verified"}
                ELSE IF o = "reset" THEN {"password", "markUsed", "revokeAll"} ELSE {}

CallName == {"none", "findUser", "createUser", "issue", "readHash", "deleteOtps", "createOtp",
    "mail", "findOtp", "updates", "deleteLinks", "createLink", "findLink", "provider",
    "findAccount", "verify", "createAccount", "check", "delete", "put", "readOld",
    "deleteOld", "update", "save", "count", "findToken", "revokeFamily", "revokeExpired",
    "revokeOld"} \cup Ended

UserType == [exists : BOOLEAN, password : Names, verified : BOOLEAN,
             avatar : Names, name : Names, company : Names]

RowTypes ==
    /\ user \in UserType
    /\ linked \subseteq Identities
    /\ codes \in Seq(Calls)
    /\ links \in [Calls -> {"none", "unused", "used", "deleted"}]
    /\ session \in [Calls \cup {Before} -> {"none", "live", "revoked"}]
    /\ expired \subseteq Calls /\ mailed \subseteq Calls
    /\ objects \subseteq Calls \cup {Before}

CallTypes ==
    /\ op \in [Calls -> Op \cup {"none"}]
    /\ at \in [Calls -> CallName]
    /\ arg \in [Calls -> Names \cup Identities]
    /\ family \in [Calls \cup {Before} -> Calls \cup {Before}]
    /\ pending \in [Calls -> SUBSET {"markUsed", "verified", "password", "revokeAll"}]
    /\ failed \in [Calls -> BOOLEAN]
    /\ before \in [Calls -> SUBSET Calls]
    /\ overlap \in [Calls -> SUBSET Calls]

AccountTypes == RowTypes /\ CallTypes

\* A request makes the calls of its handler.
CallsOK(c) ==
    /\ op[c] = "none" <=> at[c] = "none"
    /\ op[c] = "register" => at[c] \in {"findUser", "createUser", "issue"} \cup Ended
    /\ op[c] = "login" => at[c] \in {"readHash", "issue"} \cup Ended
    /\ op[c] = "refresh" => at[c] \in {"findToken", "revokeFamily", "revokeExpired", "revokeOld",
                                       "issue"} \cup Ended
    /\ op[c] = "sendOtp" => at[c] \in {"findUser", "deleteOtps", "createOtp", "mail"} \cup Ended
    /\ op[c] = "confirmOtp" => at[c] \in {"findOtp", "updates"} \cup Ended
    /\ op[c] = "forgot" => at[c] \in {"findUser", "deleteLinks", "createLink", "mail"} \cup Ended
    /\ op[c] = "reset" => at[c] \in {"findLink", "updates"} \cup Ended
    /\ op[c] = "oauth" => at[c] \in {"provider", "findAccount", "findUser", "createUser",
                                     "verify", "createAccount", "issue"} \cup Ended
    /\ op[c] = "link" => at[c] \in {"provider"} \cup Ended
    /\ op[c] = "unlink" => at[c] \in {"check", "delete"} \cup Ended
    /\ op[c] = "avatar" => at[c] \in {"put", "readOld", "deleteOld", "update"} \cup Ended
    /\ op[c] \in Saves => at[c] \in {"save", "count"} \cup Ended

\* It has updates to make while it makes them, and carries what its calls need.
HandlerOK(c) ==
    /\ pending[c] # {} <=> at[c] = "updates"
    /\ pending[c] \subseteq UpdatesOf(op[c])
    /\ failed[c] => at[c] \in {"updates", "error"}
    /\ op[c] \in Authenticated \/ at[c] = "verify" => user.exists
    /\ op[c] \in {"oauth", "link", "unlink"} => arg[c] \in Identities
    /\ op[c] = "confirmOtp" => arg[c] \in Calls
    /\ op[c] \in Saves => arg[c] \in {Before} \cup Calls
    /\ op[c] = "avatar" => arg[c] \in Names
    /\ op[c] = "reset" => arg[c] \in mailed /\ op[arg[c]] = "forgot"
    /\ c \in mailed => at[c] \in Ended /\ op[c] \in {"sendOtp", "forgot"}
    /\ op[c] = "forgot" /\ (at[c] = "mail" \/ c \in mailed) => links[c] # "none"
    /\ links[c] # "none" => op[c] = "forgot" /\ at[c] \in {"mail"} \cup Ended

\* What had ended when a request began has ended, and of two requests under way each
\* is known to overlap the other.
HistoryOK(c) ==
    /\ at[c] = "none" => before[c] = {}
    /\ \A d \in before[c] : at[d] \in Ended
    /\ \A d \in Calls \ {c} : Running(c) /\ Running(d) => d \in overlap[c]

AccountInv ==
    /\ AccountTypes
    /\ user.verified => user.exists
    /\ \A c \in Calls : CallsOK(c) /\ HandlerOK(c) /\ HistoryOK(c)

-----------------------------------------------------------------------------
(* The invariants behind the properties.                                    *)

\* Once a send has deleted the codes, none of a request from before it is left, and
\* none was found by a confirmation that began after it.
CodeInv ==
    /\ \A s \in Calls : op[s] = "sendOtp" /\ (at[s] \in {"createOtp", "mail"} \/ s \in mailed) =>
          \A i \in DOMAIN codes : codes[i] \notin before[s]
    /\ \A c, s \in Calls : /\ op[c] = "confirmOtp" /\ at[c] \in {"updates", "ok"}
                           /\ op[s] = "sendOtp" /\ s \in mailed /\ s \in before[c]
                           => arg[c] \notin before[s]

\* A request issues to the family of the token it carries, or to one of its own, and no
\* token comes but of a request that is through.
FamilyInv ==
    /\ family[Before] = Before
    /\ \A d \in Calls :
          /\ op[d] # "refresh" => family[d] = d
          /\ op[d] = "refresh" => /\ arg[d] \in Calls \cup {Before} /\ session[arg[d]] # "none"
                                 /\ family[d] = family[arg[d]]
          /\ session[d] # "none" => at[d] \in Ended

\* A refresh that has found its token not revoked, and will issue the next.
Admitted(d) == op[d] = "refresh" /\ at[d] \in {"revokeOld", "issue"}

\* A refresh under way during reset c explains a token of the session of d.
Explained(c, d) == \E e \in overlap[c] : op[e] = "refresh" /\ family[e] = family[d]

\* The update u of a reset is made, and none of its updates has failed yet.
Did(c, u) == op[c] = "reset" /\ at[c] \in {"updates", "ok"} /\ ~failed[c] /\ u \notin pending[c]

ResetInv ==
    /\ \A c \in Calls : Did(c, "revokeAll") =>
          session[Before] # "live" /\ \A d \in before[c] : session[d] # "live"
    /\ \A c, d \in Calls : /\ Did(c, "revokeAll") /\ family[d] \in {Before} \cup before[c]
                           /\ session[d] = "live" \/ Admitted(d)
                           => Explained(c, d)
    /\ \A c \in Calls : Did(c, "password") => user.password # Before
    /\ \A c \in Calls : Did(c, "markUsed") => links[arg[c]] = "used"
    /\ \A d \in Calls : \A c \in before[d] : Successful(c, "reset") =>
          /\ op[d] = "login" /\ at[d] \in {"issue", "ok"} => arg[d] # Before
          /\ op[d] = "reset" /\ at[d] \in {"updates", "ok"} => arg[d] # arg[c]

\* An unlink that may delete leaves an account, or another unlink came in between.
UnlinkInv ==
    /\ LockedOutNeedsRace
    /\ \A c \in Calls : At(c, "unlink", "delete") /\ user.password = "null" =>
          \/ linked \ {arg[c]} # {}
          \/ \E d \in overlap[c] : op[d] = "unlink"

\* The object of an upload is in S3 until its URL is in the row; only who has read the
\* URL deletes it.
AvatarInv ==
    /\ AvatarIsStored
    /\ user.avatar \in Calls => Successful(user.avatar, "avatar")
    /\ \A c \in Calls : op[c] = "avatar" /\ arg[c] \in Calls => Successful(arg[c], "avatar")
    /\ \A c \in Calls : op[c] = "avatar" /\ at[c] \in {"readOld", "deleteOld", "update"} =>
          c \in objects

\* What confirmed a code has verified the user, and a send that was answered without
\* a mail found the user verified.
VerifyInv == \A c \in Calls :
    /\ op[c] = "confirmOtp" /\ at[c] \in {"updates", "ok"} /\ ~failed[c] /\ "verified" \notin pending[c]
          => user.verified
    /\ Successful(c, "sendOtp") => c \in mailed \/ user.verified

\* The calls of a writer from its write on: none of them comes to a refusal.
AfterWrite == {"updates", "count", "verify", "createAccount", "issue", "ok", "error"}

\* A request that may have changed what k answers, and the tab has not heard of it.
Suspect(k, c) == op[c] \in Writers(k) /\ at[c] \in AfterWrite /\ ~Heard(c)

Suspects(k) == \E c \in Calls : Suspect(k, c)

IsVerified == <<"verified", "null">>

\* What is fresh, or was read and not overtaken, is so, or a suspect is why not; and a
\* user who was ever said to be verified is.
KeyOK(k) ==
    /\ Fresh(k) => cache[k].rows = Told(k) \/ Suspects(k)
    /\ fetch[k].at = "read" /\ ~fetch[k].overtaken => fetch[k].rows = Told(k) \/ Suspects(k)
    /\ k = "me" /\ IsVerified \in cache[k].rows \cup fetch[k].rows => user.verified

\* A request the pages went on from was answered, unless the user left the app.
StageOK(c) ==
    /\ stage[c] # "none" => op[c] \in {"sendOtp", "confirmOtp", "avatar", "unlink"} \cup Saves
    /\ stage[c] \in {"awaits", "woken"} => at[c] = "ok" /\ op[c] # "sendOtp"
    /\ stage[c] = "done" /\ page # "none" => at[c] \in Ended

CodeOK ==
    /\ code.step = "verified" => user.verified
    /\ code.step = "otp-sent" => user.verified \/ \E c \in Mine : c \in mailed

CodeType == [step : {"idle", "otp-sent", "verified"}, typed : Calls \cup {"none", "wrong"},
             cooling : BOOLEAN, send : Calls \cup {"none"}, confirm : Calls \cup {"none"}]

CacheEntry == [has : {"nothing", "error", "data"}, rows : SUBSET Rows, pages : {1},
               stale : BOOLEAN, overtaken : BOOLEAN]

FetchEntry == [at : {"idle", "sent", "read"}, rows : SUBSET Rows, pages : {1}, overtaken : BOOLEAN]

PageTypes ==
    /\ page \in Pages
    /\ cache \in [QueryKeys -> CacheEntry]
    /\ fetch \in [QueryKeys -> FetchEntry]
    /\ stage \in [Calls -> {"none", "sent", "awaits", "woken", "done", "lost"}]
    /\ code \in CodeType

\* Who has left the app has no cache, and who is in it is a user.
PageInv ==
    /\ PageTypes
    /\ IF page = "none" THEN \A k \in QueryKeys : cache[k].has = "nothing" /\ fetch[k].at = "idle"
                        ELSE user.exists
    /\ \A c \in Calls : StageOK(c)
    /\ \A k \in QueryKeys : KeyOK(k)
    /\ CodeOK

-----------------------------------------------------------------------------
(* Steps.                                                                   *)

\* Every step of Next is one of these, of one request.
Act(c) == (\E o \in Op : Begin(c, o)) \/ Handler(c) \/ Throws(c) \/ UpdateFails(c) \/ Expire(c)

LEMMA NextActs == Next <=> \E c \in Calls : Act(c)
  BY DEF Next, Act

\* What a step leaves of the other requests, and of one that is under way.
Moves(c) ==
    /\ \A d \in Calls \ {c} :
          /\ at'[d] = at[d] /\ op'[d] = op[d] /\ arg'[d] = arg[d] /\ before'[d] = before[d]
          /\ pending'[d] = pending[d] /\ failed'[d] = failed[d]
          /\ overlap[d] \subseteq overlap'[d]
    /\ \A d \in (Calls \cup {Before}) \ {c} : family'[d] = family[d]
    /\ at[c] # "none" =>
          /\ family'[c] = family[c] /\ op'[c] = op[c] /\ before'[c] = before[c] /\ overlap' = overlap
          /\ op[c] # "avatar" => arg'[c] = arg[c]
    /\ at[c] \in Ended => at'[c] = at[c]
    /\ at[c] = "none" => at'[c] \in {"none", "findUser", "readHash", "findOtp", "findLink",
                                     "findToken", "provider", "check", "put", "save"}

\* What an update of a Promise.all does to its request.
LEMMA SettleFacts ==
    ASSUME AccountInv, NEW c \in Calls, NEW u, NEW threw \in BOOLEAN, Settle(c, u, threw)
    PROVE  /\ Moves(c) /\ CallTypes'
           /\ at[c] = "updates" /\ at'[c] \in {"updates", "ok", "error"}
           /\ u \in pending[c] /\ pending'[c] = pending[c] \ {u}
           /\ failed'[c] = (failed[c] \/ threw)
           /\ pending'[c] # {} <=> at'[c] = "updates"
           /\ failed'[c] => at'[c] # "ok"
           /\ UNCHANGED <<stateCookie, fixedVars>>
<1>1. at[c] = "updates" /\ u \in pending[c]
  BY DEF AccountInv, HandlerOK, Settle
<1> QED  BY <1>1 DEF AccountInv, AccountTypes, CallTypes, Settle, Moves, CallName, Ended

Update(c) ==
    \/ UpdateUserPassword(c) \/ RevokeAllUserTokens(c) \/ MarkEmailVerified(c)
    \/ MarkLinkUsed(c) \/ MarkOtpUsed(c) \/ UpdateFails(c)

LEMMA UpdatesSettle ==
    ASSUME AccountInv, NEW c \in Calls, Update(c)
    PROVE  \E u : \E threw \in BOOLEAN : Settle(c, u, threw)
<1>1. CASE MarkOtpUsed(c)
  BY <1>1, Zenon DEF MarkOtpUsed
<1>2. CASE MarkLinkUsed(c)
  BY <1>2 DEF MarkLinkUsed
<1> QED
  BY <1>1, <1>2 DEF Update, UpdateUserPassword, RevokeAllUserTokens, MarkEmailVerified, UpdateFails

LEMMA HandlerRuns ==
    ASSUME AccountInv, NEW c \in Calls, Handler(c) \/ UpdateFails(c)
    PROVE  Running(c)
<1>1. CASE Update(c)
  BY <1>1, UpdatesSettle, SettleFacts DEF Running, Ended
<1>2. CASE ~Update(c)
  BY <1>2 DEF Handler, Update, Running, Ended, At, Saves, RegisterFindsUser, CreateUser,
     VerifyPassword, IssueTokenPair, FindToken, RevokeTokenFamily, RevokeRefreshToken, SendFindsUser, DeleteOtps, CreateOtp, SendMail, FindOtp,
     ForgotFindsUser, DeleteLinks, CreateLink, FindLink, SignInReturns, LinkReturns,
     FindOAuthAccount, FindUserByEmail, CreateOAuthUser, LinkVerifies, LinkCreates,
     CheckRemaining, Unlink, PutObject, ReadOld, DeleteOld, UpdateAvatar, UpdateUserProfile,
     CountProjects
<1> QED  BY <1>1, <1>2

LEMMA MovesStep ==
    ASSUME AccountInv, NEW c \in Calls, Act(c)
    PROVE  Moves(c)
<1> USE DEF AccountInv, AccountTypes, RowTypes, CallTypes, Moves, At, Step, Ended, Running
<1>1. ASSUME NEW o \in Op, Begin(c, o) PROVE Moves(c)
  BY <1>1 DEF Begin, FirstCall, Op, Saves
<1>2. ASSUME Update(c) PROVE Moves(c)
  BY <1>2, UpdatesSettle, SettleFacts
<1>3. ASSUME RegisterFindsUser(c) PROVE Moves(c)
  BY <1>3 DEF RegisterFindsUser
<1>4. ASSUME CreateUser(c) PROVE Moves(c)
  BY <1>4 DEF CreateUser
<1>5. ASSUME VerifyPassword(c) PROVE Moves(c)
  BY <1>5 DEF VerifyPassword
<1>6. ASSUME IssueTokenPair(c) PROVE Moves(c)
  BY <1>6 DEF IssueTokenPair
<1>7. ASSUME SendFindsUser(c) PROVE Moves(c)
  BY <1>7 DEF SendFindsUser
<1>8. ASSUME DeleteOtps(c) PROVE Moves(c)
  BY <1>8 DEF DeleteOtps
<1>9. ASSUME CreateOtp(c) PROVE Moves(c)
  BY <1>9 DEF CreateOtp
<1>10. ASSUME SendMail(c) PROVE Moves(c)
  BY <1>10 DEF SendMail
<1>11. ASSUME FindOtp(c) PROVE Moves(c)
  BY <1>11 DEF FindOtp
<1>12. ASSUME ForgotFindsUser(c) PROVE Moves(c)
  BY <1>12 DEF ForgotFindsUser
<1>13. ASSUME DeleteLinks(c) PROVE Moves(c)
  BY <1>13 DEF DeleteLinks
<1>14. ASSUME CreateLink(c) PROVE Moves(c)
  BY <1>14 DEF CreateLink
<1>15. ASSUME FindLink(c) PROVE Moves(c)
  BY <1>15 DEF FindLink
<1>16. ASSUME SignInReturns(c) PROVE Moves(c)
  BY <1>16 DEF SignInReturns
<1>17. ASSUME LinkReturns(c) PROVE Moves(c)
  BY <1>17 DEF LinkReturns
<1>18. ASSUME FindOAuthAccount(c) PROVE Moves(c)
  BY <1>18 DEF FindOAuthAccount
<1>19. ASSUME FindUserByEmail(c) PROVE Moves(c)
  BY <1>19 DEF FindUserByEmail
<1>20. ASSUME CreateOAuthUser(c) PROVE Moves(c)
  BY <1>20 DEF CreateOAuthUser
<1>21. ASSUME LinkVerifies(c) PROVE Moves(c)
  BY <1>21 DEF LinkVerifies
<1>22. ASSUME LinkCreates(c) PROVE Moves(c)
  BY <1>22 DEF LinkCreates
<1>23. ASSUME CheckRemaining(c) PROVE Moves(c)
  BY <1>23 DEF CheckRemaining
<1>24. ASSUME Unlink(c) PROVE Moves(c)
  BY <1>24 DEF Unlink
<1>25. ASSUME PutObject(c) PROVE Moves(c)
  BY <1>25 DEF PutObject
<1>26. ASSUME ReadOld(c) PROVE Moves(c)
  BY <1>26 DEF ReadOld
<1>27. ASSUME DeleteOld(c) PROVE Moves(c)
  BY <1>27 DEF DeleteOld
<1>28. ASSUME UpdateAvatar(c) PROVE Moves(c)
  BY <1>28 DEF UpdateAvatar
<1>29. ASSUME UpdateUserProfile(c) PROVE Moves(c)
  BY <1>29 DEF UpdateUserProfile
<1>30. ASSUME CountProjects(c) PROVE Moves(c)
  BY <1>30 DEF CountProjects
<1>31. ASSUME Throws(c) PROVE Moves(c)
  BY <1>31 DEF Throws
<1>32. ASSUME Expire(c) PROVE Moves(c)
  BY <1>32 DEF Expire
<1>33. ASSUME FindToken(c) PROVE Moves(c)
  BY <1>33 DEF FindToken
<1>34. ASSUME RevokeTokenFamily(c) PROVE Moves(c)
  BY <1>34 DEF RevokeTokenFamily
<1>35. ASSUME RevokeRefreshToken(c) PROVE Moves(c)
  BY <1>35 DEF RevokeRefreshToken
<1> QED
  BY <1>1, <1>2, <1>3, <1>4, <1>5, <1>6, <1>7, <1>8, <1>9, <1>10, <1>11, <1>12, <1>13, <1>14, <1>15, <1>16, <1>17, <1>18, <1>19, <1>20, <1>21, <1>22, <1>23, <1>24, <1>25, <1>26, <1>27, <1>28, <1>29, <1>30, <1>31, <1>32, <1>33, <1>34, <1>35 DEF Act, Handler, Update

\* A new row has what its request gives it.
LEMMA NewUserFacts ==
    ASSUME NEW c \in Calls
    PROVE  /\ LET u == [NoUser EXCEPT !.exists = TRUE, !.password = c, !.name = c]
              IN  u \in UserType /\ u.exists /\ ~u.verified /\ u.password = c /\ u.avatar = "null"
           /\ LET u == [NoUser EXCEPT !.exists = TRUE, !.verified = TRUE, !.name = c]
              IN  u \in UserType /\ u.exists /\ u.password = "null" /\ u.avatar = "null"
<1>1. NoUser \in UserType
  BY DEF NoUser, UserType, Names
<1>2. ASSUME NEW u \in UserType
      PROVE  /\ [u EXCEPT !.exists = TRUE] \in UserType
             /\ [u EXCEPT !.password = c] \in UserType
             /\ [u EXCEPT !.name = c] \in UserType
             /\ [u EXCEPT !.verified = TRUE] \in UserType
  BY DEF UserType, Names
<1> QED  BY <1>1, <1>2 DEF NoUser

\* A second row is not made.
LEMMA CreateFacts ==
    ASSUME AccountInv, NEW c \in Calls, CreateUser(c) \/ CreateOAuthUser(c)
    PROVE  /\ user' \in UserType /\ user'.exists
           /\ IF user.exists THEN user' = user /\ at'[c] = "error"
              ELSE /\ user'.avatar = "null"
                   /\ \/ op[c] = "register" /\ user'.password = c /\ at'[c] = "issue"
                      \/ op[c] = "oauth" /\ user'.password = "null" /\ at'[c] = "verify"
           /\ CallTypes'
           /\ UNCHANGED <<linked, codes, links, session, outVars, fixedVars>>
<1> USE DEF AccountInv, AccountTypes, RowTypes, CallTypes, At, Step
<1>1. CASE user.exists
  BY <1>1 DEF CreateUser, CreateOAuthUser, CallName, Ended
<1>2. CASE ~user.exists /\ CreateUser(c)
  <2>1. user' = [NoUser EXCEPT !.exists = TRUE, !.password = c, !.name = c]
    BY <1>2, Zenon DEF CreateUser
  <2>2. op[c] = "register" /\ at'[c] = "issue" /\ CallTypes'
    BY <1>2 DEF CreateUser, CallName
  <2>3. UNCHANGED <<linked, codes, links, session, outVars, fixedVars>>
    BY <1>2 DEF CreateUser
  <2> QED  BY <1>2, <2>1, <2>2, <2>3, NewUserFacts, Zenon
<1>3. CASE ~user.exists /\ CreateOAuthUser(c)
  <2>1. user' = [NoUser EXCEPT !.exists = TRUE, !.verified = TRUE, !.name = c]
    BY <1>3, Zenon DEF CreateOAuthUser
  <2>2. op[c] = "oauth" /\ at'[c] = "verify" /\ CallTypes'
    BY <1>3 DEF CreateOAuthUser, CallName
  <2>3. UNCHANGED <<linked, codes, links, session, outVars, fixedVars>>
    BY <1>3 DEF CreateOAuthUser
  <2> QED  BY <1>3, <2>1, <2>2, <2>3, NewUserFacts, Zenon
<1> QED  BY <1>1, <1>2, <1>3

\* Removing a code leaves the others.
LEMMA RemovedCode ==
    ASSUME NEW s \in Seq(Calls), NEW i \in DOMAIN s
    PROVE  /\ RemoveAt(s, i) \in Seq(Calls)
           /\ \A j \in DOMAIN RemoveAt(s, i) : \E k \in DOMAIN s : RemoveAt(s, i)[j] = s[k]
<1>1. i \in 1..Len(s) /\ Len(s) \in Nat
  OBVIOUS
<1> DEFINE front == SubSeq(s, 1, i-1)
           back == SubSeq(s, i+1, Len(s))
<1>2. front \in Seq(Calls) /\ Len(front) = i-1 /\ \A j \in 1..Len(front) : front[j] = s[j]
  BY <1>1, SubSeqProperties
<1>3. /\ back \in Seq(Calls) /\ Len(back) = Len(s) - i
      /\ \A j \in 1..Len(back) : back[j] = s[i+j] /\ i+j \in 1..Len(s)
  BY <1>1, SubSeqProperties
<1>4. RemoveAt(s, i) = front \o back
  BY DEF RemoveAt
<1> HIDE DEF front, back
<1>5. ASSUME NEW j \in DOMAIN (front \o back)
      PROVE  \E k \in DOMAIN s : (front \o back)[j] = s[k]
  <2>1. /\ j \in 1..(Len(front) + Len(back))
        /\ (front \o back)[j] = IF j <= Len(front) THEN front[j] ELSE back[j - Len(front)]
    <3>1. front \o back \in Seq(Calls) /\ Len(front \o back) = Len(front) + Len(back)
      BY <1>2, <1>3, ConcatProperties
    <3>2. j \in 1..(Len(front) + Len(back))
      BY <3>1
    <3> QED  BY <1>2, <1>3, <3>2, ConcatProperties
  <2>2. CASE j <= Len(front)
    <3>1. j \in 1..Len(front) /\ j \in 1..Len(s)
      BY <1>1, <1>2, <1>3, <2>1, <2>2
    <3> QED  BY <1>2, <2>1, <2>2, <3>1
  <2>3. CASE j > Len(front)
    <3>1. Len(front) \in Nat /\ Len(back) \in Nat
      BY <1>2, <1>3, LenProperties
    <3>2. j - Len(front) \in 1..Len(back) /\ ~(j <= Len(front))
      BY <2>1, <2>3, <3>1
    <3>3. (front \o back)[j] = s[i + (j - Len(front))] /\ i + (j - Len(front)) \in 1..Len(s)
      BY <1>3, <2>1, <3>2
    <3> QED  BY <1>1, <3>3
  <2> QED  BY <1>2, <2>1, <2>2, <2>3
<1> QED  BY <1>2, <1>3, <1>4, <1>5

\* What a step may do to the rows.
Writes(c) ==
    /\ user.exists => user'.exists
    /\ user.verified => user'.verified
    /\ user'.verified => user'.exists
    /\ mailed \subseteq mailed' /\ mailed' \subseteq mailed \cup {c}
    /\ c \in mailed' => c \in mailed \/ at[c] = "mail"
    /\ \A d \in Calls : links'[d] # "none" => links[d] # "none" \/ (d = c /\ At(c, "forgot", "createLink"))
    /\ \A d \in Calls : links[d] # "none" => links'[d] # "none"
    /\ \A d \in Calls : links[d] = "used" => links'[d] = "used"

LEMMA WritesStep ==
    ASSUME AccountInv, NEW c \in Calls, Act(c)
    PROVE  Writes(c)
<1> USE DEF AccountInv, AccountTypes, RowTypes, CallTypes, UserType, HandlerOK, Writes, At
<1>1. ASSUME NEW o \in Op, Begin(c, o) PROVE Writes(c)
  BY <1>1 DEF Begin, FirstCall, Carried
<1>2. ASSUME RegisterFindsUser(c) PROVE Writes(c)
  BY <1>2 DEF RegisterFindsUser
<1>3. ASSUME CreateUser(c) PROVE Writes(c)
  BY <1>3, CreateFacts DEF CreateUser
<1>4. ASSUME VerifyPassword(c) PROVE Writes(c)
  BY <1>4 DEF VerifyPassword
<1>5. ASSUME IssueTokenPair(c) PROVE Writes(c)
  BY <1>5 DEF IssueTokenPair
<1>6. ASSUME SendFindsUser(c) PROVE Writes(c)
  BY <1>6 DEF SendFindsUser
<1>7. ASSUME DeleteOtps(c) PROVE Writes(c)
  BY <1>7 DEF DeleteOtps
<1>8. ASSUME CreateOtp(c) PROVE Writes(c)
  BY <1>8 DEF CreateOtp
<1>9. ASSUME SendMail(c) PROVE Writes(c)
  BY <1>9 DEF SendMail
<1>10. ASSUME FindOtp(c) PROVE Writes(c)
  BY <1>10 DEF FindOtp
<1>11. ASSUME ForgotFindsUser(c) PROVE Writes(c)
  BY <1>11 DEF ForgotFindsUser
<1>12. ASSUME DeleteLinks(c) PROVE Writes(c)
  BY <1>12 DEF DeleteLinks
<1>13. ASSUME CreateLink(c) PROVE Writes(c)
  BY <1>13 DEF CreateLink, Ended
<1>14. ASSUME FindLink(c) PROVE Writes(c)
  BY <1>14 DEF FindLink
<1>15. ASSUME UpdateUserPassword(c) PROVE Writes(c)
  BY <1>15, SettleFacts DEF UpdateUserPassword
<1>16. ASSUME RevokeAllUserTokens(c) PROVE Writes(c)
  BY <1>16, SettleFacts DEF RevokeAllUserTokens
<1>17. ASSUME MarkEmailVerified(c) PROVE Writes(c)
  <2>1. Settle(c, "verified", FALSE) /\ user' = [user EXCEPT !.verified = TRUE]
    BY <1>17 DEF MarkEmailVerified
  <2>2. "verified" \in pending[c]
    BY <2>1 DEF Settle
  <2>3. user.exists
    BY <2>2 DEF UpdatesOf, Authenticated
  <2> QED  BY <1>17, <2>1, <2>3 DEF MarkEmailVerified
<1>18. ASSUME MarkLinkUsed(c) PROVE Writes(c)
  BY <1>18, SettleFacts DEF MarkLinkUsed
<1>19. ASSUME MarkOtpUsed(c) PROVE Writes(c)
  BY <1>19, SettleFacts DEF MarkOtpUsed
<1>20. ASSUME SignInReturns(c) PROVE Writes(c)
  BY <1>20 DEF SignInReturns
<1>21. ASSUME LinkReturns(c) PROVE Writes(c)
  BY <1>21 DEF LinkReturns
<1>22. ASSUME FindOAuthAccount(c) PROVE Writes(c)
  BY <1>22 DEF FindOAuthAccount
<1>23. ASSUME FindUserByEmail(c) PROVE Writes(c)
  BY <1>23 DEF FindUserByEmail
<1>24. ASSUME CreateOAuthUser(c) PROVE Writes(c)
  BY <1>24, CreateFacts DEF CreateOAuthUser
<1>25. ASSUME LinkVerifies(c) PROVE Writes(c)
  BY <1>25 DEF LinkVerifies
<1>26. ASSUME LinkCreates(c) PROVE Writes(c)
  BY <1>26 DEF LinkCreates
<1>27. ASSUME CheckRemaining(c) PROVE Writes(c)
  BY <1>27 DEF CheckRemaining
<1>28. ASSUME Unlink(c) PROVE Writes(c)
  BY <1>28 DEF Unlink
<1>29. ASSUME PutObject(c) PROVE Writes(c)
  BY <1>29 DEF PutObject
<1>30. ASSUME ReadOld(c) PROVE Writes(c)
  BY <1>30 DEF ReadOld
<1>31. ASSUME DeleteOld(c) PROVE Writes(c)
  BY <1>31 DEF DeleteOld
<1>32. ASSUME UpdateAvatar(c) PROVE Writes(c)
  BY <1>32 DEF UpdateAvatar
<1>33. ASSUME UpdateUserProfile(c) PROVE Writes(c)
  BY <1>33 DEF UpdateUserProfile
<1>34. ASSUME CountProjects(c) PROVE Writes(c)
  BY <1>34 DEF CountProjects
<1>35. ASSUME Throws(c) PROVE Writes(c)
  BY <1>35 DEF Throws
<1>36. ASSUME UpdateFails(c) PROVE Writes(c)
  BY <1>36, SettleFacts DEF UpdateFails
<1>37. ASSUME Expire(c) PROVE Writes(c)
  BY <1>37 DEF Expire
<1>38. ASSUME FindToken(c) PROVE Writes(c)
  BY <1>38 DEF FindToken
<1>39. ASSUME RevokeTokenFamily(c) PROVE Writes(c)
  BY <1>39 DEF RevokeTokenFamily
<1>40. ASSUME RevokeRefreshToken(c) PROVE Writes(c)
  BY <1>40 DEF RevokeRefreshToken
<1> QED
  BY <1>1, <1>2, <1>3, <1>4, <1>5, <1>6, <1>7, <1>8, <1>9, <1>10, <1>11, <1>12, <1>13, <1>14, <1>15, <1>16, <1>17, <1>18, <1>19, <1>20, <1>21, <1>22, <1>23, <1>24, <1>25, <1>26, <1>27, <1>28, <1>29, <1>30, <1>31, <1>32, <1>33, <1>34, <1>35, <1>36, <1>37, <1>38, <1>39, <1>40 DEF Act, Handler

LEMMA TypesStep ==
    ASSUME AccountInv, NEW c \in Calls, Act(c)
    PROVE  AccountTypes'
<1> USE DEF AccountInv, AccountTypes, RowTypes, CallTypes, UserType, Names, Step, CallName, Ended
<1>1. ASSUME NEW o \in Op, Begin(c, o) PROVE AccountTypes'
  BY <1>1 DEF Begin, FirstCall, Carried, Op, Saves
<1>2. ASSUME RegisterFindsUser(c) PROVE AccountTypes'
  BY <1>2 DEF RegisterFindsUser
<1>3. ASSUME CreateUser(c) PROVE AccountTypes'
  BY <1>3, CreateFacts DEF CreateUser
<1>4. ASSUME VerifyPassword(c) PROVE AccountTypes'
  BY <1>4 DEF VerifyPassword
<1>5. ASSUME IssueTokenPair(c) PROVE AccountTypes'
  BY <1>5 DEF IssueTokenPair
<1>6. ASSUME SendFindsUser(c) PROVE AccountTypes'
  BY <1>6 DEF SendFindsUser
<1>7. ASSUME DeleteOtps(c) PROVE AccountTypes'
  BY <1>7 DEF DeleteOtps
<1>8. ASSUME CreateOtp(c) PROVE AccountTypes'
  BY <1>8 DEF CreateOtp
<1>9. ASSUME SendMail(c) PROVE AccountTypes'
  BY <1>9 DEF SendMail
<1>10. ASSUME FindOtp(c) PROVE AccountTypes'
  BY <1>10 DEF FindOtp
<1>11. ASSUME ForgotFindsUser(c) PROVE AccountTypes'
  BY <1>11 DEF ForgotFindsUser
<1>12. ASSUME DeleteLinks(c) PROVE AccountTypes'
  BY <1>12 DEF DeleteLinks
<1>13. ASSUME CreateLink(c) PROVE AccountTypes'
  BY <1>13 DEF CreateLink
<1>14. ASSUME FindLink(c) PROVE AccountTypes'
  <2>1. RowTypes'
    BY <1>14 DEF FindLink
  <2>2. UNCHANGED fixedVars /\ failed' = failed
    BY <1>14 DEF FindLink
  <2>3. at' \in [Calls -> CallName]
    <3>1. at' = [at EXCEPT ![c] = "updates"] \/ at' = [at EXCEPT ![c] = "refused"]
      BY <1>14 DEF FindLink
    <3> QED  BY <3>1
  <2>4. pending' \in [Calls -> SUBSET {"markUsed", "verified", "password", "revokeAll"}]
    <3>1. pending' = pending \/ pending' = [pending EXCEPT ![c] = {"password", "markUsed", "revokeAll"}]
      BY <1>14 DEF FindLink
    <3> QED  BY <3>1
  <2> QED  BY <2>1, <2>2, <2>3, <2>4
<1>15. ASSUME UpdateUserPassword(c) PROVE AccountTypes'
  BY <1>15, SettleFacts DEF UpdateUserPassword
<1>16. ASSUME RevokeAllUserTokens(c) PROVE AccountTypes'
  BY <1>16, SettleFacts DEF RevokeAllUserTokens, Revoke
<1>17. ASSUME MarkEmailVerified(c) PROVE AccountTypes'
  BY <1>17, SettleFacts DEF MarkEmailVerified
<1>18. ASSUME MarkLinkUsed(c) PROVE AccountTypes'
  BY <1>18, SettleFacts DEF MarkLinkUsed
<1>19. ASSUME MarkOtpUsed(c) PROVE AccountTypes'
  <2>1. CallTypes'
    <3>1. \E threw \in BOOLEAN : Settle(c, "markUsed", threw)
      BY <1>19 DEF MarkOtpUsed
    <3> QED  BY <3>1, SettleFacts
  <2>2. codes' \in Seq(Calls)
    <3>1. codes' = codes \/ \E i \in DOMAIN codes : codes' = RemoveAt(codes, i)
      BY <1>19 DEF MarkOtpUsed
    <3> QED  BY <3>1, RemovedCode
  <2> QED  BY <1>19, <2>1, <2>2 DEF MarkOtpUsed
<1>20. ASSUME SignInReturns(c) PROVE AccountTypes'
  BY <1>20 DEF SignInReturns
<1>21. ASSUME LinkReturns(c) PROVE AccountTypes'
  BY <1>21 DEF LinkReturns
<1>22. ASSUME FindOAuthAccount(c) PROVE AccountTypes'
  BY <1>22 DEF FindOAuthAccount
<1>23. ASSUME FindUserByEmail(c) PROVE AccountTypes'
  BY <1>23 DEF FindUserByEmail
<1>24. ASSUME CreateOAuthUser(c) PROVE AccountTypes'
  BY <1>24, CreateFacts DEF CreateOAuthUser
<1>25. ASSUME LinkVerifies(c) PROVE AccountTypes'
  BY <1>25 DEF LinkVerifies
<1>26. ASSUME LinkCreates(c) PROVE AccountTypes'
  BY <1>26 DEF LinkCreates, HandlerOK, At
<1>27. ASSUME CheckRemaining(c) PROVE AccountTypes'
  BY <1>27 DEF CheckRemaining
<1>28. ASSUME Unlink(c) PROVE AccountTypes'
  BY <1>28 DEF Unlink
<1>29. ASSUME PutObject(c) PROVE AccountTypes'
  BY <1>29 DEF PutObject
<1>30. ASSUME ReadOld(c) PROVE AccountTypes'
  BY <1>30 DEF ReadOld
<1>31. ASSUME DeleteOld(c) PROVE AccountTypes'
  BY <1>31 DEF DeleteOld
<1>32. ASSUME UpdateAvatar(c) PROVE AccountTypes'
  BY <1>32 DEF UpdateAvatar
<1>33. ASSUME UpdateUserProfile(c) PROVE AccountTypes'
  BY <1>33 DEF UpdateUserProfile, HandlerOK
<1>34. ASSUME CountProjects(c) PROVE AccountTypes'
  BY <1>34 DEF CountProjects
<1>35. ASSUME Throws(c) PROVE AccountTypes'
  BY <1>35 DEF Throws
<1>36. ASSUME UpdateFails(c) PROVE AccountTypes'
  BY <1>36, SettleFacts DEF UpdateFails
<1>37. ASSUME Expire(c) PROVE AccountTypes'
  BY <1>37 DEF Expire
<1>38. ASSUME FindToken(c) PROVE AccountTypes'
  BY <1>38 DEF FindToken
<1>39. ASSUME RevokeTokenFamily(c) PROVE AccountTypes'
  BY <1>39 DEF RevokeTokenFamily, Revoke
<1>40. ASSUME RevokeRefreshToken(c) PROVE AccountTypes'
  BY <1>40 DEF RevokeRefreshToken, Revoke
<1> QED
  BY <1>1, <1>2, <1>3, <1>4, <1>5, <1>6, <1>7, <1>8, <1>9, <1>10, <1>11, <1>12, <1>13, <1>14, <1>15, <1>16, <1>17, <1>18, <1>19, <1>20, <1>21, <1>22, <1>23, <1>24, <1>25, <1>26, <1>27, <1>28, <1>29, <1>30, <1>31, <1>32, <1>33, <1>34, <1>35, <1>36, <1>37, <1>38, <1>39, <1>40 DEF Act, Handler

\* What keeps the other requests in order.
LEMMA OthersKept ==
    ASSUME AccountInv, NEW c \in Calls, Moves(c), Writes(c), NEW d \in Calls \ {c}
    PROVE  HandlerOK(d)'
<1> USE DEF AccountInv, AccountTypes, RowTypes, CallTypes
<1>1. HandlerOK(d)
  OBVIOUS
<1>2. op[d] = "reset" => arg'[d] \in mailed' /\ op'[arg'[d]] = "forgot"
  <2>1. SUFFICES ASSUME op[d] = "reset" PROVE arg'[d] \in mailed' /\ op'[arg'[d]] = "forgot"
    OBVIOUS
  <2>2. arg[d] \in mailed /\ op[arg[d]] = "forgot" /\ at[arg[d]] \in Ended
    BY <1>1, <2>1 DEF HandlerOK
  <2>3. op'[arg[d]] = "forgot"
    BY <2>2 DEF Moves, Ended
  <2> QED  BY <2>1, <2>2, <2>3 DEF Moves, Writes
<1>3. /\ at'[d] = at[d] /\ op'[d] = op[d] /\ arg'[d] = arg[d]
      /\ pending'[d] = pending[d] /\ failed'[d] = failed[d]
  BY DEF Moves
<1>4. /\ user.exists => user'.exists
      /\ d \in mailed' <=> d \in mailed
      /\ links'[d] # "none" <=> links[d] # "none"
  BY DEF Writes, At
<1> QED  BY <1>1, <1>2, <1>3, <1>4, Zenon DEF HandlerOK

\* After an update a request is in order.
LEMMA SettledOK ==
    ASSUME AccountInv, NEW c \in Calls, NEW u, NEW threw \in BOOLEAN, Settle(c, u, threw)
    PROVE  CallsOK(c)'
<1>1. CallsOK(c) /\ at[c] = "updates"
  BY SettleFacts DEF AccountInv
<1>2. op' = op /\ at'[c] \in {"updates"} \cup Ended
  BY SettleFacts DEF Ended
<1> QED  BY <1>1, <1>2 DEF CallsOK, Ended, Saves

LEMMA CallsStep ==
    ASSUME AccountInv, NEW c \in Calls, Act(c)
    PROVE  CallsOK(c)'
<1> USE DEF AccountInv, AccountTypes, RowTypes, CallTypes, HandlerOK, CallsOK, UpdatesOf, At,
            Step, Ended, Saves, Op
<1>1. ASSUME NEW o \in Op, Begin(c, o) PROVE CallsOK(c)'
  <2>1. op'[c] = o /\ at'[c] = FirstCall(o)
    BY <1>1 DEF Begin
  <2> QED  BY <2>1 DEF FirstCall
<1>2. ASSUME Update(c) PROVE CallsOK(c)'
  BY <1>2, UpdatesSettle, SettledOK
<1>3. ASSUME RegisterFindsUser(c) PROVE CallsOK(c)'
  BY <1>3 DEF RegisterFindsUser
<1>4. ASSUME CreateUser(c) PROVE CallsOK(c)'
  BY <1>4 DEF CreateUser
<1>5. ASSUME VerifyPassword(c) PROVE CallsOK(c)'
  BY <1>5 DEF VerifyPassword
<1>6. ASSUME IssueTokenPair(c) PROVE CallsOK(c)'
  BY <1>6 DEF IssueTokenPair
<1>7. ASSUME SendFindsUser(c) PROVE CallsOK(c)'
  BY <1>7 DEF SendFindsUser
<1>8. ASSUME DeleteOtps(c) PROVE CallsOK(c)'
  BY <1>8 DEF DeleteOtps
<1>9. ASSUME CreateOtp(c) PROVE CallsOK(c)'
  BY <1>9 DEF CreateOtp
<1>10. ASSUME SendMail(c) PROVE CallsOK(c)'
  BY <1>10 DEF SendMail
<1>11. ASSUME FindOtp(c) PROVE CallsOK(c)'
  BY <1>11 DEF FindOtp
<1>12. ASSUME ForgotFindsUser(c) PROVE CallsOK(c)'
  BY <1>12 DEF ForgotFindsUser
<1>13. ASSUME DeleteLinks(c) PROVE CallsOK(c)'
  BY <1>13 DEF DeleteLinks
<1>14. ASSUME CreateLink(c) PROVE CallsOK(c)'
  BY <1>14 DEF CreateLink
<1>15. ASSUME FindLink(c) PROVE CallsOK(c)'
  BY <1>15 DEF FindLink
<1>16. ASSUME SignInReturns(c) PROVE CallsOK(c)'
  BY <1>16 DEF SignInReturns
<1>17. ASSUME LinkReturns(c) PROVE CallsOK(c)'
  BY <1>17 DEF LinkReturns
<1>18. ASSUME FindOAuthAccount(c) PROVE CallsOK(c)'
  BY <1>18 DEF FindOAuthAccount
<1>19. ASSUME FindUserByEmail(c) PROVE CallsOK(c)'
  BY <1>19 DEF FindUserByEmail
<1>20. ASSUME CreateOAuthUser(c) PROVE CallsOK(c)'
  BY <1>20 DEF CreateOAuthUser
<1>21. ASSUME LinkVerifies(c) PROVE CallsOK(c)'
  BY <1>21 DEF LinkVerifies
<1>22. ASSUME LinkCreates(c) PROVE CallsOK(c)'
  BY <1>22 DEF LinkCreates
<1>23. ASSUME CheckRemaining(c) PROVE CallsOK(c)'
  BY <1>23 DEF CheckRemaining
<1>24. ASSUME Unlink(c) PROVE CallsOK(c)'
  BY <1>24 DEF Unlink
<1>25. ASSUME PutObject(c) PROVE CallsOK(c)'
  BY <1>25 DEF PutObject
<1>26. ASSUME ReadOld(c) PROVE CallsOK(c)'
  BY <1>26 DEF ReadOld
<1>27. ASSUME DeleteOld(c) PROVE CallsOK(c)'
  BY <1>27 DEF DeleteOld
<1>28. ASSUME UpdateAvatar(c) PROVE CallsOK(c)'
  BY <1>28 DEF UpdateAvatar
<1>29. ASSUME UpdateUserProfile(c) PROVE CallsOK(c)'
  BY <1>29 DEF UpdateUserProfile
<1>30. ASSUME CountProjects(c) PROVE CallsOK(c)'
  BY <1>30 DEF CountProjects
<1>31. ASSUME Throws(c) PROVE CallsOK(c)'
  BY <1>31 DEF Throws, Running
<1>32. ASSUME Expire(c) PROVE CallsOK(c)'
  BY <1>32 DEF Expire
<1>33. ASSUME FindToken(c) PROVE CallsOK(c)'
  BY <1>33 DEF FindToken
<1>34. ASSUME RevokeTokenFamily(c) PROVE CallsOK(c)'
  BY <1>34 DEF RevokeTokenFamily
<1>35. ASSUME RevokeRefreshToken(c) PROVE CallsOK(c)'
  BY <1>35 DEF RevokeRefreshToken
<1> QED
  BY <1>1, <1>2, <1>3, <1>4, <1>5, <1>6, <1>7, <1>8, <1>9, <1>10, <1>11, <1>12, <1>13, <1>14, <1>15, <1>16, <1>17, <1>18, <1>19, <1>20, <1>21, <1>22, <1>23, <1>24, <1>25, <1>26, <1>27, <1>28, <1>29, <1>30, <1>31, <1>32, <1>33, <1>34, <1>35 DEF Act, Handler, Update

LEMMA SettledInOrder ==
    ASSUME AccountInv, NEW c \in Calls, NEW u, NEW threw \in BOOLEAN, Settle(c, u, threw),
           Writes(c)
    PROVE  HandlerOK(c)'
<1>1. HandlerOK(c) /\ at[c] = "updates"
  BY SettleFacts DEF AccountInv
<1>2. /\ op' = op /\ arg' = arg /\ at'[c] \in {"updates", "ok", "error"}
      /\ pending'[c] \subseteq pending[c] /\ (pending'[c] # {} <=> at'[c] = "updates")
      /\ failed'[c] => at'[c] \in {"updates", "error"}
  BY SettleFacts
<1>3. c \notin mailed' /\ links[c] = "none" /\ links'[c] = "none"
  BY <1>1 DEF HandlerOK, Writes, At, Ended
<1> QED  BY <1>1, <1>2, <1>3 DEF HandlerOK, Writes, Authenticated

\* Whose call it is, of those that several handlers make.
LEMMA CallersOf ==
    ASSUME AccountInv, NEW c \in Calls
    PROVE  /\ at[c] = "mail" => op[c] \in {"sendOtp", "forgot"}
           /\ at[c] = "issue" => op[c] \in {"register", "login", "refresh", "oauth"}
           /\ at[c] = "count" => op[c] \in Saves
           /\ at[c] = "updates" => op[c] \in {"confirmOtp", "reset"}
<1>1. op[c] \in Op \cup {"none"} /\ CallsOK(c)
  BY DEF AccountInv, AccountTypes, CallTypes
<1> QED  BY <1>1 DEF Op, CallsOK, Ended, Saves

LEMMA HandlerStep ==
    ASSUME AccountInv, NEW c \in Calls, Act(c), Writes(c)
    PROVE  HandlerOK(c)'
<1> USE DEF AccountInv, AccountTypes, RowTypes, CallTypes, HandlerOK, UpdatesOf, At,
            Step, Writes, Ended, Authenticated, Saves
<1>1. ASSUME NEW o \in Op, Begin(c, o) PROVE HandlerOK(c)'
  <2>1. /\ at[c] = "none" /\ c \notin mailed /\ links[c] = "none" /\ ~failed[c] /\ pending[c] = {}
    BY <1>1 DEF Begin, CallsOK
  <2>2. /\ op'[c] = o /\ arg'[c] \in Carried(c, o) /\ at'[c] = FirstCall(o)
        /\ at'[c] \notin {"updates", "verify", "mail"}
        /\ UNCHANGED <<user, mailed, links, pending, failed>>
        /\ o \in Authenticated => user.exists
    BY <1>1 DEF Begin, FirstCall, Op
  <2>3. o = "reset" => arg'[c] \in mailed /\ op'[arg'[c]] = "forgot"
    BY <1>1, <2>1, <2>2 DEF Begin, Carried
  <2>4. /\ o \in {"oauth", "link", "unlink"} => arg'[c] \in Identities
        /\ o = "confirmOtp" => arg'[c] \in Calls
        /\ o \in Saves => arg'[c] \in {Before} \cup Calls
        /\ o = "avatar" => arg'[c] \in Names
    BY <2>2 DEF Carried, Names
  <2> QED  BY <2>1, <2>2, <2>3, <2>4
<1>2. ASSUME Update(c) PROVE HandlerOK(c)'
  BY <1>2, UpdatesSettle, SettledInOrder
<1>3. ASSUME RegisterFindsUser(c) PROVE HandlerOK(c)'
  BY <1>3 DEF RegisterFindsUser
<1>4. ASSUME CreateUser(c) PROVE HandlerOK(c)'
  <2>1. /\ op[c] = "register" /\ at[c] = "createUser" /\ at'[c] \in {"issue", "error"}
        /\ op' = op /\ UNCHANGED <<arg, pending, failed, mailed, links>>
    BY <1>4 DEF CreateUser
  <2> QED  BY <2>1
<1>5. ASSUME VerifyPassword(c) PROVE HandlerOK(c)'
  BY <1>5 DEF VerifyPassword
<1>6. ASSUME IssueTokenPair(c) PROVE HandlerOK(c)'
  BY <1>6 DEF IssueTokenPair
<1>7. ASSUME SendFindsUser(c) PROVE HandlerOK(c)'
  BY <1>7 DEF SendFindsUser
<1>8. ASSUME DeleteOtps(c) PROVE HandlerOK(c)'
  BY <1>8 DEF DeleteOtps
<1>9. ASSUME CreateOtp(c) PROVE HandlerOK(c)'
  BY <1>9 DEF CreateOtp
<1>10. ASSUME SendMail(c) PROVE HandlerOK(c)'
  <2>1. op[c] \in {"sendOtp", "forgot"} /\ at[c] = "mail"
    BY <1>10, CallersOf DEF SendMail
  <2>2. at'[c] = "ok" /\ UNCHANGED <<user, op, arg, failed, pending, links>>
    BY <1>10 DEF SendMail
  <2> QED  BY <2>1, <2>2
<1>11. ASSUME FindOtp(c) PROVE HandlerOK(c)'
  <2>1. op[c] = "confirmOtp" /\ at[c] = "findOtp" /\ UNCHANGED <<user, op, arg, failed, mailed, links>>
    BY <1>11 DEF FindOtp
  <2>2. CASE at'[c] = "updates" /\ pending'[c] = {"markUsed", "verified"}
    BY <2>1, <2>2
  <2>3. CASE at'[c] = "refused" /\ pending' = pending
    BY <2>1, <2>3
  <2> QED  BY <1>11, <2>1, <2>2, <2>3 DEF FindOtp
<1>12. ASSUME ForgotFindsUser(c) PROVE HandlerOK(c)'
  BY <1>12 DEF ForgotFindsUser
<1>13. ASSUME DeleteLinks(c) PROVE HandlerOK(c)'
  BY <1>13 DEF DeleteLinks
<1>14. ASSUME CreateLink(c) PROVE HandlerOK(c)'
  BY <1>14 DEF CreateLink
<1>15. ASSUME FindLink(c) PROVE HandlerOK(c)'
  <2>1. op[c] = "reset" /\ at[c] = "findLink" /\ UNCHANGED <<user, op, arg, failed, mailed, links>>
    BY <1>15 DEF FindLink
  <2>2. CASE at'[c] = "updates" /\ pending'[c] = {"password", "markUsed", "revokeAll"}
    BY <2>1, <2>2
  <2>3. CASE at'[c] = "refused" /\ pending' = pending
    BY <2>1, <2>3
  <2> QED  BY <1>15, <2>1, <2>2, <2>3 DEF FindLink
<1>16. ASSUME SignInReturns(c) PROVE HandlerOK(c)'
  BY <1>16 DEF SignInReturns
<1>17. ASSUME LinkReturns(c) PROVE HandlerOK(c)'
  BY <1>17 DEF LinkReturns
<1>18. ASSUME FindOAuthAccount(c) PROVE HandlerOK(c)'
  BY <1>18 DEF FindOAuthAccount
<1>19. ASSUME FindUserByEmail(c) PROVE HandlerOK(c)'
  BY <1>19 DEF FindUserByEmail
<1>20. ASSUME CreateOAuthUser(c) PROVE HandlerOK(c)'
  <2>1. /\ op[c] = "oauth" /\ at[c] = "createUser" /\ at'[c] \in {"verify", "error"}
        /\ op' = op /\ UNCHANGED <<arg, pending, failed, mailed, links>>
    BY <1>20 DEF CreateOAuthUser
  <2>2. user'.exists
    BY <1>20, CreateFacts
  <2> QED  BY <2>1, <2>2
<1>21. ASSUME LinkVerifies(c) PROVE HandlerOK(c)'
  BY <1>21 DEF LinkVerifies
<1>22. ASSUME LinkCreates(c) PROVE HandlerOK(c)'
  BY <1>22 DEF LinkCreates
<1>23. ASSUME CheckRemaining(c) PROVE HandlerOK(c)'
  BY <1>23 DEF CheckRemaining
<1>24. ASSUME Unlink(c) PROVE HandlerOK(c)'
  BY <1>24 DEF Unlink
<1>25. ASSUME PutObject(c) PROVE HandlerOK(c)'
  BY <1>25 DEF PutObject
<1>26. ASSUME ReadOld(c) PROVE HandlerOK(c)'
  BY <1>26 DEF ReadOld, UserType, CallsOK
<1>27. ASSUME DeleteOld(c) PROVE HandlerOK(c)'
  BY <1>27 DEF DeleteOld
<1>28. ASSUME UpdateAvatar(c) PROVE HandlerOK(c)'
  BY <1>28 DEF UpdateAvatar
<1>29. ASSUME UpdateUserProfile(c) PROVE HandlerOK(c)'
  BY <1>29 DEF UpdateUserProfile
<1>30. ASSUME CountProjects(c) PROVE HandlerOK(c)'
  BY <1>30 DEF CountProjects
<1>31. ASSUME Throws(c) PROVE HandlerOK(c)'
  BY <1>31 DEF Throws
<1>32. ASSUME Expire(c) PROVE HandlerOK(c)'
  BY <1>32 DEF Expire
<1>33. ASSUME FindToken(c) PROVE HandlerOK(c)'
  BY <1>33 DEF FindToken
<1>34. ASSUME RevokeTokenFamily(c) PROVE HandlerOK(c)'
  BY <1>34 DEF RevokeTokenFamily
<1>35. ASSUME RevokeRefreshToken(c) PROVE HandlerOK(c)'
  BY <1>35 DEF RevokeRefreshToken
<1> QED
  BY <1>1, <1>2, <1>3, <1>4, <1>5, <1>6, <1>7, <1>8, <1>9, <1>10, <1>11, <1>12, <1>13, <1>14, <1>15, <1>16, <1>17, <1>18, <1>19, <1>20, <1>21, <1>22, <1>23, <1>24, <1>25, <1>26, <1>27, <1>28, <1>29, <1>30, <1>31, <1>32, <1>33, <1>34, <1>35 DEF Act, Handler, Update

LEMMA HistoryStep ==
    ASSUME AccountInv, NEW c \in Calls, Act(c), Moves(c), CallsOK(c)'
    PROVE  \A d \in Calls : HistoryOK(d)'
<1> USE DEF AccountInv, AccountTypes, CallTypes
<1>1. ASSUME NEW d \in Calls, at[d] \in Ended PROVE at'[d] = at[d]
  BY <1>1 DEF Moves
<1>2. CASE at[c] # "none"
  <2>1. \A d \in Calls : before'[d] = before[d] /\ overlap'[d] = overlap[d]
    BY <1>2 DEF Moves
  <2>2. at'[c] # "none"
    BY <1>2 DEF Moves, CallsOK
  <2>3. ASSUME NEW d \in Calls, Running(d)' PROVE Running(d)
    BY <1>1, <1>2, <2>3 DEF Running, Moves
  <2>4. ASSUME NEW d \in Calls, at'[d] = "none" PROVE before'[d] = {}
    BY <2>1, <2>2, <2>4 DEF HistoryOK, Moves
  <2>5. ASSUME NEW d \in Calls, NEW e \in before'[d] PROVE at'[e] \in Ended
    BY <1>1, <2>1, <2>5 DEF HistoryOK
  <2>6. ASSUME NEW d \in Calls, NEW e \in Calls \ {d}, Running(d)', Running(e)' PROVE e \in overlap'[d]
    BY <2>1, <2>3, <2>6 DEF HistoryOK
  <2> QED  BY <2>4, <2>5, <2>6 DEF HistoryOK, Running
<1>3. CASE at[c] = "none"
  <2>1. (UNCHANGED <<at, before, overlap>>) \/ \E o \in Op : Begin(c, o)
    BY <1>3, HandlerRuns DEF Act, Running, Throws, UpdateFails, Expire
  <2>2. CASE UNCHANGED <<at, before, overlap>>
    BY <2>2 DEF HistoryOK, Running
  <2>3. ASSUME NEW o \in Op, Begin(c, o) PROVE \A d \in Calls : HistoryOK(d)'
    <3>1. before' = [before EXCEPT ![c] = {d \in Calls : at[d] \in Ended}]
      BY <2>3 DEF Begin
    <3>2. \A d \in Calls : overlap'[d] = IF d = c THEN {e \in Calls : Running(e)}
                                        ELSE IF Running(d) THEN overlap[d] \cup {c} ELSE overlap[d]
      BY <2>3 DEF Begin
    <3>3. \A d \in Calls \ {c} : at'[d] = at[d]
      BY DEF Moves
    <3>4. at'[c] # "none"
      BY <2>3 DEF Begin, FirstCall, Op, Saves
    <3>5. ASSUME NEW d \in Calls PROVE (at'[d] = "none" => before'[d] = {}) /\ \A e \in before'[d] : at'[e] \in Ended
      BY <1>1, <1>3, <3>1, <3>3, <3>4 DEF HistoryOK
    <3>6. ASSUME NEW d \in Calls, NEW e \in Calls \ {d}, Running(d)', Running(e)' PROVE e \in overlap'[d]
      <4>1. CASE d = c
        BY <3>2, <3>3, <3>6, <4>1 DEF Running
      <4>2. CASE e = c
        BY <3>2, <3>3, <3>6, <4>2 DEF Running
      <4>3. CASE d # c /\ e # c
        BY <3>2, <3>3, <3>6, <4>3 DEF Running, HistoryOK
      <4> QED  BY <4>1, <4>2, <4>3
    <3> QED  BY <3>5, <3>6 DEF HistoryOK, Running
  <2> QED  BY <2>1, <2>2, <2>3
<1> QED  BY <1>2, <1>3

LEMMA ActKeeps ==
    ASSUME AccountInv, NEW c \in Calls, Act(c)
    PROVE  AccountInv' /\ Moves(c) /\ Writes(c)
<1>1. Moves(c) /\ Writes(c) /\ AccountTypes'
  BY MovesStep, WritesStep, TypesStep
<1>2. ASSUME NEW d \in Calls PROVE CallsOK(d)' /\ HandlerOK(d)' /\ HistoryOK(d)'
  <2>1. CallsOK(c)' /\ HandlerOK(c)'
    BY <1>1, CallsStep, HandlerStep
  <2>2. CASE d # c
    <3>1. HandlerOK(d)'
      BY <1>1, <2>2, OthersKept
    <3>2. CallsOK(d)'
      <4>1. at'[d] = at[d] /\ op'[d] = op[d] /\ CallsOK(d)
        BY <1>1, <2>2 DEF AccountInv, Moves
      <4> QED  BY <4>1 DEF CallsOK, Ended, Saves
    <3> QED  BY <1>1, <2>1, <3>1, <3>2, HistoryStep
  <2> QED  BY <1>1, <2>1, <2>2, HistoryStep
<1> QED  BY <1>1, <1>2 DEF AccountInv, Writes

LEMMA AccountInit == Init => AccountInv
<1> SUFFICES ASSUME Init PROVE AccountInv
  OBVIOUS
<1> USE DEF Init
<1>1. NoUser \in UserType /\ WithPassword \in UserType /\ WithIdentities \in UserType
  BY DEF NoUser, WithPassword, WithIdentities, UserType, Names
<1>2. AccountTypes
  BY <1>1 DEF AccountTypes, RowTypes, CallTypes, CallName, Names
<1>3. user.verified => user.exists
  <2>1. ~WithPassword.verified /\ WithIdentities.exists /\ ~NoUser.verified
    BY <1>1 DEF NoUser, WithPassword, WithIdentities, UserType
  <2> QED  BY <2>1
<1> QED
  BY <1>2, <1>3 DEF AccountInv, CallsOK, HandlerOK, HistoryOK, Authenticated, Saves, Running, UpdatesOf

LEMMA AccountStep == AccountInv /\ [Next]_vars => AccountInv'
<1>1. ASSUME AccountInv, UNCHANGED vars PROVE AccountInv'
  BY <1>1 DEF vars, AccountInv, AccountTypes, RowTypes, CallTypes, CallsOK, HandlerOK, HistoryOK, Running
<1> QED  BY <1>1, NextActs, ActKeeps

LEMMA AccountInvariant == Spec => []AccountInv
  BY AccountInit, AccountStep, PTL DEF Spec

\* The rows and the requests keep their types: a confirmed code is a request's, an
\* avatar is what somebody uploaded, whatever fails on the way.
THEOREM AccountsAreTyped == Spec => []AccountTypes
<1>1. AccountInv => AccountTypes
  BY DEF AccountInv
<1> QED  BY <1>1, AccountInvariant, PTL

-----------------------------------------------------------------------------
(* Codes.                                                                   *)

\* Only a send adds a code, its own, and after it has deleted the others; only a
\* code that is there is found.
CodeMoves(c) ==
    /\ \A i \in DOMAIN codes' : \/ \E k \in DOMAIN codes : codes'[i] = codes[k]
                                \/ codes'[i] = c /\ at[c] = "createOtp"
    /\ at'[c] = "createOtp" => at[c] = "createOtp" \/ codes' = <<>>
    /\ at'[c] = "mail" /\ op[c] = "sendOtp" => at[c] \in {"createOtp", "mail"}
    /\ op[c] = "confirmOtp" /\ at'[c] \in {"updates", "ok"} =>
          at[c] \in {"updates", "ok"} \/ \E i \in DOMAIN codes : codes[i] = arg[c]

LEMMA CodesMove ==
    ASSUME AccountInv, NEW c \in Calls, Act(c)
    PROVE  CodeMoves(c)
<1> USE DEF AccountInv, AccountTypes, RowTypes, CallTypes, CodeMoves, At, Step
<1>1. ASSUME NEW o \in Op, Begin(c, o) PROVE CodeMoves(c)
  BY <1>1 DEF Begin, FirstCall, Op, Saves
<1>2. ASSUME RegisterFindsUser(c) PROVE CodeMoves(c)
  BY <1>2 DEF RegisterFindsUser
<1>3. ASSUME CreateUser(c) PROVE CodeMoves(c)
  BY <1>3, CreateFacts DEF CreateUser
<1>4. ASSUME VerifyPassword(c) PROVE CodeMoves(c)
  BY <1>4 DEF VerifyPassword
<1>5. ASSUME IssueTokenPair(c) PROVE CodeMoves(c)
  BY <1>5, CallersOf DEF IssueTokenPair
<1>6. ASSUME SendFindsUser(c) PROVE CodeMoves(c)
  BY <1>6 DEF SendFindsUser
<1>7. ASSUME DeleteOtps(c) PROVE CodeMoves(c)
  BY <1>7 DEF DeleteOtps
<1>8. ASSUME CreateOtp(c) PROVE CodeMoves(c)
  BY <1>8 DEF CreateOtp
<1>9. ASSUME SendMail(c) PROVE CodeMoves(c)
  BY <1>9, CallersOf DEF SendMail
<1>10. ASSUME FindOtp(c) PROVE CodeMoves(c)
  <2>1. op[c] = "confirmOtp" /\ at[c] = "findOtp" /\ codes' = codes /\ at'[c] \in {"updates", "refused"}
    BY <1>10 DEF FindOtp
  <2>2. at'[c] = "updates" => codes # <<>> /\ Last(codes) = arg[c]
    BY <1>10 DEF FindOtp
  <2>3. codes # <<>> => Len(codes) \in DOMAIN codes
    BY LenProperties, EmptySeq
  <2> QED  BY <2>1, <2>2, <2>3 DEF Last
<1>11. ASSUME ForgotFindsUser(c) PROVE CodeMoves(c)
  BY <1>11 DEF ForgotFindsUser
<1>12. ASSUME DeleteLinks(c) PROVE CodeMoves(c)
  BY <1>12 DEF DeleteLinks
<1>13. ASSUME CreateLink(c) PROVE CodeMoves(c)
  BY <1>13 DEF CreateLink
<1>14. ASSUME FindLink(c) PROVE CodeMoves(c)
  BY <1>14 DEF FindLink
<1>15. ASSUME UpdateUserPassword(c) PROVE CodeMoves(c)
  BY <1>15, SettleFacts DEF UpdateUserPassword
<1>16. ASSUME RevokeAllUserTokens(c) PROVE CodeMoves(c)
  BY <1>16, SettleFacts DEF RevokeAllUserTokens
<1>17. ASSUME MarkEmailVerified(c) PROVE CodeMoves(c)
  BY <1>17, SettleFacts DEF MarkEmailVerified
<1>18. ASSUME MarkLinkUsed(c) PROVE CodeMoves(c)
  BY <1>18, SettleFacts DEF MarkLinkUsed
<1>19. ASSUME MarkOtpUsed(c) PROVE CodeMoves(c)
  <2>1. op[c] = "confirmOtp" /\ at[c] = "updates" /\ at'[c] \in {"updates", "ok", "error"}
    <3>1. \E threw \in BOOLEAN : Settle(c, "markUsed", threw)
      BY <1>19 DEF MarkOtpUsed
    <3> QED  BY <1>19, <3>1, SettleFacts DEF MarkOtpUsed
  <2>2. codes' = codes \/ \E i \in DOMAIN codes : codes' = RemoveAt(codes, i)
    BY <1>19 DEF MarkOtpUsed
  <2> QED  BY <2>1, <2>2, RemovedCode
<1>20. ASSUME UpdateFails(c) PROVE CodeMoves(c)
  BY <1>20, SettleFacts DEF UpdateFails
<1>21. ASSUME SignInReturns(c) PROVE CodeMoves(c)
  BY <1>21 DEF SignInReturns
<1>22. ASSUME LinkReturns(c) PROVE CodeMoves(c)
  BY <1>22 DEF LinkReturns
<1>23. ASSUME FindOAuthAccount(c) PROVE CodeMoves(c)
  BY <1>23 DEF FindOAuthAccount
<1>24. ASSUME FindUserByEmail(c) PROVE CodeMoves(c)
  BY <1>24 DEF FindUserByEmail
<1>25. ASSUME CreateOAuthUser(c) PROVE CodeMoves(c)
  BY <1>25, CreateFacts DEF CreateOAuthUser
<1>26. ASSUME LinkVerifies(c) PROVE CodeMoves(c)
  BY <1>26 DEF LinkVerifies
<1>27. ASSUME LinkCreates(c) PROVE CodeMoves(c)
  BY <1>27 DEF LinkCreates
<1>28. ASSUME CheckRemaining(c) PROVE CodeMoves(c)
  BY <1>28 DEF CheckRemaining
<1>29. ASSUME Unlink(c) PROVE CodeMoves(c)
  BY <1>29 DEF Unlink
<1>30. ASSUME PutObject(c) PROVE CodeMoves(c)
  BY <1>30 DEF PutObject
<1>31. ASSUME ReadOld(c) PROVE CodeMoves(c)
  BY <1>31 DEF ReadOld
<1>32. ASSUME DeleteOld(c) PROVE CodeMoves(c)
  BY <1>32 DEF DeleteOld
<1>33. ASSUME UpdateAvatar(c) PROVE CodeMoves(c)
  BY <1>33 DEF UpdateAvatar
<1>34. ASSUME UpdateUserProfile(c) PROVE CodeMoves(c)
  BY <1>34 DEF UpdateUserProfile
<1>35. ASSUME CountProjects(c) PROVE CodeMoves(c)
  BY <1>35, CallersOf DEF CountProjects, Saves
<1>36. ASSUME Throws(c) PROVE CodeMoves(c)
  BY <1>36 DEF Throws
<1>37. ASSUME Expire(c) PROVE CodeMoves(c)
  BY <1>37 DEF Expire
<1>38. ASSUME FindToken(c) PROVE CodeMoves(c)
  BY <1>38 DEF FindToken
<1>39. ASSUME RevokeTokenFamily(c) PROVE CodeMoves(c)
  BY <1>39 DEF RevokeTokenFamily
<1>40. ASSUME RevokeRefreshToken(c) PROVE CodeMoves(c)
  BY <1>40 DEF RevokeRefreshToken
<1> QED
  BY <1>1, <1>2, <1>3, <1>4, <1>5, <1>6, <1>7, <1>8, <1>9, <1>10, <1>11, <1>12, <1>13, <1>14, <1>15, <1>16, <1>17, <1>18, <1>19, <1>20,
     <1>21, <1>22, <1>23, <1>24, <1>25, <1>26, <1>27, <1>28, <1>29, <1>30, <1>31, <1>32, <1>33, <1>34, <1>35, <1>36, <1>37, <1>38, <1>39, <1>40 DEF Act, Handler

LEMMA CodeStep ==
    ASSUME AccountInv, CodeInv, NEW c \in Calls, Act(c)
    PROVE  CodeInv'
<1> USE DEF AccountInv, AccountTypes, CallTypes
<1>1. Moves(c) /\ Writes(c) /\ AccountInv' /\ CodeMoves(c)
  BY ActKeeps, CodesMove
<1>2. ASSUME NEW s \in Calls, op'[s] = "sendOtp", at'[s] \in {"createOtp", "mail"} \/ s \in mailed',
             NEW i \in DOMAIN codes'
      PROVE  codes'[i] \notin before'[s]
  <2>1. PICK x : x = codes'[i] /\ ((\E k \in DOMAIN codes : x = codes[k]) \/ (x = c /\ at[c] = "createOtp"))
    BY <1>1 DEF CodeMoves
  <2>2. at[s] # "none" /\ op[s] = "sendOtp" /\ before'[s] = before[s]
    <3>1. CASE s # c
      BY <1>1, <1>2, <3>1 DEF Moves, CallsOK
    <3>2. CASE s = c
      <4>1. at[c] # "none"
        BY <1>1, <1>2, <3>2 DEF Moves, Writes, HandlerOK, Ended
      <4> QED  BY <1>1, <1>2, <3>2, <4>1 DEF Moves
    <3> QED  BY <3>1, <3>2
  <2>3. codes' = <<>> \/ at[s] \in {"createOtp", "mail"} \/ s \in mailed
    BY <1>1, <1>2, <2>2 DEF CodeMoves, Moves, Writes
  <2>4. at[c] = "createOtp" => c \notin before[s]
    BY DEF HistoryOK, Ended
  <2> QED  BY <1>2, <2>1, <2>2, <2>3, <2>4 DEF CodeInv
<1>3. ASSUME NEW d \in Calls, NEW s \in Calls, op'[d] = "confirmOtp", at'[d] \in {"updates", "ok"},
             op'[s] = "sendOtp", s \in mailed', s \in before'[d]
      PROVE  arg'[d] \notin before'[s]
  <2>1. at[d] # "none" /\ op[d] = "confirmOtp" /\ before'[d] = before[d] /\ arg'[d] = arg[d]
    <3>1. CASE d # c
      BY <1>1, <1>3, <3>1 DEF Moves, CallsOK
    <3>2. CASE d = c
      <4>1. at[c] # "none"
        BY <1>1, <1>3, <3>2 DEF Moves
      <4> QED  BY <1>1, <1>3, <3>2, <4>1 DEF Moves
    <3> QED  BY <3>1, <3>2
  <2>2. at[s] \in Ended
    BY <1>3, <2>1 DEF HistoryOK
  <2>3. op[s] = "sendOtp" /\ s \in mailed /\ before'[s] = before[s]
    BY <1>1, <1>3, <2>2 DEF Moves, Writes, Ended
  <2>4. CASE at[d] \in {"updates", "ok"}
    BY <1>3, <2>1, <2>3, <2>4 DEF CodeInv
  <2>5. CASE d = c /\ \E i \in DOMAIN codes : codes[i] = arg[c]
    BY <2>1, <2>3, <2>5 DEF CodeInv
  <2> QED  BY <1>1, <1>3, <2>1, <2>4, <2>5 DEF CodeMoves, Moves
<1> QED  BY <1>2, <1>3 DEF CodeInv

\* A code that a later answered send superseded verifies nobody
\* (auth.service.ts:166), for any number of requests, in any order.
THEOREM SupersededCodesAreRefused == Spec => []SupersededCodeIsRefused
<1>1. Init => CodeInv
  BY DEF Init, CodeInv
<1>2. AccountInv /\ CodeInv /\ [Next]_vars => CodeInv'
  <2>1. ASSUME CodeInv, UNCHANGED vars PROVE CodeInv'
    BY <2>1 DEF vars, CodeInv
  <2> QED  BY <2>1, NextActs, CodeStep
<1>3. AccountInv /\ CodeInv => SupersededCodeIsRefused
  BY DEF CodeInv, SupersededCodeIsRefused, Successful
<1> QED  BY <1>1, <1>2, <1>3, AccountInvariant, PTL DEF Spec

-----------------------------------------------------------------------------
(* Resets.                                                                  *)

\* A token comes of the request that issues it, and stays revoked; of a refresh, when
\* the one it carries was not revoked.  A login is of the password in the row, a
\* reset of a link not used; the old password never comes back.
ResetMoves(c) ==
    /\ \A d \in Calls \cup {Before} :
          /\ session'[d] = "live" => session[d] = "live" \/ (d = c /\ at[c] = "issue")
          /\ session[d] # "none" => session'[d] # "none"
          /\ session'[d] # "none" => session[d] # "none" \/ (d = c /\ at[c] = "issue" /\ at'[c] = "ok")
    /\ op[c] = "refresh" /\ at'[c] \in {"revokeOld", "issue"} =>
          at[c] \in {"revokeOld", "issue"} \/ session[arg[c]] # "revoked"
    /\ user'.password = Before => user.password = Before
    /\ op[c] = "login" /\ at'[c] \in {"issue", "ok"} =>
          at[c] \in {"issue", "ok"} \/ user.password = arg[c]
    /\ op[c] = "reset" /\ at'[c] \in {"updates", "ok"} =>
          \/ at[c] \in {"updates", "ok"}
          \/ links[arg[c]] = "unused" /\ pending'[c] = {"password", "markUsed", "revokeAll"}
    /\ op[c] = "reset" /\ at[c] = "updates" =>
          /\ failed[c] => failed'[c]
          /\ "revokeAll" \in pending[c] \ pending'[c] /\ ~failed'[c] =>
                \A d \in Calls \cup {Before} : session'[d] # "live"
          /\ "password" \in pending[c] \ pending'[c] /\ ~failed'[c] => user'.password # Before
          /\ "markUsed" \in pending[c] \ pending'[c] /\ ~failed'[c] => links'[arg[c]] = "used"

LEMMA ResetsMove ==
    ASSUME AccountInv, NEW c \in Calls, Act(c)
    PROVE  ResetMoves(c)
<1>0. at[c] = "updates" => op[c] \notin {"login", "refresh"}
  BY CallersOf
<1> USE AccountAssumption DEF AccountInv, AccountTypes, RowTypes, CallTypes, ResetMoves, At, Step
<1>1. ASSUME NEW o \in Op, Begin(c, o) PROVE ResetMoves(c)
  BY <1>1 DEF Begin, FirstCall, Op, Saves
<1>2. ASSUME RegisterFindsUser(c) PROVE ResetMoves(c)
  BY <1>2 DEF RegisterFindsUser
<1>3. ASSUME CreateUser(c) PROVE ResetMoves(c)
  <2>1. op[c] = "register" /\ session' = session /\ (user' = user \/ user'.password = c)
    BY <1>3, CreateFacts DEF CreateUser
  <2> QED  BY <2>1
<1>4. ASSUME VerifyPassword(c) PROVE ResetMoves(c)
  BY <1>4 DEF VerifyPassword
<1>5. ASSUME IssueTokenPair(c) PROVE ResetMoves(c)
  BY <1>5, CallersOf DEF IssueTokenPair
<1>6. ASSUME SendFindsUser(c) PROVE ResetMoves(c)
  BY <1>6 DEF SendFindsUser
<1>7. ASSUME DeleteOtps(c) PROVE ResetMoves(c)
  BY <1>7 DEF DeleteOtps
<1>8. ASSUME CreateOtp(c) PROVE ResetMoves(c)
  BY <1>8 DEF CreateOtp
<1>9. ASSUME SendMail(c) PROVE ResetMoves(c)
  BY <1>9, CallersOf DEF SendMail
<1>10. ASSUME FindOtp(c) PROVE ResetMoves(c)
  BY <1>10 DEF FindOtp
<1>11. ASSUME ForgotFindsUser(c) PROVE ResetMoves(c)
  BY <1>11 DEF ForgotFindsUser
<1>12. ASSUME DeleteLinks(c) PROVE ResetMoves(c)
  BY <1>12 DEF DeleteLinks
<1>13. ASSUME CreateLink(c) PROVE ResetMoves(c)
  BY <1>13 DEF CreateLink
<1>14. ASSUME FindLink(c) PROVE ResetMoves(c)
  BY <1>14 DEF FindLink
<1>15. ASSUME UpdateUserPassword(c) PROVE ResetMoves(c)
  <2>1. Settle(c, "password", FALSE) /\ user' = [user EXCEPT !.password = c] /\ session' = session
    BY <1>15 DEF UpdateUserPassword
  <2>2. at[c] = "updates" /\ op[c] \notin {"login", "refresh"} /\ pending'[c] = pending[c] \ {"password"} /\ (failed[c] => failed'[c])
    <3>1. at[c] = "updates"
      BY <2>1, SettleFacts
    <3>2. op[c] \notin {"login", "refresh"}
      BY <3>1, <1>0
    <3> QED  BY <2>1, <3>1, <3>2, SettleFacts
  <2> QED  BY <2>1, <2>2 DEF UserType
<1>16. ASSUME RevokeAllUserTokens(c) PROVE ResetMoves(c)
  <2>1. Settle(c, "revokeAll", FALSE) /\ user' = user
        /\ session' = [d \in DOMAIN session |->
                          IF d \in DOMAIN session /\ session[d] = "live" THEN "revoked" ELSE session[d]]
    BY <1>16 DEF RevokeAllUserTokens, Revoke
  <2>2. at[c] = "updates" /\ op[c] \notin {"login", "refresh"} /\ pending'[c] = pending[c] \ {"revokeAll"} /\ (failed[c] => failed'[c])
    <3>1. at[c] = "updates"
      BY <2>1, SettleFacts
    <3>2. op[c] \notin {"login", "refresh"}
      BY <3>1, <1>0
    <3> QED  BY <2>1, <3>1, <3>2, SettleFacts
  <2> QED  BY <2>1, <2>2 DEF UserType
<1>17. ASSUME MarkEmailVerified(c) PROVE ResetMoves(c)
  <2>1. Settle(c, "verified", FALSE) /\ user' = [user EXCEPT !.verified = TRUE] /\ session' = session
    BY <1>17 DEF MarkEmailVerified
  <2>2. at[c] = "updates" /\ op[c] \notin {"login", "refresh"} /\ pending'[c] = pending[c] \ {"verified"} /\ (failed[c] => failed'[c])
    <3>1. at[c] = "updates"
      BY <2>1, SettleFacts
    <3>2. op[c] \notin {"login", "refresh"}
      BY <3>1, <1>0
    <3> QED  BY <2>1, <3>1, <3>2, SettleFacts
  <2> QED  BY <2>1, <2>2 DEF UserType
<1>18. ASSUME MarkLinkUsed(c) PROVE ResetMoves(c)
  <2>1. /\ Settle(c, "markUsed", links[arg[c]] = "deleted") /\ user' = user /\ session' = session
        /\ links' = [links EXCEPT ![arg[c]] = IF @ = "deleted" THEN @ ELSE "used"]
    BY <1>18 DEF MarkLinkUsed
  <2>2. /\ at[c] = "updates" /\ op[c] \notin {"login", "refresh"} /\ pending'[c] = pending[c] \ {"markUsed"}
        /\ failed'[c] = (failed[c] \/ links[arg[c]] = "deleted")
    <3>1. at[c] = "updates"
      BY <2>1, SettleFacts
    <3>2. op[c] \notin {"login", "refresh"}
      BY <3>1, <1>0
    <3> QED  BY <2>1, <3>1, <3>2 DEF Settle
  <2>3. op[c] = "reset" => arg[c] \in Calls
    BY DEF HandlerOK
  <2> QED  BY <2>1, <2>2, <2>3
<1>19. ASSUME MarkOtpUsed(c) PROVE ResetMoves(c)
  BY <1>19, SettleFacts DEF MarkOtpUsed
<1>20. ASSUME UpdateFails(c) PROVE ResetMoves(c)
  BY <1>20, SettleFacts DEF UpdateFails
<1>21. ASSUME SignInReturns(c) PROVE ResetMoves(c)
  BY <1>21 DEF SignInReturns
<1>22. ASSUME LinkReturns(c) PROVE ResetMoves(c)
  BY <1>22 DEF LinkReturns
<1>23. ASSUME FindOAuthAccount(c) PROVE ResetMoves(c)
  BY <1>23 DEF FindOAuthAccount
<1>24. ASSUME FindUserByEmail(c) PROVE ResetMoves(c)
  BY <1>24 DEF FindUserByEmail
<1>25. ASSUME CreateOAuthUser(c) PROVE ResetMoves(c)
  BY <1>25, CreateFacts DEF CreateOAuthUser
<1>26. ASSUME LinkVerifies(c) PROVE ResetMoves(c)
  BY <1>26 DEF LinkVerifies
<1>27. ASSUME LinkCreates(c) PROVE ResetMoves(c)
  BY <1>27 DEF LinkCreates
<1>28. ASSUME CheckRemaining(c) PROVE ResetMoves(c)
  BY <1>28 DEF CheckRemaining
<1>29. ASSUME Unlink(c) PROVE ResetMoves(c)
  BY <1>29 DEF Unlink
<1>30. ASSUME PutObject(c) PROVE ResetMoves(c)
  BY <1>30 DEF PutObject
<1>31. ASSUME ReadOld(c) PROVE ResetMoves(c)
  BY <1>31 DEF ReadOld
<1>32. ASSUME DeleteOld(c) PROVE ResetMoves(c)
  BY <1>32 DEF DeleteOld
<1>33. ASSUME UpdateAvatar(c) PROVE ResetMoves(c)
  BY <1>33 DEF UpdateAvatar
<1>34. ASSUME UpdateUserProfile(c) PROVE ResetMoves(c)
  BY <1>34 DEF UpdateUserProfile
<1>35. ASSUME CountProjects(c) PROVE ResetMoves(c)
  BY <1>35, CallersOf DEF CountProjects, Saves
<1>36. ASSUME Throws(c) PROVE ResetMoves(c)
  BY <1>36 DEF Throws
<1>37. ASSUME Expire(c) PROVE ResetMoves(c)
  BY <1>37 DEF Expire
<1>38. ASSUME FindToken(c) PROVE ResetMoves(c)
  BY <1>38 DEF FindToken
<1>39. ASSUME RevokeTokenFamily(c) PROVE ResetMoves(c)
  BY <1>39 DEF RevokeTokenFamily, Revoke
<1>40. ASSUME RevokeRefreshToken(c) PROVE ResetMoves(c)
  BY <1>40 DEF RevokeRefreshToken, Revoke
<1> QED
  BY <1>1, <1>2, <1>3, <1>4, <1>5, <1>6, <1>7, <1>8, <1>9, <1>10, <1>11, <1>12, <1>13, <1>14, <1>15, <1>16, <1>17, <1>18, <1>19, <1>20,
     <1>21, <1>22, <1>23, <1>24, <1>25, <1>26, <1>27, <1>28, <1>29, <1>30, <1>31, <1>32, <1>33, <1>34, <1>35, <1>36, <1>37, <1>38, <1>39, <1>40 DEF Act, Handler

LEMMA FamilyStep ==
    ASSUME AccountInv, FamilyInv, NEW c \in Calls, Act(c)
    PROVE  FamilyInv'
<1> USE AccountAssumption DEF AccountInv, AccountTypes, RowTypes, CallTypes
<1>1. Moves(c) /\ AccountInv' /\ ResetMoves(c)
  BY ActKeeps, ResetsMove
<1>2. family'[Before] = Before
  BY <1>1 DEF Moves, FamilyInv
<1>3. ASSUME NEW d \in Calls, session'[d] # "none" PROVE at'[d] \in Ended
  <2>1. CASE session[d] # "none"
    BY <1>1, <2>1 DEF Moves, FamilyInv
  <2>2. CASE d = c /\ at'[c] = "ok"
    BY <2>2 DEF Ended
  <2> QED  BY <1>1, <1>3, <2>1, <2>2 DEF ResetMoves
\* A token that was issued keeps its family.
<1>4. ASSUME NEW t \in Calls \cup {Before}, session[t] # "none"
      PROVE  session'[t] # "none" /\ family'[t] = family[t]
  BY <1>1, <1>4 DEF Moves, ResetMoves, FamilyInv, Ended
<1>5. ASSUME NEW d \in Calls, at[d] # "none" \/ d # c
      PROVE  /\ op'[d] # "refresh" => family'[d] = d
             /\ op'[d] = "refresh" => /\ arg'[d] \in Calls \cup {Before} /\ session'[arg'[d]] # "none"
                                      /\ family'[d] = family'[arg'[d]]
  <2>1. op'[d] = op[d] /\ family'[d] = family[d] /\ (op[d] = "refresh" => arg'[d] = arg[d])
    BY <1>1, <1>5 DEF Moves
  <2> QED  BY <1>4, <2>1 DEF FamilyInv
<1>6. CASE at[c] # "none"
  BY <1>2, <1>3, <1>5, <1>6 DEF FamilyInv
<1>7. CASE \E o \in Op : Begin(c, o)
  <2>1. PICK o \in Op : Begin(c, o)
    BY <1>7
  <2>2. at[c] = "none" /\ op'[c] = o /\ arg'[c] \in Carried(c, o)
    BY <2>1 DEF Begin
  <2>3. family'[c] = IF o = "refresh" THEN family[arg'[c]] ELSE c
    BY <2>1 DEF Begin
  <2>4. o = "refresh" => /\ arg'[c] \in Calls \cup {Before} /\ session[arg'[c]] # "none"
    <3>1. o = "refresh" => Carried(c, o) = {t \in DOMAIN session : session[t] # "none"}
      BY DEF Carried, Saves
    <3> QED  BY <2>2, <3>1
  <2> QED  BY <1>2, <1>3, <1>4, <1>5, <2>2, <2>3, <2>4 DEF FamilyInv
<1>8. CASE at[c] = "none" /\ ~\E o \in Op : Begin(c, o)
  <2>1. Expire(c)
    BY <1>8, HandlerRuns DEF Act, Running, Throws
  <2> QED  BY <2>1 DEF Expire, FamilyInv
<1> QED  BY <1>6, <1>7, <1>8

LEMMA ResetStep ==
    ASSUME AccountInv, FamilyInv, ResetInv, NEW c \in Calls, Act(c)
    PROVE  ResetInv'
<1> USE AccountAssumption DEF AccountInv, AccountTypes, RowTypes, CallTypes
<1>1. Moves(c) /\ Writes(c) /\ AccountInv' /\ ResetMoves(c)
  BY ActKeeps, ResetsMove
<1>2. ASSUME NEW d \in Calls, at'[d] \in {"issue", "updates", "ok"}
      PROVE  at[d] # "none" /\ op'[d] = op[d] /\ before'[d] = before[d] /\ (op[d] # "avatar" => arg'[d] = arg[d])
  BY <1>1, <1>2 DEF Moves, CallsOK
<1>3. ASSUME NEW d \in Calls, NEW u, u \in {"revokeAll", "password", "markUsed"}, Did(d, u)'
      PROVE  /\ op[d] = "reset" /\ arg'[d] = arg[d] /\ before'[d] = before[d] /\ arg[d] \in Calls
             /\ \/ Did(d, u)
                \/ d = c /\ at[c] = "updates" /\ u \in pending[c] \ pending'[c] /\ ~failed'[c]
  <2>1. /\ op'[d] = "reset" /\ at'[d] \in {"updates", "ok"} /\ ~failed'[d] /\ u \notin pending'[d]
    BY <1>3 DEF Did
  <2>2. op[d] = "reset" /\ arg'[d] = arg[d] /\ before'[d] = before[d] /\ at[d] # "none"
    BY <1>2, <2>1
  <2>3. arg[d] \in Calls
    BY <2>2 DEF HandlerOK
  <2>4. CASE d # c
    BY <1>1, <2>1, <2>2, <2>3, <2>4 DEF Moves, Did
  <2>5. CASE d = c
    <3>1. at[c] \in {"updates", "ok"}
      BY <1>1, <1>3, <2>1, <2>2, <2>5 DEF ResetMoves
    <3>2. CASE at[c] = "ok"
      BY <2>2, <2>3, <2>5, <3>2 DEF HandlerOK, Did
    <3>3. CASE at[c] = "updates"
      BY <1>1, <2>1, <2>2, <2>3, <2>5, <3>3 DEF ResetMoves, Did
    <3> QED  BY <3>1, <3>2, <3>3
  <2> QED  BY <2>4, <2>5
<1>4. ASSUME NEW d \in Calls, Did(d, "revokeAll")'
      PROVE  session'[Before] # "live" /\ \A e \in before'[d] : session'[e] # "live"
  <2>1. CASE Did(d, "revokeAll")
    <3>1. \A e \in before[d] : e \in Calls /\ at[e] # "issue"
      BY DEF HistoryOK, Ended
    <3> QED  BY <1>1, <1>3, <1>4, <2>1, <3>1 DEF ResetInv, ResetMoves
  <2>2. CASE d = c /\ at[c] = "updates" /\ "revokeAll" \in pending[c] \ pending'[c] /\ ~failed'[c]
    BY <1>1, <1>3, <1>4, <2>2 DEF ResetMoves
  <2> QED  BY <1>3, <1>4, <2>1, <2>2
<1>5. ASSUME NEW d \in Calls, Did(d, "password")' PROVE user'.password # Before
  BY <1>1, <1>3, <1>5 DEF ResetInv, ResetMoves
<1>6. ASSUME NEW d \in Calls, Did(d, "markUsed")' PROVE links'[arg'[d]] = "used"
  BY <1>1, <1>3, <1>6 DEF ResetInv, ResetMoves, Writes
<1>7. ASSUME NEW d \in Calls, NEW e \in before'[d], Successful(e, "reset")'
      PROVE  /\ op'[d] = "login" /\ at'[d] \in {"issue", "ok"} => arg'[d] # Before
             /\ op'[d] = "reset" /\ at'[d] \in {"updates", "ok"} => arg'[d] # arg'[e]
  <2>1. SUFFICES ASSUME \/ op'[d] = "login" /\ at'[d] \in {"issue", "ok"}
                        \/ op'[d] = "reset" /\ at'[d] \in {"updates", "ok"}
                 PROVE  /\ op'[d] = "login" => arg'[d] # Before
                        /\ op'[d] = "reset" => arg'[d] # arg'[e]
    OBVIOUS
  <2>2. at[d] # "none" /\ op'[d] = op[d] /\ before'[d] = before[d] /\ arg'[d] = arg[d]
    BY <1>2, <2>1
  <2>3. e \in Calls /\ at[e] \in Ended /\ e \in before[d]
    BY <1>7, <2>2 DEF HistoryOK
  <2>4. Successful(e, "reset") /\ arg'[e] = arg[e]
    BY <1>1, <1>7, <2>3 DEF Moves, Successful, Ended
  <2>5. Did(e, "password") /\ Did(e, "markUsed")
    BY <2>3, <2>4 DEF Did, Successful, HandlerOK
  <2>6. user.password # Before /\ links[arg[e]] = "used"
    BY <2>3, <2>5 DEF ResetInv
  <2>7. CASE at'[d] = at[d]
    BY <2>1, <2>2, <2>3, <2>4, <2>7 DEF ResetInv
  <2>8. CASE at'[d] # at[d]
    <3>1. d = c
      BY <1>1, <2>8 DEF Moves
    <3>2. CASE op[d] = "login"
      BY <1>1, <2>1, <2>2, <2>3, <2>4, <2>6, <3>1, <3>2 DEF ResetMoves, ResetInv
    <3>3. CASE op[d] = "reset"
      BY <1>1, <2>1, <2>2, <2>3, <2>4, <2>6, <3>1, <3>3 DEF ResetMoves, ResetInv
    <3> QED  BY <2>1, <2>2, <3>2, <3>3
  <2> QED  BY <2>7, <2>8
<1>8. ASSUME NEW d \in Calls, NEW e \in Calls, Did(d, "revokeAll")',
             family'[e] \in {Before} \cup before'[d], session'[e] = "live" \/ Admitted(e)'
      PROVE  Explained(d, e)'
  \* Its request had begun, and not after an issue of its own family.
  <2>1. at[e] # "none" /\ op'[e] = op[e] /\ family'[e] = family[e] /\ before'[d] = before[d]
    <3>1. at[e] # "none"
      <4>1. CASE session'[e] = "live"
        BY <1>1, <4>1 DEF ResetMoves, FamilyInv, Ended
      <4>2. CASE Admitted(e)'
        BY <1>1, <4>2 DEF Admitted, Moves, CallsOK
      <4> QED  BY <1>8, <4>1, <4>2
    <3> QED  BY <1>1, <1>3, <1>8, <3>1 DEF Moves
  <2>2. ASSUME NEW x \in overlap[d], op[x] = "refresh", family[x] = family[e]
        PROVE  Explained(d, e)'
    <3>1. at[x] # "none" /\ x \in overlap'[d]
      BY <1>1, <1>3, <1>8, <2>2 DEF CallsOK, Moves, Did
    <3>2. op'[x] = "refresh" /\ family'[x] = family'[e]
      BY <1>1, <2>1, <2>2, <3>1 DEF Moves
    <3> QED  BY <3>1, <3>2 DEF Explained
  <2>3. CASE Did(d, "revokeAll")
    <3>1. ASSUME session[e] = "live" \/ Admitted(e) PROVE Explained(d, e)'
      <4>1. Explained(d, e)
        BY <1>8, <2>1, <2>3, <3>1 DEF ResetInv
      <4> QED  BY <2>2, <4>1 DEF Explained
    <3>2. CASE session'[e] = "live" /\ session[e] # "live"
      <4>1. e = c /\ at[c] = "issue"
        BY <1>1, <3>2 DEF ResetMoves
      <4>2. CASE op[e] = "refresh"
        BY <3>1, <4>1, <4>2 DEF Admitted
      <4>3. CASE op[e] # "refresh"
        <5>1. family[e] = e /\ e \in before[d]
          BY <1>8, <2>1, <4>3 DEF FamilyInv
        <5> QED  BY <4>1, <5>1 DEF HistoryOK, Ended
      <4> QED  BY <4>2, <4>3
    <3>3. CASE Admitted(e)' /\ ~Admitted(e)
      <4>1. e = c /\ op[c] = "refresh" /\ session[arg[c]] # "revoked"
        <5>1. op[e] = "refresh" /\ at'[e] \in {"revokeOld", "issue"}
          BY <2>1, <3>3 DEF Admitted
        <5>2. e = c
          BY <1>1, <3>3, <5>1 DEF Admitted, Moves
        <5> QED  BY <1>1, <3>3, <5>1, <5>2 DEF Admitted, ResetMoves
      <4>2. /\ arg[c] \in Calls \cup {Before} /\ session[arg[c]] = "live"
            /\ family[e] = family[arg[c]]
        BY <4>1 DEF FamilyInv
      <4>3. arg[c] # Before
        BY <2>3, <4>2 DEF ResetInv
      <4>4. arg[c] \in Calls /\ family[arg[c]] \in {Before} \cup before[d]
        BY <1>8, <2>1, <4>2, <4>3
      <4>5. Explained(d, arg[c])
        BY <2>3, <4>2, <4>4 DEF ResetInv
      <4> QED  BY <2>2, <4>2, <4>5 DEF Explained
    <3> QED  BY <1>8, <3>1, <3>2, <3>3
  \* The reset has just revoked all: what is left is a refresh under way beside it.
  <2>4. CASE d = c /\ at[c] = "updates" /\ "revokeAll" \in pending[c] \ pending'[c] /\ ~failed'[c]
    <3>1. op[d] = "reset" /\ session'[e] # "live"
      BY <1>1, <1>3, <1>8, <2>4 DEF ResetMoves
    <3>2. op[e] = "refresh" /\ at'[e] \in {"revokeOld", "issue"}
      BY <1>8, <2>1, <3>1 DEF Admitted
    <3>3. e # c /\ at[e] = at'[e]
      BY <1>1, <2>4, <3>1, <3>2 DEF Moves
    <3>4. Running(c) /\ Running(e)
      BY <2>4, <3>2, <3>3 DEF Running, Ended
    <3>5. e \in overlap[d]
      BY <2>4, <3>3, <3>4 DEF HistoryOK
    <3> QED  BY <2>2, <3>2, <3>5
  <2> QED  BY <1>3, <1>8, <2>3, <2>4
<1> QED  BY <1>4, <1>5, <1>6, <1>7, <1>8, Zenon DEF ResetInv

\* A reset ends the older sessions, but for one whose refresh was under way beside it,
\* the old password and its own link (auth.service.ts:233-240), whatever requests run
\* beside it, whatever comes after it, and whichever of its updates fail.
THEOREM ResetsAreFinal == Spec => []ResetIsFinal
<1>1. Init => ResetInv /\ FamilyInv
  <2>1. Init => ResetInv
    BY DEF Init, ResetInv, Did, Successful
  <2>2. Init => FamilyInv
    BY AccountAssumption DEF Init, FamilyInv
  <2> QED  BY <2>1, <2>2
<1>2. AccountInv /\ FamilyInv /\ ResetInv /\ [Next]_vars => ResetInv' /\ FamilyInv'
  <2>1. ASSUME ResetInv, FamilyInv, UNCHANGED vars PROVE ResetInv' /\ FamilyInv'
    BY <2>1 DEF vars, ResetInv, FamilyInv, Did, Admitted, Explained, Successful
  <2> QED  BY <2>1, NextActs, ResetStep, FamilyStep
<1>3. AccountInv /\ ResetInv => ResetIsFinal
  <2>1. SUFFICES ASSUME AccountInv, ResetInv, NEW c \in Calls, Successful(c, "reset")
                 PROVE  /\ session[Before] # "live"
                        /\ \A d \in before[c] : session[d] # "live"
                        /\ \A d \in Calls :
                              session[d] = "live" /\ family[d] \in {Before} \cup before[c] =>
                                 \E e \in overlap[c] : op[e] = "refresh" /\ family[e] = family[d]
                        /\ \A d \in Calls : c \in before[d] =>
                              /\ Successful(d, "login") => arg[d] # Before
                              /\ Successful(d, "reset") => arg[d] # arg[c]
    BY DEF ResetIsFinal
  <2>2. Did(c, "revokeAll")
    BY <2>1 DEF AccountInv, HandlerOK, Did, Successful
  <2> QED  BY <2>1, <2>2 DEF ResetInv, Explained, Successful
<1> QED  BY <1>1, <1>2, <1>3, AccountInvariant, PTL DEF Spec

-----------------------------------------------------------------------------
(* Unlinks.                                                                 *)

\* A row keeps its password; only an unlink removes an account, after it has seen
\* another way in; a sign-up that makes a row goes on to link it.
UnlinkMoves(c) ==
    /\ user.exists /\ user'.password = "null" => user.password = "null"
    /\ \/ linked \subseteq linked'
       \/ At(c, "unlink", "delete") /\ linked' = linked \ {arg[c]} /\ at'[c] = "ok"
    /\ op[c] = "unlink" /\ at'[c] = "delete" =>
          \/ at[c] = "delete"
          \/ linked' = linked /\ (user.password = "null" => linked \ {arg[c]} # {})
    /\ ~user.exists /\ user'.exists /\ user'.password = "null" => op[c] = "oauth" /\ at'[c] = "verify"
    /\ op[c] = "oauth" /\ at[c] \in {"verify", "createAccount", "error"} =>
          at'[c] \in {"verify", "createAccount", "error"} \/ linked' # {}

LEMMA UnlinksMove ==
    ASSUME AccountInv, NEW c \in Calls, Act(c)
    PROVE  UnlinkMoves(c)
<1>0. at[c] = "updates" => op[c] \notin {"unlink", "oauth"}
  BY CallersOf
<1> USE AccountAssumption DEF AccountInv, AccountTypes, RowTypes, CallTypes, UserType, UnlinkMoves, At, Step
<1>1. ASSUME NEW o \in Op, Begin(c, o) PROVE UnlinkMoves(c)
  BY <1>1 DEF Begin, FirstCall, Op, Saves
<1>2. ASSUME RegisterFindsUser(c) PROVE UnlinkMoves(c)
  BY <1>2 DEF RegisterFindsUser
<1>3. ASSUME CreateUser(c) PROVE UnlinkMoves(c)
  <2>1. op[c] = "register" /\ linked' = linked
    BY <1>3 DEF CreateUser
  <2>2. IF user.exists THEN user' = user ELSE user'.password = c
    BY <1>3, <2>1, CreateFacts, Zenon
  <2> QED  BY <2>1, <2>2
<1>4. ASSUME VerifyPassword(c) PROVE UnlinkMoves(c)
  BY <1>4 DEF VerifyPassword
<1>5. ASSUME IssueTokenPair(c) PROVE UnlinkMoves(c)
  BY <1>5 DEF IssueTokenPair
<1>6. ASSUME SendFindsUser(c) PROVE UnlinkMoves(c)
  BY <1>6 DEF SendFindsUser
<1>7. ASSUME DeleteOtps(c) PROVE UnlinkMoves(c)
  BY <1>7 DEF DeleteOtps
<1>8. ASSUME CreateOtp(c) PROVE UnlinkMoves(c)
  BY <1>8 DEF CreateOtp
<1>9. ASSUME SendMail(c) PROVE UnlinkMoves(c)
  BY <1>9 DEF SendMail
<1>10. ASSUME FindOtp(c) PROVE UnlinkMoves(c)
  BY <1>10 DEF FindOtp
<1>11. ASSUME ForgotFindsUser(c) PROVE UnlinkMoves(c)
  BY <1>11 DEF ForgotFindsUser
<1>12. ASSUME DeleteLinks(c) PROVE UnlinkMoves(c)
  BY <1>12 DEF DeleteLinks
<1>13. ASSUME CreateLink(c) PROVE UnlinkMoves(c)
  BY <1>13 DEF CreateLink
<1>14. ASSUME FindLink(c) PROVE UnlinkMoves(c)
  BY <1>14 DEF FindLink
<1>15. ASSUME UpdateUserPassword(c) PROVE UnlinkMoves(c)
  <2>1. Settle(c, "password", FALSE) /\ user' = [user EXCEPT !.password = c] /\ linked' = linked
    BY <1>15 DEF UpdateUserPassword
  <2>2. user'.password = c /\ user'.exists = user.exists
    BY <2>1
  <2>3. at[c] = "updates"
    BY <2>1, SettleFacts
  <2> QED  BY <1>0, <2>1, <2>2, <2>3
<1>16. ASSUME RevokeAllUserTokens(c) PROVE UnlinkMoves(c)
  BY <1>16, SettleFacts DEF RevokeAllUserTokens
<1>17. ASSUME MarkEmailVerified(c) PROVE UnlinkMoves(c)
  BY <1>17, SettleFacts DEF MarkEmailVerified
<1>18. ASSUME MarkLinkUsed(c) PROVE UnlinkMoves(c)
  BY <1>18, SettleFacts DEF MarkLinkUsed
<1>19. ASSUME MarkOtpUsed(c) PROVE UnlinkMoves(c)
  BY <1>19, SettleFacts DEF MarkOtpUsed
<1>20. ASSUME UpdateFails(c) PROVE UnlinkMoves(c)
  BY <1>20, SettleFacts DEF UpdateFails
<1>21. ASSUME SignInReturns(c) PROVE UnlinkMoves(c)
  BY <1>21 DEF SignInReturns
<1>22. ASSUME LinkReturns(c) PROVE UnlinkMoves(c)
  BY <1>22 DEF LinkReturns
<1>23. ASSUME FindOAuthAccount(c) PROVE UnlinkMoves(c)
  BY <1>23 DEF FindOAuthAccount
<1>24. ASSUME FindUserByEmail(c) PROVE UnlinkMoves(c)
  BY <1>24 DEF FindUserByEmail
<1>25. ASSUME CreateOAuthUser(c) PROVE UnlinkMoves(c)
  BY <1>25, CreateFacts DEF CreateOAuthUser
<1>26. ASSUME LinkVerifies(c) PROVE UnlinkMoves(c)
  BY <1>26 DEF LinkVerifies
<1>27. ASSUME LinkCreates(c) PROVE UnlinkMoves(c)
  BY <1>27 DEF LinkCreates
<1>28. ASSUME CheckRemaining(c) PROVE UnlinkMoves(c)
  BY <1>28 DEF CheckRemaining
<1>29. ASSUME Unlink(c) PROVE UnlinkMoves(c)
  BY <1>29 DEF Unlink
<1>30. ASSUME PutObject(c) PROVE UnlinkMoves(c)
  BY <1>30 DEF PutObject
<1>31. ASSUME ReadOld(c) PROVE UnlinkMoves(c)
  BY <1>31 DEF ReadOld
<1>32. ASSUME DeleteOld(c) PROVE UnlinkMoves(c)
  BY <1>32 DEF DeleteOld
<1>33. ASSUME UpdateAvatar(c) PROVE UnlinkMoves(c)
  BY <1>33 DEF UpdateAvatar
<1>34. ASSUME UpdateUserProfile(c) PROVE UnlinkMoves(c)
  BY <1>34 DEF UpdateUserProfile
<1>35. ASSUME CountProjects(c) PROVE UnlinkMoves(c)
  BY <1>35 DEF CountProjects
<1>36. ASSUME Throws(c) PROVE UnlinkMoves(c)
  BY <1>36 DEF Throws
<1>37. ASSUME Expire(c) PROVE UnlinkMoves(c)
  BY <1>37 DEF Expire
<1>38. ASSUME FindToken(c) PROVE UnlinkMoves(c)
  BY <1>38 DEF FindToken
<1>39. ASSUME RevokeTokenFamily(c) PROVE UnlinkMoves(c)
  BY <1>39 DEF RevokeTokenFamily
<1>40. ASSUME RevokeRefreshToken(c) PROVE UnlinkMoves(c)
  BY <1>40 DEF RevokeRefreshToken
<1> QED
  BY <1>1, <1>2, <1>3, <1>4, <1>5, <1>6, <1>7, <1>8, <1>9, <1>10, <1>11, <1>12, <1>13, <1>14, <1>15, <1>16, <1>17, <1>18, <1>19, <1>20,
     <1>21, <1>22, <1>23, <1>24, <1>25, <1>26, <1>27, <1>28, <1>29, <1>30, <1>31, <1>32, <1>33, <1>34, <1>35, <1>36, <1>37, <1>38, <1>39, <1>40 DEF Act, Handler

LEMMA UnlinkStep ==
    ASSUME AccountInv, UnlinkInv, NEW c \in Calls, Act(c)
    PROVE  UnlinkInv'
<1> USE DEF AccountInv, AccountTypes, CallTypes
<1>1. Moves(c) /\ Writes(c) /\ AccountInv' /\ UnlinkMoves(c)
  BY ActKeeps, UnlinksMove
<1>2. ASSUME NEW d \in Calls, NEW e \in overlap[d], at[d] # "none", op[e] = "unlink"
      PROVE  e \in overlap'[d] /\ op'[e] = "unlink"
  BY <1>1, <1>2 DEF Moves, CallsOK
<1>3. LockedOutNeedsRace'
  <2>1. SUFFICES ASSUME user'.exists, user'.password = "null", linked' = {}
                 PROVE  \/ \E d, e \in Calls : /\ Successful(d, "unlink")' /\ op'[e] = "unlink"
                                               /\ e \in overlap'[d]
                        \/ \E d \in Calls : op'[d] = "oauth"
                                            /\ at'[d] \in {"verify", "createAccount", "error"}
    BY DEF LockedOutNeedsRace
  <2>2. CASE ~user.exists
    <3>1. op[c] = "oauth" /\ at'[c] = "verify" /\ at[c] # "none"
      BY <1>1, <2>1, <2>2 DEF UnlinkMoves, CallsOK
    <3> QED  BY <1>1, <3>1 DEF Moves
  <2>3. CASE user.exists /\ linked # {}
    <3>1. At(c, "unlink", "delete") /\ linked \ {arg[c]} = {} /\ at'[c] = "ok" /\ user.password = "null"
      BY <1>1, <2>1, <2>3 DEF UnlinkMoves
    <3>2. PICK e \in overlap[c] : op[e] = "unlink"
      BY <3>1 DEF UnlinkInv
    <3>3. e \in Calls /\ e \in overlap'[c] /\ op'[e] = "unlink" /\ op'[c] = "unlink"
      BY <1>1, <1>2, <3>1, <3>2 DEF At, Moves
    <3> QED  BY <3>1, <3>3 DEF Successful
  <2>4. CASE user.exists /\ linked = {}
    <3>1. user.password = "null"
      BY <1>1, <2>1, <2>4 DEF UnlinkMoves
    <3>2. CASE \E d, e \in Calls : /\ Successful(d, "unlink") /\ op[e] = "unlink" /\ e \in overlap[d]
      <4>1. PICK d \in Calls, e \in Calls : Successful(d, "unlink") /\ op[e] = "unlink" /\ e \in overlap[d]
        BY <3>2
      <4>2. Successful(d, "unlink")'
        BY <1>1, <4>1 DEF Successful, Moves, Ended
      <4> QED  BY <1>2, <4>1, <4>2 DEF Successful
    <3>3. CASE \E d \in Calls : op[d] = "oauth" /\ at[d] \in {"verify", "createAccount", "error"}
      <4>1. PICK d \in Calls : op[d] = "oauth" /\ at[d] \in {"verify", "createAccount", "error"}
        BY <3>3
      <4> QED  BY <1>1, <2>1, <4>1 DEF Moves, UnlinkMoves
    <3> QED  BY <2>4, <3>1, <3>2, <3>3 DEF UnlinkInv, LockedOutNeedsRace
  <2> QED  BY <2>2, <2>3, <2>4
<1>4. ASSUME NEW d \in Calls, At(d, "unlink", "delete")', user'.password = "null"
      PROVE  linked' \ {arg'[d]} # {} \/ \E e \in overlap'[d] : op'[e] = "unlink"
  <2>1. op[d] = "unlink" /\ arg'[d] = arg[d] /\ at[d] # "none"
    BY <1>1, <1>4 DEF Moves, At, CallsOK
  <2>2. user.exists /\ user.password = "null"
    <3>1. user.exists
      BY <2>1 DEF HandlerOK, Authenticated
    <3> QED  BY <1>1, <1>4, <3>1 DEF UnlinkMoves
  <2>3. CASE at[d] # "delete"
    BY <1>1, <1>4, <2>1, <2>2, <2>3 DEF UnlinkMoves, Moves, At
  <2>4. CASE at[d] = "delete"
    <3>1. CASE \E e \in overlap[d] : op[e] = "unlink"
      BY <1>2, <2>1, <3>1
    <3>2. CASE linked \ {arg[d]} # {}
      <4>1. CASE linked \subseteq linked'
        BY <2>1, <3>2, <4>1
      <4>2. CASE At(c, "unlink", "delete") /\ at'[c] = "ok"
        <5>1. c # d /\ Running(c) /\ Running(d)
          BY <1>4, <2>4, <4>2 DEF At, Running, Ended
        <5>2. c \in overlap[d]
          BY <5>1 DEF HistoryOK
        <5> QED  BY <1>2, <2>1, <4>2, <5>2 DEF At
      <4> QED  BY <1>1, <4>1, <4>2 DEF UnlinkMoves
    <3> QED  BY <2>1, <2>2, <2>4, <3>1, <3>2 DEF UnlinkInv, At
  <2> QED  BY <2>3, <2>4
<1> QED  BY <1>3, <1>4 DEF UnlinkInv

\* However requests overlap and fail, an account without a way in was left by two
\* unlinks under way at once, or by a sign-up that has not linked it.
THEOREM LockedOutAfterRace == Spec => []LockedOutNeedsRace
<1>1. Init => UnlinkInv
  <2> SUFFICES ASSUME Init PROVE UnlinkInv
    OBVIOUS
  <2>1. user.exists /\ user.password = "null" => linked # {}
    <3>1. ~NoUser.exists /\ WithPassword.password = Before
      BY DEF NoUser, WithPassword
    <3> QED  BY <3>1, AccountAssumption DEF Init
  <2> QED  BY <2>1 DEF Init, UnlinkInv, LockedOutNeedsRace, At
<1>2. AccountInv /\ UnlinkInv /\ [Next]_vars => UnlinkInv'
  <2>1. ASSUME UnlinkInv, UNCHANGED vars PROVE UnlinkInv'
    BY <2>1 DEF vars, UnlinkInv, LockedOutNeedsRace, Successful, At
  <2> QED  BY <2>1, NextActs, UnlinkStep
<1>3. UnlinkInv => LockedOutNeedsRace
  BY DEF UnlinkInv
<1> QED  BY <1>1, <1>2, <1>3, AccountInvariant, PTL DEF Spec

-----------------------------------------------------------------------------
(* Avatars.                                                                 *)

\* Who is between the upload and the update of the row.
Uploading == {"readOld", "deleteOld", "update"}

\* The row gets the avatar of an upload that has ended; what is deleted was read from
\* the row, and what is read was in it.
UploadMoves(c) ==
    /\ \/ user'.avatar = user.avatar \/ user'.avatar = "null"
       \/ At(c, "avatar", "update") /\ user'.avatar = c /\ at'[c] = "ok" /\ objects' = objects
    /\ \/ objects \subseteq objects'
       \/ /\ At(c, "avatar", "deleteOld") /\ objects' = objects \ {arg[c]}
          /\ at'[c] = "update" /\ arg'[c] = arg[c] /\ user' = user
    /\ op[c] = "none" /\ op'[c] = "avatar" => arg'[c] = "null" /\ at'[c] = "put"
    /\ op[c] = "avatar" =>
          /\ at'[c] \in Uploading => at[c] \in Uploading \/ c \in objects'
          /\ arg'[c] = arg[c] \/ (arg'[c] = user.avatar /\ at[c] = "readOld")
          /\ at[c] \in {"update", "error"} =>
                at'[c] \in {"update", "error"} \/ (user'.avatar = c /\ at[c] = "update")

LEMMA UploadsMove ==
    ASSUME AccountInv, NEW c \in Calls, Act(c)
    PROVE  UploadMoves(c)
<1>0. at[c] \in {"updates", "issue", "count", "mail"} => op[c] # "avatar"
  BY CallersOf DEF Saves
<1> USE DEF AccountInv, AccountTypes, RowTypes, CallTypes, UserType, UploadMoves, Uploading, At, Step
<1>1. ASSUME NEW o \in Op, Begin(c, o) PROVE UploadMoves(c)
  <2>1. at[c] = "none" /\ op[c] = "none" /\ user' = user /\ objects' = objects
    BY <1>1 DEF Begin, CallsOK
  <2>2. op'[c] = "avatar" => at'[c] = "put" /\ arg'[c] = "null"
    BY <1>1 DEF Begin, FirstCall, Carried, Saves
  <2> QED  BY <2>1, <2>2
<1>2. ASSUME RegisterFindsUser(c) PROVE UploadMoves(c)
  BY <1>2 DEF RegisterFindsUser
<1>3. ASSUME CreateUser(c) PROVE UploadMoves(c)
  <2>1. op[c] = "register" /\ op' = op /\ objects' = objects
    BY <1>3 DEF CreateUser
  <2>2. IF user.exists THEN user' = user ELSE user'.avatar = "null"
    BY <1>3, CreateFacts, Zenon
  <2> QED  BY <2>1, <2>2
<1>4. ASSUME VerifyPassword(c) PROVE UploadMoves(c)
  BY <1>4 DEF VerifyPassword
<1>5. ASSUME IssueTokenPair(c) PROVE UploadMoves(c)
  BY <1>5, <1>0 DEF IssueTokenPair
<1>6. ASSUME SendFindsUser(c) PROVE UploadMoves(c)
  BY <1>6 DEF SendFindsUser
<1>7. ASSUME DeleteOtps(c) PROVE UploadMoves(c)
  BY <1>7 DEF DeleteOtps
<1>8. ASSUME CreateOtp(c) PROVE UploadMoves(c)
  BY <1>8 DEF CreateOtp
<1>9. ASSUME SendMail(c) PROVE UploadMoves(c)
  BY <1>9, <1>0 DEF SendMail
<1>10. ASSUME FindOtp(c) PROVE UploadMoves(c)
  BY <1>10 DEF FindOtp
<1>11. ASSUME ForgotFindsUser(c) PROVE UploadMoves(c)
  BY <1>11 DEF ForgotFindsUser
<1>12. ASSUME DeleteLinks(c) PROVE UploadMoves(c)
  BY <1>12 DEF DeleteLinks
<1>13. ASSUME CreateLink(c) PROVE UploadMoves(c)
  BY <1>13 DEF CreateLink
<1>14. ASSUME FindLink(c) PROVE UploadMoves(c)
  BY <1>14 DEF FindLink
<1>15. ASSUME UpdateUserPassword(c) PROVE UploadMoves(c)
  <2>1. Settle(c, "password", FALSE) /\ user'.avatar = user.avatar /\ objects' = objects /\ op' = op
    BY <1>15 DEF UpdateUserPassword, Settle
  <2>2. at[c] = "updates"
    BY <2>1, SettleFacts
  <2> QED  BY <1>0, <2>1, <2>2
<1>16. ASSUME RevokeAllUserTokens(c) PROVE UploadMoves(c)
  <2>1. Settle(c, "revokeAll", FALSE) /\ user'.avatar = user.avatar /\ objects' = objects /\ op' = op
    BY <1>16 DEF RevokeAllUserTokens, Settle
  <2>2. at[c] = "updates"
    BY <2>1, SettleFacts
  <2> QED  BY <1>0, <2>1, <2>2
<1>17. ASSUME MarkEmailVerified(c) PROVE UploadMoves(c)
  <2>1. Settle(c, "verified", FALSE) /\ user'.avatar = user.avatar /\ objects' = objects /\ op' = op
    BY <1>17 DEF MarkEmailVerified, Settle
  <2>2. at[c] = "updates"
    BY <2>1, SettleFacts
  <2> QED  BY <1>0, <2>1, <2>2
<1>18. ASSUME MarkLinkUsed(c) PROVE UploadMoves(c)
  <2>1. at[c] = "updates" /\ op' = op
    BY <1>18, UpdatesSettle, SettleFacts DEF Update
  <2>2. user' = user /\ objects' = objects
    BY <1>18 DEF MarkLinkUsed
  <2> QED  BY <1>0, <2>1, <2>2
<1>19. ASSUME MarkOtpUsed(c) PROVE UploadMoves(c)
  <2>1. at[c] = "updates" /\ op' = op
    BY <1>19, UpdatesSettle, SettleFacts DEF Update
  <2>2. user' = user /\ objects' = objects
    BY <1>19 DEF MarkOtpUsed
  <2> QED  BY <1>0, <2>1, <2>2
<1>20. ASSUME UpdateFails(c) PROVE UploadMoves(c)
  <2>1. at[c] = "updates" /\ op' = op
    BY <1>20, UpdatesSettle, SettleFacts DEF Update
  <2>2. user' = user /\ objects' = objects
    BY <1>20 DEF UpdateFails
  <2> QED  BY <1>0, <2>1, <2>2
<1>21. ASSUME SignInReturns(c) PROVE UploadMoves(c)
  BY <1>21 DEF SignInReturns
<1>22. ASSUME LinkReturns(c) PROVE UploadMoves(c)
  BY <1>22 DEF LinkReturns
<1>23. ASSUME FindOAuthAccount(c) PROVE UploadMoves(c)
  BY <1>23 DEF FindOAuthAccount
<1>24. ASSUME FindUserByEmail(c) PROVE UploadMoves(c)
  BY <1>24 DEF FindUserByEmail
<1>25. ASSUME CreateOAuthUser(c) PROVE UploadMoves(c)
  <2>1. op[c] = "oauth" /\ op' = op /\ objects' = objects
    BY <1>25 DEF CreateOAuthUser
  <2>2. IF user.exists THEN user' = user ELSE user'.avatar = "null"
    BY <1>25, CreateFacts, Zenon
  <2> QED  BY <2>1, <2>2
<1>26. ASSUME LinkVerifies(c) PROVE UploadMoves(c)
  BY <1>26 DEF LinkVerifies
<1>27. ASSUME LinkCreates(c) PROVE UploadMoves(c)
  BY <1>27 DEF LinkCreates
<1>28. ASSUME CheckRemaining(c) PROVE UploadMoves(c)
  BY <1>28 DEF CheckRemaining
<1>29. ASSUME Unlink(c) PROVE UploadMoves(c)
  BY <1>29 DEF Unlink
<1>30. ASSUME PutObject(c) PROVE UploadMoves(c)
  BY <1>30 DEF PutObject
<1>31. ASSUME ReadOld(c) PROVE UploadMoves(c)
  BY <1>31 DEF ReadOld
<1>32. ASSUME DeleteOld(c) PROVE UploadMoves(c)
  BY <1>32 DEF DeleteOld
<1>33. ASSUME UpdateAvatar(c) PROVE UploadMoves(c)
  BY <1>33 DEF UpdateAvatar
<1>34. ASSUME UpdateUserProfile(c) PROVE UploadMoves(c)
  BY <1>34 DEF UpdateUserProfile, Saves
<1>35. ASSUME CountProjects(c) PROVE UploadMoves(c)
  BY <1>35, <1>0 DEF CountProjects
<1>36. ASSUME Throws(c) PROVE UploadMoves(c)
  BY <1>36 DEF Throws
<1>37. ASSUME Expire(c) PROVE UploadMoves(c)
  BY <1>37 DEF Expire
<1>38. ASSUME FindToken(c) PROVE UploadMoves(c)
  BY <1>38, <1>0 DEF FindToken
<1>39. ASSUME RevokeTokenFamily(c) PROVE UploadMoves(c)
  BY <1>39, <1>0 DEF RevokeTokenFamily
<1>40. ASSUME RevokeRefreshToken(c) PROVE UploadMoves(c)
  BY <1>40, <1>0 DEF RevokeRefreshToken
<1> QED
  BY <1>1, <1>2, <1>3, <1>4, <1>5, <1>6, <1>7, <1>8, <1>9, <1>10, <1>11, <1>12, <1>13, <1>14, <1>15, <1>16, <1>17, <1>18, <1>19, <1>20,
     <1>21, <1>22, <1>23, <1>24, <1>25, <1>26, <1>27, <1>28, <1>29, <1>30, <1>31, <1>32, <1>33, <1>34, <1>35, <1>36, <1>37, <1>38, <1>39, <1>40 DEF Act, Handler

LEMMA UploadStep ==
    ASSUME AccountInv, AvatarInv, NEW c \in Calls, Act(c)
    PROVE  AvatarInv'
<1> USE AccountAssumption DEF AccountInv, AccountTypes, CallTypes
<1>1. Moves(c) /\ AccountInv' /\ UploadMoves(c)
  BY ActKeeps, UploadsMove
<1>2. ASSUME NEW d \in Calls, Successful(d, "avatar") PROVE Successful(d, "avatar")'
  BY <1>1, <1>2 DEF Moves, Successful, Ended
<1>3. ASSUME NEW d \in Calls, op'[d] = "avatar"
      PROVE  \/ op[d] = "avatar"
             \/ d = c /\ arg'[d] = "null" /\ at'[d] = "put"
  BY <1>1, <1>3 DEF Moves, UploadMoves, CallsOK
<1>4. ASSUME NEW a \in Calls, user'.avatar = a PROVE Successful(a, "avatar")'
  <2>1. CASE user'.avatar = user.avatar
    BY <1>2, <1>4, <2>1 DEF AvatarInv
  <2>2. CASE At(c, "avatar", "update") /\ user'.avatar = c /\ at'[c] = "ok"
    BY <1>1, <1>4, <2>2 DEF At, Moves, Successful
  <2> QED  BY <1>1, <1>4, <2>1, <2>2 DEF UploadMoves
<1>5. ASSUME NEW d \in Calls, NEW a \in Calls, op'[d] = "avatar", arg'[d] = a
      PROVE  Successful(a, "avatar")'
  <2>1. op[d] = "avatar"
    BY <1>3, <1>5
  <2>2. arg'[d] = arg[d] \/ arg'[d] = user.avatar
    BY <1>1, <2>1 DEF Moves, UploadMoves
  <2>3. a = arg[d] \/ a = user.avatar
    BY <1>5, <2>2
  <2> QED  BY <1>2, <2>1, <2>3 DEF AvatarInv
<1>6. ASSUME NEW d \in Calls, op'[d] = "avatar", at'[d] \in Uploading PROVE d \in objects'
  <2>1. op[d] = "avatar" /\ (at[d] \in Uploading \/ d \in objects')
    BY <1>1, <1>3, <1>6 DEF Moves, UploadMoves, Uploading
  <2>2. CASE at[d] \in Uploading
    <3>1. d \in objects
      BY <2>1, <2>2 DEF AvatarInv, Uploading
    <3>2. At(c, "avatar", "deleteOld") => arg[c] # d
      BY <2>2 DEF AvatarInv, At, Successful, Uploading
    <3> QED  BY <1>1, <3>1, <3>2 DEF UploadMoves
  <2> QED  BY <2>1, <2>2
<1>7. AvatarIsStored'
  <2>1. SUFFICES ASSUME user'.avatar # "null", user'.avatar \notin objects'
                 PROVE  \E d \in Calls : /\ op'[d] = "avatar" /\ arg'[d] = user'.avatar
                                         /\ at'[d] \in {"update", "error"}
    BY DEF AvatarIsStored
  <2>2. ~(At(c, "avatar", "update") /\ user'.avatar = c /\ objects' = objects)
    BY <2>1 DEF AvatarInv, At
  <2>3. user'.avatar = user.avatar
    BY <1>1, <2>1, <2>2 DEF UploadMoves
  <2>4. CASE user.avatar \in objects
    <3>1. At(c, "avatar", "deleteOld") /\ arg'[c] = user'.avatar /\ at'[c] = "update"
      BY <1>1, <2>1, <2>3, <2>4 DEF UploadMoves
    <3>2. op'[c] = "avatar"
      BY <1>1, <3>1 DEF At, Moves
    <3> QED  BY <3>1, <3>2
  <2>5. CASE user.avatar \notin objects
    <3>1. PICK d \in Calls : op[d] = "avatar" /\ arg[d] = user.avatar /\ at[d] \in {"update", "error"}
      BY <2>1, <2>3, <2>5 DEF AvatarInv, AvatarIsStored
    <3>2. CASE d # c
      BY <1>1, <2>3, <3>1, <3>2 DEF Moves
    <3>3. CASE d = c
      <4>1. op'[c] = "avatar" /\ arg'[c] = user'.avatar
        BY <1>1, <2>3, <3>1, <3>3 DEF Moves, UploadMoves
      <4>2. ~(user'.avatar = c /\ at[c] = "update")
        BY <2>3, <2>5, <3>1, <3>3 DEF AvatarInv
      <4> QED  BY <1>1, <3>1, <3>3, <4>1, <4>2 DEF UploadMoves
    <3> QED  BY <3>2, <3>3
  <2> QED  BY <2>4, <2>5
<1> QED  BY <1>4, <1>5, <1>6, <1>7 DEF AvatarInv, Uploading, Successful

\* The avatar of the row is in S3 however uploads overlap, except while one that has
\* deleted it goes on to name its own, or when that one failed.
THEOREM AvatarsAreStored == Spec => []AvatarIsStored
<1>1. Init => AvatarInv
  <2> SUFFICES ASSUME Init PROVE AvatarInv
    OBVIOUS
  <2>1. user.avatar = "null" \/ (user.avatar = Before /\ objects = {Before})
    <3>1. NoUser.avatar = "null" /\ WithPassword.avatar = Before /\ WithIdentities.avatar = "null"
      BY DEF NoUser, WithPassword, WithIdentities
    <3>2. /\ user \in {NoUser, WithPassword, WithIdentities}
          /\ user = WithPassword => objects = {Before}
      BY DEF Init
    <3> QED  BY <3>1, <3>2
  <2> QED  BY <2>1, AccountAssumption DEF Init, AvatarInv, AvatarIsStored
<1>2. AccountInv /\ AvatarInv /\ [Next]_vars => AvatarInv'
  <2>1. ASSUME AvatarInv, UNCHANGED vars PROVE AvatarInv'
    BY <2>1 DEF vars, AvatarInv, AvatarIsStored, Successful
  <2> QED  BY <2>1, NextActs, UploadStep
<1>3. AvatarInv => AvatarIsStored
  BY DEF AvatarInv
<1> QED  BY <1>1, <1>2, <1>3, AccountInvariant, PTL DEF Spec

-----------------------------------------------------------------------------
(* The pages.                                                               *)

\* What the pages are told changes with a request whose calls then are past their
\* write, and stay so; who verifies, or answers without a mail.
TellMoves(c) ==
    /\ user.exists =>
          \/ /\ user'.name = user.name /\ user'.company = user.company
             /\ user'.avatar = user.avatar /\ user'.verified = user.verified
          \/ op[c] \in Writers("me") /\ at'[c] \in AfterWrite /\ at[c] \notin Ended
    /\ linked' = linked \/ (op[c] \in Writers("linked") /\ at'[c] \in AfterWrite /\ at[c] \notin Ended)
    /\ op[c] \in Writers("me") \cup Writers("linked") /\ at[c] \in AfterWrite => at'[c] \in AfterWrite
    /\ op[c] = "confirmOtp" =>
          /\ at'[c] \in {"updates", "ok"} => at[c] \in {"updates", "ok"} \/ "verified" \in pending'[c]
          /\ at[c] = "updates" =>
                /\ failed[c] => failed'[c]
                /\ "verified" \in pending[c] \ pending'[c] /\ ~failed'[c] => user'.verified
    /\ op[c] = "sendOtp" /\ at'[c] = "ok" => at[c] = "ok" \/ c \in mailed' \/ user.verified

LEMMA TellsMove ==
    ASSUME AccountInv, NEW c \in Calls, Act(c)
    PROVE  TellMoves(c)
<1>0. /\ at[c] = "updates" => op[c] \in {"confirmOtp", "reset"}
      /\ at[c] = "issue" => op[c] \notin {"sendOtp", "confirmOtp"}
      /\ at[c] = "mail" => op[c] \in {"sendOtp", "forgot"}
      /\ at[c] = "count" => op[c] \in Saves
      /\ "verified" \in pending[c] => op[c] = "confirmOtp"
  BY CallersOf DEF AccountInv, HandlerOK, UpdatesOf, Saves
<1>a. ASSUME NEW u, NEW threw \in BOOLEAN, Settle(c, u, threw)
      PROVE  /\ at[c] = "updates" /\ at'[c] \in {"updates", "ok", "error"}
             /\ u \in pending[c] /\ pending'[c] = pending[c] \ {u}
             /\ failed[c] => failed'[c]
  BY <1>a, SettleFacts
<1> USE DEF AccountInv, AccountTypes, RowTypes, CallTypes, UserType, TellMoves, AfterWrite, Writers,
            Saves, Ended, At, Step
<1>1. ASSUME NEW o \in Op, Begin(c, o) PROVE TellMoves(c)
  <2>1. at[c] = "none" /\ op[c] = "none" /\ user' = user /\ linked' = linked
    BY <1>1 DEF Begin, CallsOK
  <2> QED  BY <2>1
<1>2. ASSUME RegisterFindsUser(c) PROVE TellMoves(c)
  BY <1>2 DEF RegisterFindsUser
<1>3. ASSUME CreateUser(c) PROVE TellMoves(c)
  <2>1. op[c] = "register" /\ linked' = linked
    BY <1>3 DEF CreateUser
  <2>2. user.exists => user' = user
    BY <1>3, CreateFacts, Zenon
  <2> QED  BY <2>1, <2>2
<1>4. ASSUME VerifyPassword(c) PROVE TellMoves(c)
  BY <1>4 DEF VerifyPassword
<1>5. ASSUME IssueTokenPair(c) PROVE TellMoves(c)
  BY <1>5, <1>0 DEF IssueTokenPair
<1>6. ASSUME SendFindsUser(c) PROVE TellMoves(c)
  BY <1>6 DEF SendFindsUser
<1>7. ASSUME DeleteOtps(c) PROVE TellMoves(c)
  BY <1>7 DEF DeleteOtps
<1>8. ASSUME CreateOtp(c) PROVE TellMoves(c)
  BY <1>8 DEF CreateOtp
<1>9. ASSUME SendMail(c) PROVE TellMoves(c)
  BY <1>9, <1>0 DEF SendMail
<1>10. ASSUME FindOtp(c) PROVE TellMoves(c)
  BY <1>10 DEF FindOtp
<1>11. ASSUME ForgotFindsUser(c) PROVE TellMoves(c)
  BY <1>11 DEF ForgotFindsUser
<1>12. ASSUME DeleteLinks(c) PROVE TellMoves(c)
  BY <1>12 DEF DeleteLinks
<1>13. ASSUME CreateLink(c) PROVE TellMoves(c)
  BY <1>13 DEF CreateLink
<1>14. ASSUME FindLink(c) PROVE TellMoves(c)
  BY <1>14 DEF FindLink
<1>15. ASSUME UpdateUserPassword(c) PROVE TellMoves(c)
  <2>1. Settle(c, "password", FALSE) /\ user' = [user EXCEPT !.password = c] /\ linked' = linked
    BY <1>15 DEF UpdateUserPassword
  <2>2. /\ at[c] = "updates" /\ at'[c] \in {"updates", "ok", "error"}
        /\ "password" \in pending[c] /\ pending'[c] = pending[c] \ {"password"}
        /\ failed[c] => failed'[c]
    BY <2>1, SettleFacts, Zenon
  <2> QED  BY <1>0, <2>1, <2>2
<1>16. ASSUME RevokeAllUserTokens(c) PROVE TellMoves(c)
  <2>1. Settle(c, "revokeAll", FALSE) /\ user' = user /\ linked' = linked
    BY <1>16 DEF RevokeAllUserTokens
  <2>2. /\ at[c] = "updates" /\ at'[c] \in {"updates", "ok", "error"}
        /\ "revokeAll" \in pending[c] /\ pending'[c] = pending[c] \ {"revokeAll"}
        /\ failed[c] => failed'[c]
    BY <2>1, SettleFacts, Zenon
  <2> QED  BY <1>0, <2>1, <2>2
<1>17. ASSUME MarkEmailVerified(c) PROVE TellMoves(c)
  <2>1. Settle(c, "verified", FALSE) /\ user' = [user EXCEPT !.verified = TRUE] /\ linked' = linked
    BY <1>17 DEF MarkEmailVerified
  <2>2. /\ at[c] = "updates" /\ at'[c] \in {"updates", "ok", "error"}
        /\ "verified" \in pending[c] /\ pending'[c] = pending[c] \ {"verified"}
        /\ failed[c] => failed'[c]
    BY <2>1, SettleFacts, Zenon
  <2> QED  BY <1>0, <2>1, <2>2
<1>18. ASSUME MarkLinkUsed(c) PROVE TellMoves(c)
  <2>1. user' = user /\ linked' = linked /\ \E threw \in BOOLEAN : Settle(c, "markUsed", threw)
    BY <1>18, Zenon DEF MarkLinkUsed
  <2>2. /\ at[c] = "updates" /\ at'[c] \in {"updates", "ok", "error"}
        /\ pending'[c] = pending[c] \ {"markUsed"}
        /\ failed[c] => failed'[c]
    BY <2>1, <1>a
  <2> QED  BY <1>0, <2>1, <2>2
<1>19. ASSUME MarkOtpUsed(c) PROVE TellMoves(c)
  <2>1. user' = user /\ linked' = linked /\ \E threw \in BOOLEAN : Settle(c, "markUsed", threw)
    BY <1>19, Zenon DEF MarkOtpUsed
  <2>2. /\ at[c] = "updates" /\ at'[c] \in {"updates", "ok", "error"}
        /\ pending'[c] = pending[c] \ {"markUsed"}
        /\ failed[c] => failed'[c]
    BY <2>1, <1>a
  <2> QED  BY <1>0, <2>1, <2>2
<1>20. ASSUME UpdateFails(c) PROVE TellMoves(c)
  <2>1. user' = user /\ linked' = linked /\ \E u \in pending[c] : Settle(c, u, TRUE)
    BY <1>20 DEF UpdateFails
  <2>2. at[c] = "updates" /\ at'[c] \in {"updates", "ok", "error"} /\ failed'[c]
    BY <2>1, SettleFacts, Zenon
  <2> QED  BY <1>0, <2>1, <2>2
<1>21. ASSUME SignInReturns(c) PROVE TellMoves(c)
  BY <1>21 DEF SignInReturns
<1>22. ASSUME LinkReturns(c) PROVE TellMoves(c)
  BY <1>22 DEF LinkReturns
<1>23. ASSUME FindOAuthAccount(c) PROVE TellMoves(c)
  BY <1>23 DEF FindOAuthAccount
<1>24. ASSUME FindUserByEmail(c) PROVE TellMoves(c)
  BY <1>24 DEF FindUserByEmail
<1>25. ASSUME CreateOAuthUser(c) PROVE TellMoves(c)
  <2>1. op[c] = "oauth" /\ linked' = linked /\ at[c] = "createUser"
    BY <1>25 DEF CreateOAuthUser
  <2>2. user.exists => user' = user
    BY <1>25, CreateFacts, Zenon
  <2> QED  BY <2>1, <2>2
<1>26. ASSUME LinkVerifies(c) PROVE TellMoves(c)
  BY <1>26 DEF LinkVerifies
<1>27. ASSUME LinkCreates(c) PROVE TellMoves(c)
  BY <1>27 DEF LinkCreates
<1>28. ASSUME CheckRemaining(c) PROVE TellMoves(c)
  BY <1>28 DEF CheckRemaining
<1>29. ASSUME Unlink(c) PROVE TellMoves(c)
  BY <1>29 DEF Unlink
<1>30. ASSUME PutObject(c) PROVE TellMoves(c)
  BY <1>30 DEF PutObject
<1>31. ASSUME ReadOld(c) PROVE TellMoves(c)
  BY <1>31 DEF ReadOld
<1>32. ASSUME DeleteOld(c) PROVE TellMoves(c)
  BY <1>32 DEF DeleteOld
<1>33. ASSUME UpdateAvatar(c) PROVE TellMoves(c)
  BY <1>33 DEF UpdateAvatar
<1>34. ASSUME UpdateUserProfile(c) PROVE TellMoves(c)
  BY <1>34 DEF UpdateUserProfile
<1>35. ASSUME CountProjects(c) PROVE TellMoves(c)
  BY <1>35, <1>0 DEF CountProjects
<1>36. ASSUME Throws(c) PROVE TellMoves(c)
  BY <1>36 DEF Throws
<1>37. ASSUME Expire(c) PROVE TellMoves(c)
  BY <1>37 DEF Expire
<1>38. ASSUME FindToken(c) PROVE TellMoves(c)
  BY <1>38 DEF FindToken
<1>39. ASSUME RevokeTokenFamily(c) PROVE TellMoves(c)
  BY <1>39 DEF RevokeTokenFamily
<1>40. ASSUME RevokeRefreshToken(c) PROVE TellMoves(c)
  BY <1>40 DEF RevokeRefreshToken
<1> QED
  BY <1>1, <1>2, <1>3, <1>4, <1>5, <1>6, <1>7, <1>8, <1>9, <1>10, <1>11, <1>12, <1>13, <1>14, <1>15, <1>16, <1>17, <1>18, <1>19, <1>20,
     <1>21, <1>22, <1>23, <1>24, <1>25, <1>26, <1>27, <1>28, <1>29, <1>30, <1>31, <1>32, <1>33, <1>34, <1>35, <1>36, <1>37, <1>38, <1>39, <1>40 DEF Act, Handler

LEMMA VerifyStep ==
    ASSUME AccountInv, VerifyInv, NEW c \in Calls, Act(c)
    PROVE  VerifyInv'
<1> USE DEF AccountInv, AccountTypes, CallTypes
<1>1. Moves(c) /\ Writes(c) /\ TellMoves(c) /\ AccountInv'
  BY ActKeeps, TellsMove
<1>2. user.verified => user'.verified
  BY <1>1 DEF Writes
<1>3. ASSUME NEW d \in Calls \ {c}
      PROVE  /\ op'[d] = op[d] /\ at'[d] = at[d] /\ failed'[d] = failed[d] /\ pending'[d] = pending[d]
             /\ d \in mailed => d \in mailed'
  BY <1>1 DEF Moves, Writes
<1>4. ASSUME op'[c] = "confirmOtp", at'[c] \in {"updates", "ok"}, ~failed'[c], "verified" \notin pending'[c]
      PROVE  user'.verified
  <2>1. op[c] = "confirmOtp" /\ at[c] \in {"updates", "ok"}
    <3>1. at[c] # "none"
      BY <1>1, <1>4 DEF Moves
    <3> QED  BY <1>1, <1>4, <3>1 DEF Moves, TellMoves
  <2>2. CASE at[c] = "ok"
    BY <1>2, <2>1, <2>2 DEF VerifyInv, HandlerOK
  <2>3. CASE at[c] = "updates"
    BY <1>1, <1>2, <1>4, <2>1, <2>3 DEF VerifyInv, TellMoves
  <2> QED  BY <2>1, <2>2, <2>3
<1>5. ASSUME op'[c] = "sendOtp", at'[c] = "ok" PROVE c \in mailed' \/ user'.verified
  <2>1. op[c] = "sendOtp"
    BY <1>1, <1>5 DEF Moves
  <2> QED  BY <1>1, <1>2, <1>5, <2>1 DEF TellMoves, VerifyInv, Successful, Writes
<1> QED  BY <1>2, <1>3, <1>4, <1>5 DEF VerifyInv, Successful

LEMMA ToldTyped ==
    ASSUME AccountInv, NEW k \in QueryKeys
    PROVE  Told(k) \subseteq Rows /\ (k = "me" /\ IsVerified \in Told(k) => user.verified)
<1>1. /\ user.name \in Names /\ user.company \in Names /\ user.avatar \in Names
      /\ linked \subseteq Identities
  BY DEF AccountInv, AccountTypes, RowTypes, UserType
<1> QED  BY <1>1 DEF Told, Rows, Names, IsVerified

\* Entries that change.
LEMMA Entries ==
    /\ Nothing \in CacheEntry /\ NoFetch \in FetchEntry /\ Sent \in FetchEntry
    /\ \A e \in CacheEntry : \A b \in BOOLEAN :
          LET f == [e EXCEPT !.stale = b] IN
             /\ f \in CacheEntry /\ f.has = e.has /\ f.rows = e.rows /\ f.overtaken = e.overtaken
             /\ f.stale = b /\ (b = e.stale => f = e)
    /\ \A e \in FetchEntry :
          LET f == [e EXCEPT !.overtaken = TRUE] IN
             f \in FetchEntry /\ f.at = e.at /\ f.rows = e.rows /\ f.overtaken
    /\ \A e \in CacheEntry : e.stale \in BOOLEAN /\ e.rows \subseteq Rows
  BY DEF CacheEntry, FetchEntry, Nothing, NoFetch, Sent

\* A step of the requests, one that a page begins among them, keeps what the pages
\* have in order.
LEMMA RequestKeeps ==
    ASSUME AccountInv, VerifyInv, PageInv, NEW c \in Calls, Act(c),
           UNCHANGED <<page, queries>>, code' \in CodeType, code'.step = code.step,
           \/ stage' = stage
           \/ /\ at[c] = "none" /\ stage' = [stage EXCEPT ![c] = "sent"]
              /\ op'[c] \in {"sendOtp", "confirmOtp", "avatar", "unlink"} \cup Saves
    PROVE  PageInv'
<1> USE DEF AccountInv, AccountTypes, CallTypes, PageInv, PageTypes, queries
<1>1. Moves(c) /\ Writes(c) /\ TellMoves(c) /\ AccountInv'
  BY ActKeeps, TellsMove
<1>2. /\ \A d \in Calls \ {c} : stage'[d] = stage[d]
      /\ at[c] # "none" => stage'[c] = stage[c]
      /\ at[c] = "none" => stage[c] = "none" /\ stage'[c] \in {"none", "sent"}
  BY DEF StageOK, CallsOK, Saves
<1>3. stage' \in [Calls -> {"none", "sent", "awaits", "woken", "done", "lost"}]
  OBVIOUS
<1>4. ASSUME NEW d \in Calls PROVE StageOK(d)'
  <2>1. CASE d # c
    BY <1>1, <1>2, <2>1 DEF StageOK, Moves, Ended, Saves
  <2>2. CASE d = c /\ at[c] # "none"
    BY <1>1, <1>2, <2>2 DEF StageOK, Moves, Ended, Saves
  <2>3. CASE d = c /\ at[c] = "none"
    BY <1>2, <2>3 DEF StageOK, Saves
  <2> QED  BY <2>1, <2>2, <2>3
<1>5. ASSUME NEW d \in Calls, page # "none", ~Heard(d), at[d] \notin {"none", "refused"}, at'[d] # "refused",
             d = c => at[c] \notin Ended \/ at[c] = at'[c]
      PROVE  ~Heard(d)'
  <2>1. stage'[d] = stage[d]
    BY <1>2, <1>5
  <2>2. CASE at'[d] = at[d]
    BY <1>5, <2>1, <2>2 DEF Heard
  <2>3. CASE at'[d] # at[d]
    <3>1. d = c /\ at[c] \notin Ended
      BY <1>1, <1>5, <2>3 DEF Moves
    <3>2. stage[c] \notin {"awaits", "woken", "done"}
      BY <1>5, <3>1 DEF StageOK, Ended
    <3> QED  BY <1>5, <2>1, <3>1, <3>2 DEF Heard
  <2> QED  BY <2>2, <2>3
<1>6. ASSUME NEW k \in QueryKeys, NEW d \in Calls, page # "none", Suspect(k, d) PROVE Suspect(k, d)'
  <2>1. op[d] \in Writers("me") \cup Writers("linked") /\ at[d] \in AfterWrite /\ ~Heard(d)
    BY <1>6 DEF Suspect, Writers, QueryKeys
  <2>2. at[d] \notin {"none", "refused"}
    BY <2>1 DEF AfterWrite
  <2>3. op'[d] = op[d] /\ at'[d] \in AfterWrite
    BY <1>1, <2>1, <2>2 DEF Moves, TellMoves
  <2>4. ~Heard(d)'
    BY <1>1, <1>5, <1>6, <2>1, <2>2, <2>3 DEF AfterWrite, Moves
  <2> QED  BY <1>6, <2>3, <2>4 DEF Suspect, Writers, Saves
<1>7. ASSUME NEW k \in QueryKeys, page # "none", Told(k)' # Told(k) PROVE Suspect(k, c)'
  <2>1. op[c] \in Writers(k) /\ at'[c] \in AfterWrite /\ at[c] \notin Ended
    <3>1. CASE k = "me"
      BY <1>1, <1>7, <3>1 DEF TellMoves, Told
    <3>2. CASE k = "linked"
      BY <1>1, <1>7, <3>2 DEF TellMoves, Told
    <3> QED  BY <3>1, <3>2 DEF QueryKeys
  <2>2. at[c] \notin {"none", "refused"} /\ at'[c] # "refused" /\ ~Heard(c)
    BY <2>1 DEF CallsOK, Writers, Saves, AfterWrite, Ended, Heard
  <2>3. ~Heard(c)' /\ op'[c] = op[c]
    BY <1>1, <1>5, <1>7, <2>1, <2>2 DEF Moves
  <2> QED  BY <2>1, <2>3 DEF Suspect, Writers, Saves
<1>8. ASSUME NEW k \in QueryKeys PROVE KeyOK(k)'
  <2>1. user.verified => user'.verified
    BY <1>1 DEF Writes
  <2>2. CASE page = "none"
    BY <2>1, <2>2 DEF KeyOK, Fresh
  <2>3. CASE page # "none"
    <3>1. Told(k)' = Told(k) \/ Suspects(k)'
      BY <1>7, <2>3 DEF Suspects
    <3>2. Suspects(k) => Suspects(k)'
      BY <1>6, <2>3 DEF Suspects
    <3> QED  BY <2>1, <3>1, <3>2 DEF KeyOK, Fresh
  <2> QED  BY <2>2, <2>3
<1>9. CodeOK'
  <2>1. Mine \subseteq Mine'
    BY <1>2, <1>3 DEF Mine
  <2> QED  BY <1>1, <2>1 DEF CodeOK, Writes
<1>10. IF page' = "none" THEN \A k \in QueryKeys : cache'[k].has = "nothing" /\ fetch'[k].at = "idle"
                         ELSE user'.exists
  BY <1>1 DEF Writes
<1> QED  BY <1>3, <1>4, <1>8, <1>9, <1>10

\* What a page does with its own state alone.
LEMMA StillKeeps ==
    ASSUME PageInv, UNCHANGED <<vars, page, queries, stage>>, code' \in CodeType, CodeOK'
    PROVE  PageInv'
  BY DEF PageInv, PageTypes, vars, queries, StageOK, KeyOK, Fresh, Told, Suspects, Suspect,
         Heard, Saves

\* An answer or an error, for the page.
LEMMA EndKeeps ==
    ASSUME AccountInv, VerifyInv, PageInv, NEW c \in Calls, stage[c] # "none", NEW ok \in BOOLEAN,
           ok => at[c] = "ok", UNCHANGED vars, Mine \subseteq Mine',
           Ends(c, ok) \/ (ok /\ op[c] = "sendOtp" /\ CodeEnds(c, TRUE)) \/ UNCHANGED screen
    PROVE  code' \in CodeType /\ CodeOK'
<1> USE DEF PageInv, PageTypes, CodeType, vars
<1>1. UNCHANGED <<user, mailed>> /\ c \in Mine
  BY DEF Mine
<1>2. CASE UNCHANGED code
  BY <1>1, <1>2 DEF CodeOK
<1>3. CASE CodeEnds(c, ok) /\ op[c] \in {"sendOtp", "confirmOtp"}
  <2>1. CASE op[c] = "sendOtp" /\ ok
    <3>1. c \in mailed \/ user.verified
      BY <2>1 DEF VerifyInv, Successful
    <3>2. code' = [code EXCEPT !.step = "otp-sent", !.typed = "none", !.cooling = TRUE, !.send = "none"]
      BY <1>3, <2>1 DEF CodeEnds
    <3> QED  BY <1>1, <3>1, <3>2 DEF CodeOK
  <2>2. CASE op[c] = "confirmOtp" /\ ok
    <3>1. user.verified
      BY <2>2 DEF AccountInv, HandlerOK, VerifyInv
    <3>2. code' = [code EXCEPT !.step = "verified", !.confirm = "none"]
      BY <1>3, <2>2 DEF CodeEnds
    <3> QED  BY <1>1, <3>1, <3>2 DEF CodeOK
  <2>3. CASE ~ok
    <3>1. code' = [code EXCEPT !.send = "none"] \/ code' = [code EXCEPT !.typed = "none", !.confirm = "none"]
      BY <1>3, <2>3 DEF CodeEnds
    <3> QED  BY <1>1, <3>1 DEF CodeOK
  <2> QED  BY <1>3, <2>1, <2>2, <2>3
<1> QED
  BY <1>2, <1>3 DEF Ends, screen, PhotoEnds, UnlinkEnds, SaveEnds

\* What the pages hear of a request does not change what they were told: its answer
\* makes stale what it wrote.
LEMMA OutcomeKeeps ==
    ASSUME AccountInv, VerifyInv, PageInv, NEW c \in Calls, Outcome(c)
    PROVE  PageInv' /\ UNCHANGED vars
<1> USE DEF AccountInv, AccountTypes, CallTypes, PageInv, PageTypes
<1>1. UNCHANGED vars /\ page' = page
  BY DEF Outcome, MailAnswered, Answered, Continues, ErrorShown
<1>2. \A k \in QueryKeys : Told(k)' = Told(k)
  BY <1>1 DEF Told, vars
<1>3. ASSUME UNCHANGED queries, NEW s \in {"awaits", "woken", "done", "lost"},
             stage' = [stage EXCEPT ![c] = s], stage[c] # "none",
             StageOK(c)', Heard(c)' => Heard(c) \/ op[c] = "sendOtp",
             code' \in CodeType, Mine \subseteq Mine' => CodeOK'
      PROVE  PageInv'
  <2>1. \A d \in Calls : d # c => (StageOK(d)' /\ (Heard(d)' <=> Heard(d)))
    BY <1>1, <1>3 DEF StageOK, Heard, vars, Ended, Saves
  <2>2. \A k \in QueryKeys : Suspects(k) => Suspects(k)'
    BY <1>1, <1>3, <2>1 DEF Suspects, Suspect, vars, Writers, Saves
  <2>3. ASSUME NEW k \in QueryKeys PROVE KeyOK(k)'
    BY <1>1, <1>2, <1>3, <2>2 DEF KeyOK, Fresh, vars, queries
  <2>4. Mine \subseteq Mine'
    BY <1>1, <1>3 DEF Mine
  <2> QED  BY <1>1, <1>3, <2>1, <2>3, <2>4 DEF queries, vars
<1>4. ASSUME MailAnswered(c) PROVE PageInv'
  <2>1. stage[c] = "sent" /\ op[c] = "sendOtp" /\ at[c] = "ok" /\ UNCHANGED queries
        /\ stage' = [stage EXCEPT ![c] = "done"] /\ (CodeEnds(c, TRUE) \/ UNCHANGED screen)
    BY <1>4 DEF MailAnswered
  <2>2. StageOK(c)'
    BY <1>1, <2>1 DEF StageOK, vars, Ended
  <2>3. Mine \subseteq Mine'
    BY <2>1 DEF Mine
  <2>4. code' \in CodeType /\ CodeOK'
    BY <1>1, <2>1, <2>3, EndKeeps
  <2> QED  BY <1>3, <2>1, <2>2, <2>4
<1>5. ASSUME Continues(c) PROVE PageInv'
  <2>1. stage[c] \in {"awaits", "woken"} /\ Ends(c, TRUE) /\ UNCHANGED queries
        /\ stage' = [stage EXCEPT ![c] = "done"]
    BY <1>5 DEF Continues
  <2>2. at[c] = "ok" /\ op[c] # "sendOtp" /\ Heard(c)
    BY <2>1 DEF StageOK, Heard
  <2>3. StageOK(c)'
    BY <1>1, <2>1, <2>2 DEF StageOK, vars, Ended, Saves
  <2>4. Mine \subseteq Mine'
    BY <2>1 DEF Mine
  <2>5. code' \in CodeType /\ CodeOK'
    BY <1>1, <2>1, <2>2, <2>4, EndKeeps
  <2> QED  BY <1>3, <2>1, <2>2, <2>3, <2>5
<1>6. ASSUME ErrorShown(c) PROVE PageInv'
  <2>1. /\ stage[c] = "sent" /\ Ends(c, FALSE) /\ UNCHANGED queries
        /\ \/ at[c] \in {"refused", "error"} /\ stage' = [stage EXCEPT ![c] = "done"]
           \/ stage' = [stage EXCEPT ![c] = "lost"]
    BY <1>6 DEF ErrorShown
  <2>2. StageOK(c)'
    BY <1>1, <2>1 DEF StageOK, vars, Ended, Saves
  <2>3. Mine \subseteq Mine'
    BY <2>1 DEF Mine
  <2>4. code' \in CodeType /\ CodeOK'
    BY <1>1, <2>1, <2>3, EndKeeps
  <2>5. Heard(c)' => Heard(c)
    BY <1>1, <2>1 DEF Heard, vars
  <2> QED  BY <1>3, <2>1, <2>2, <2>4, <2>5
<1>7. ASSUME Answered(c) PROVE PageInv'
  <2> DEFINE key == Key(op[c])
  <2>1. stage[c] = "sent" /\ op[c] # "sendOtp" /\ at[c] = "ok" /\ UNCHANGED code
        /\ Invalidate({key}, Watched(page), {})
    BY <1>7 DEF Answered, screen
  <2>2. op[c] \in {"confirmOtp", "avatar", "unlink"} \cup Saves
    BY <2>1 DEF StageOK
  <2>3. key \in QueryKeys /\ \A k \in QueryKeys : op[c] \in Writers(k) => k = key
    BY <2>2 DEF Key, QueryKeys, Writers, Saves
  <2>4. \A d \in Calls : \/ stage'[d] = stage[d]
                         \/ d = c /\ stage'[d] \in {"awaits", "woken"}
                         \/ stage[d] = "awaits" /\ stage'[d] = "woken"
    BY <1>7, <2>1 DEF Answered
  <2>5. stage' \in [Calls -> {"none", "sent", "awaits", "woken", "done", "lost"}]
    BY <1>7, <2>1 DEF Answered
  <2>6. ASSUME NEW d \in Calls PROVE StageOK(d)'
    BY <1>1, <2>1, <2>4 DEF StageOK, vars, Ended, Saves
  <2>7. ASSUME NEW d \in Calls, d # c PROVE Heard(d)' <=> Heard(d)
    BY <1>1, <2>4, <2>7 DEF Heard, vars
  <2>8. ASSUME NEW k \in QueryKeys, k # key, Suspects(k) PROVE Suspects(k)'
    <3>1. PICK d \in Calls : Suspect(k, d)
      BY <2>8 DEF Suspects
    <3>2. d # c
      BY <2>3, <2>8, <3>1 DEF Suspect
    <3> QED  BY <1>1, <2>7, <3>1, <3>2 DEF Suspects, Suspect, vars, Writers, Saves
  <2> HIDE DEF key
  <2>9. /\ cache' = [k \in QueryKeys |-> [cache[k] EXCEPT !.stale = @ \/ k \in {key}]]
        /\ fetch' = [k \in QueryKeys |->
              IF k \in {key} \cap Watched(page) THEN Refetched(k)
              ELSE IF k \in {key} /\ InFlight(k) THEN [fetch[k] EXCEPT !.overtaken = TRUE] ELSE fetch[k]]
    BY <2>1 DEF Invalidate
  <2>10. ASSUME NEW k \in QueryKeys
         PROVE  /\ cache'[k] \in CacheEntry
                /\ cache'[k].has = cache[k].has /\ cache'[k].rows = cache[k].rows
                /\ k = key => cache'[k].stale
                /\ k # key => cache'[k] = cache[k]
    <3>1. cache'[k] = [cache[k] EXCEPT !.stale = cache[k].stale \/ k = key]
      BY <2>9, Zenon
    <3>2. PICK b \in BOOLEAN : cache'[k] = [cache[k] EXCEPT !.stale = b] /\ (b <=> (cache[k].stale \/ k = key))
      BY <3>1, Zenon
    <3>3. cache[k] \in CacheEntry /\ (k # key => b = cache[k].stale)
      BY <3>2, Entries
    <3> QED  BY <3>2, <3>3, Entries
  <2>11. ASSUME NEW k \in QueryKeys
         PROVE  /\ fetch'[k] \in FetchEntry
                /\ k # key => fetch'[k] = fetch[k]
                /\ k = key => fetch'[k].at # "read" \/ fetch'[k].overtaken
                /\ fetch'[k].rows \in {fetch[k].rows, {}}
                /\ fetch[k].at = "idle" /\ Watched(page) = {} => fetch'[k].at = "idle"
    <3>1. \/ fetch'[k] = Sent /\ Watched(page) # {} /\ k = key
          \/ fetch'[k] = [fetch[k] EXCEPT !.overtaken = TRUE] /\ fetch[k].at # "idle" /\ k = key
          \/ fetch'[k] = fetch[k] /\ (k = key => fetch[k].at = "idle")
      BY <2>9 DEF Refetched, InFlight
    <3>2. Sent.at = "sent" /\ Sent.rows = {}
      BY DEF Sent
    <3>3. CASE fetch'[k] = Sent /\ Watched(page) # {} /\ k = key
      BY <3>2, <3>3, Entries, Zenon
    <3>4. CASE fetch'[k] = [fetch[k] EXCEPT !.overtaken = TRUE] /\ fetch[k].at # "idle" /\ k = key
      <4>1. fetch[k] \in FetchEntry
        OBVIOUS
      <4>2. fetch'[k] \in FetchEntry /\ fetch'[k].rows = fetch[k].rows /\ fetch'[k].overtaken
        BY <3>4, <4>1, Entries
      <4> QED  BY <3>4, <4>2
    <3>5. CASE fetch'[k] = fetch[k] /\ (k = key => fetch[k].at = "idle")
      BY <3>5
    <3> QED  BY <3>1, <3>3, <3>4, <3>5
  <2>12. ASSUME NEW k \in QueryKeys PROVE KeyOK(k)'
    <3>1. CASE k = key
      BY <1>1, <2>10, <2>11, <3>1 DEF KeyOK, Fresh, vars
    <3>2. CASE k # key
      BY <1>1, <1>2, <2>8, <2>10, <2>11, <3>2 DEF KeyOK, Fresh, vars
    <3> QED  BY <3>1, <3>2
  <2>13. Mine \subseteq Mine'
    BY <2>4, <2>5 DEF Mine
  <2>14. CodeOK'
    BY <1>1, <2>1, <2>13 DEF CodeOK, vars
  <2>15. cache' \in [QueryKeys -> CacheEntry] /\ fetch' \in [QueryKeys -> FetchEntry]
    BY <2>9, <2>10, <2>11
  <2>16. page = "none" => \A k \in QueryKeys : cache'[k].has = "nothing" /\ fetch'[k].at = "idle"
    BY <2>10, <2>11 DEF Watched
  <2> QED  BY <1>1, <2>1, <2>5, <2>6, <2>12, <2>14, <2>15, <2>16 DEF vars
<1> QED  BY <1>1, <1>4, <1>5, <1>6, <1>7 DEF Outcome

\* Fetches are answered with what is so, or fail, or grow old.
LEMMA QueriesKeep ==
    ASSUME AccountInv, PageInv, ServerReads \/ Fetched \/ FetchFails \/ TimePasses
    PROVE  PageInv' /\ UNCHANGED vars
<1> USE DEF PageInv, PageTypes
<1>1. UNCHANGED <<vars, page, stage, screen>>
  BY DEF ServerReads, Fetched, FetchFails, TimePasses
<1>2. \A k \in QueryKeys : Told(k)' = Told(k) /\ (Suspects(k) => Suspects(k)')
  BY <1>1 DEF Told, Suspects, Suspect, Heard, vars
<1>3. PICK k \in QueryKeys : Read(k, Told(k), 1) \/ Arrive(k) \/ Fails(k) \/ Age(k)
  BY DEF ServerReads, Fetched, FetchFails, TimePasses
<1>4. page # "none"
  BY <1>3 DEF Read, Arrive, Fails, Age, InFlight
<1>5. ASSUME cache' \in [QueryKeys -> CacheEntry], fetch' \in [QueryKeys -> FetchEntry],
             \A j \in QueryKeys \ {k} : cache'[j] = cache[j] /\ fetch'[j] = fetch[j],
             /\ Fresh(k)' => \/ Fresh(k) /\ cache'[k].rows = cache[k].rows
                             \/ /\ fetch[k].at = "read" /\ ~fetch[k].overtaken
                                /\ cache'[k].rows = fetch[k].rows,
             fetch'[k].at = "read" => fetch'[k].rows = Told(k),
             cache'[k].rows \cup fetch'[k].rows \subseteq cache[k].rows \cup fetch[k].rows \cup Told(k)
      PROVE  PageInv'
  <2>1. KeyOK(k)'
    BY <1>1, <1>2, <1>5, ToldTyped DEF KeyOK, vars
  <2>2. \A j \in QueryKeys \ {k} : KeyOK(j)'
    BY <1>1, <1>2, <1>5 DEF KeyOK, Fresh, vars
  <2>3. (\A c \in Calls : StageOK(c)') /\ CodeOK'
    BY <1>1 DEF StageOK, CodeOK, Mine, vars, screen, Saves
  <2> QED  BY <1>1, <1>4, <1>5, <2>1, <2>2, <2>3 DEF vars, screen
<1>6. CASE Read(k, Told(k), 1)
  <2>1. /\ cache' = cache
        /\ fetch' = [fetch EXCEPT ![k] = [at |-> "read", rows |-> Told(k), pages |-> 1,
                                          overtaken |-> fetch[k].overtaken]]
    BY <1>6 DEF Read
  <2>2. fetch[k].overtaken \in BOOLEAN
    BY DEF FetchEntry
  <2>3. Told(k) \in SUBSET Rows
    BY ToldTyped
  <2>4. fetch'[k] \in FetchEntry /\ fetch'[k].rows = Told(k)
    BY <2>1, <2>2, <2>3 DEF FetchEntry
  <2>5. cache' \in [QueryKeys -> CacheEntry] /\ fetch' \in [QueryKeys -> FetchEntry]
    BY <2>1, <2>4
  <2>6. \A j \in QueryKeys \ {k} : cache'[j] = cache[j] /\ fetch'[j] = fetch[j]
    BY <2>1
  <2>7. Fresh(k)' => Fresh(k) /\ cache'[k].rows = cache[k].rows
    BY <2>1 DEF Fresh
  <2>8. cache'[k].rows \cup fetch'[k].rows \subseteq cache[k].rows \cup fetch[k].rows \cup Told(k)
    BY <2>1, <2>4
  <2> QED  BY <1>1, <1>5, <2>4, <2>5, <2>6, <2>7, <2>8, Zenon
<1>7. CASE Arrive(k)
  <2>1. /\ fetch[k].at = "read" /\ fetch' = [fetch EXCEPT ![k] = NoFetch]
        /\ cache' = [cache EXCEPT ![k] = [has |-> "data", rows |-> fetch[k].rows,
                         pages |-> fetch[k].pages, stale |-> FALSE, overtaken |-> fetch[k].overtaken]]
    BY <1>7 DEF Arrive
  <2>2. NoFetch.at = "idle" /\ NoFetch.rows = {} /\ NoFetch \in FetchEntry
    BY Entries DEF NoFetch
  <2>3. fetch[k].overtaken \in BOOLEAN /\ fetch[k].pages \in {1} /\ fetch[k].rows \in SUBSET Rows
    BY DEF FetchEntry
  <2>4. /\ cache'[k] \in CacheEntry /\ cache'[k].rows = fetch[k].rows
        /\ cache'[k].overtaken = fetch[k].overtaken
    BY <2>1, <2>3 DEF CacheEntry
  <2>5. cache' \in [QueryKeys -> CacheEntry] /\ fetch' \in [QueryKeys -> FetchEntry] /\ fetch'[k] = NoFetch
    BY <2>1, <2>2, <2>4
  <2>6. \A j \in QueryKeys \ {k} : cache'[j] = cache[j] /\ fetch'[j] = fetch[j]
    BY <2>1
  <2>7. Fresh(k)' => /\ fetch[k].at = "read" /\ ~fetch[k].overtaken
                     /\ cache'[k].rows = fetch[k].rows
    BY <2>1, <2>4 DEF Fresh
  <2>8. cache'[k].rows \cup fetch'[k].rows \subseteq cache[k].rows \cup fetch[k].rows \cup Told(k)
    BY <2>2, <2>4, <2>5
  <2>9. fetch'[k].at # "read"
    BY <2>2, <2>5
  <2> QED  BY <1>1, <1>5, <2>5, <2>6, <2>7, <2>8, <2>9, Zenon
<1>8. CASE Fails(k) \/ Age(k)
  <2>1. \/ fetch' = fetch
        \/ fetch' = [fetch EXCEPT ![k] = NoFetch]
    BY <1>8 DEF Fails, Age
  <2>2. NoFetch.at = "idle" /\ NoFetch.rows = {} /\ NoFetch \in FetchEntry
    BY Entries DEF NoFetch
  <2>3. PICK h \in {"nothing", "error", "data"} :
            cache' = [cache EXCEPT ![k] = [@ EXCEPT !.stale = TRUE, !.has = h]]
    <3>1. CASE Fails(k)
      BY <3>1 DEF Fails
    <3>2. CASE Age(k)
      <4>1. cache[k] \in CacheEntry /\ cache[k].has = "data"
        BY <3>2 DEF Age
      <4>2. [cache[k] EXCEPT !.stale = TRUE] = [cache[k] EXCEPT !.stale = TRUE, !.has = "data"]
        BY <4>1 DEF CacheEntry
      <4>3. cache' = [cache EXCEPT ![k] = [cache[k] EXCEPT !.stale = TRUE]]
        BY <3>2 DEF Age
      <4> QED  BY <4>2, <4>3
    <3> QED  BY <1>8, <3>1, <3>2
  <2>4. ASSUME NEW e \in CacheEntry, NEW f, f = [e EXCEPT !.stale = TRUE, !.has = h]
        PROVE  f \in CacheEntry /\ f.stale /\ f.rows = e.rows
    BY <2>4 DEF CacheEntry
  <2>5. cache'[k] \in CacheEntry /\ cache'[k].stale /\ cache'[k].rows = cache[k].rows
    <3>1. cache[k] \in CacheEntry /\ cache'[k] = [cache[k] EXCEPT !.stale = TRUE, !.has = h]
      BY <2>3
    <3> QED  BY <2>4, <3>1, Zenon
  <2>6. cache' \in [QueryKeys -> CacheEntry] /\ fetch' \in [QueryKeys -> FetchEntry]
    BY <2>1, <2>2, <2>3, <2>5
  <2>7. \A j \in QueryKeys \ {k} : cache'[j] = cache[j] /\ fetch'[j] = fetch[j]
    BY <2>1, <2>3
  <2>8. CASE fetch' = fetch
    <3>2. ASSUME NEW j \in QueryKeys PROVE KeyOK(j)'
      BY <1>1, <1>2, <2>5, <2>7, <2>8, <3>2 DEF KeyOK, Fresh, vars
    <3>3. (\A c \in Calls : StageOK(c)') /\ CodeOK'
      BY <1>1 DEF StageOK, CodeOK, Mine, vars, screen, Saves
    <3> QED  BY <1>1, <1>4, <2>6, <3>2, <3>3 DEF vars, screen
  <2>9. CASE fetch' = [fetch EXCEPT ![k] = NoFetch]
    <3>1. fetch'[k] = NoFetch
      BY <2>9
    <3>2. ~Fresh(k)'
      BY <2>5 DEF Fresh
    <3>3. cache'[k].rows \cup fetch'[k].rows \subseteq cache[k].rows \cup fetch[k].rows \cup Told(k)
      BY <2>2, <2>5, <3>1
    <3>4. fetch'[k].at # "read"
      BY <2>2, <3>1
    <3> QED  BY <1>1, <1>5, <2>6, <2>7, <3>2, <3>3, <3>4, Zenon
  <2> QED  BY <2>1, <2>8, <2>9
<1> QED  BY <1>1, <1>3, <1>6, <1>7, <1>8

\* A page is left for another: what the cache holds stays.
LEMMA NavigateKeeps ==
    ASSUME AccountInv, PageInv, Navigate
    PROVE  PageInv' /\ UNCHANGED vars
<1> USE DEF PageInv, PageTypes
<1>1. UNCHANGED <<vars, cache, stage>> /\ page # "none" /\ page' = Beside[page]
  BY DEF Navigate
<1>2. page' \in Pages /\ page' # "none"
  BY <1>1 DEF Pages, Beside
<1>3. /\ \A k \in QueryKeys : fetch'[k] \in {fetch[k], Sent}
      /\ fetch' \in [QueryKeys -> FetchEntry]
  <2>1. fetch' = [k \in QueryKeys |->
           IF k \in Watched(page') \ Watched(page) THEN Subscribed(k)[k] ELSE fetch[k]]
    BY DEF Navigate
  <2>2. \A k \in QueryKeys : Subscribed(k)[k] \in {fetch[k], Sent}
    BY DEF Subscribed
  <2> QED  BY <2>1, <2>2, Entries
<1>4. Sent.at = "sent" /\ Sent.rows = {}
  BY DEF Sent
<1>5. \A k \in QueryKeys : Told(k)' = Told(k) /\ (Suspects(k) => Suspects(k)')
  BY <1>1 DEF Told, Suspects, Suspect, Heard, vars
<1>6. ASSUME NEW k \in QueryKeys PROVE KeyOK(k)'
  BY <1>1, <1>3, <1>4, <1>5 DEF KeyOK, Fresh, vars
<1>7. code' \in CodeType /\ CodeOK'
  <2>1. /\ Entry \in CodeType /\ Entry.step = "idle"
        /\ [Entry EXCEPT !.step = "verified"] \in CodeType
    BY DEF Entry, CodeType
  <2>2. code' = Entry \/ (code' = [Entry EXCEPT !.step = "verified"] /\ IsVerified \in cache["me"].rows)
    BY DEF Navigate, Mounted, IsVerified
  <2>3. [Entry EXCEPT !.step = "verified"].step = "verified"
    BY DEF Entry
  <2>4. IsVerified \in cache["me"].rows => user.verified
    BY DEF KeyOK, QueryKeys
  <2> QED  BY <1>1, <2>1, <2>2, <2>3, <2>4 DEF CodeOK, vars
<1>8. \A c \in Calls : StageOK(c)'
  BY <1>1, <1>2 DEF StageOK, vars, Saves
<1> QED  BY <1>1, <1>2, <1>3, <1>6, <1>7, <1>8 DEF vars

\* A page begins a request.
LEMMA SendKeeps ==
    ASSUME AccountInv, VerifyInv, PageInv, NEW c \in Calls,
           NEW o \in {"sendOtp", "confirmOtp", "avatar", "unlink"} \cup Saves, NEW a, Send(c, o, a),
           code' \in CodeType, code'.step = code.step
    PROVE  PageInv' /\ Act(c)
<1>1. Begin(c, o) /\ Act(c)
  BY DEF Send, Act, Op, Saves
<1>2. at[c] = "none" /\ op'[c] = o
  BY <1>1 DEF Begin, AccountInv, AccountTypes, CallTypes
<1> QED  BY <1>1, <1>2, RequestKeeps DEF Send

\* Who connects a provider leaves the app.
LEMMA ConnectKeeps ==
    ASSUME AccountInv, VerifyInv, PageInv, NEW c \in Calls, Connect(c)
    PROVE  PageInv' /\ Act(c)
<1> USE DEF PageInv, PageTypes
<1>1. Begin(c, "link") /\ Act(c)
  BY DEF Connect, Act, Op
<1>2. /\ page' = "none" /\ stage' = [d \in Calls |-> IF stage[d] = "none" THEN "none" ELSE "done"]
      /\ cache' = [k \in QueryKeys |-> Nothing] /\ fetch' = [k \in QueryKeys |-> NoFetch]
      /\ code' = Entry
  BY DEF Connect, Mounted
<1>3. Moves(c) /\ Writes(c)
  BY <1>1, ActKeeps
<1>4. /\ Nothing.has = "nothing" /\ Nothing.rows = {} /\ NoFetch.at = "idle" /\ NoFetch.rows = {}
      /\ Entry \in CodeType /\ Entry.step = "idle"
  BY DEF Nothing, NoFetch, Entry, CodeType
<1>5. \A k \in QueryKeys : KeyOK(k)' /\ cache'[k].has = "nothing" /\ fetch'[k].at = "idle"
  BY <1>2, <1>4 DEF KeyOK, Fresh
<1>6. ASSUME NEW d \in Calls PROVE StageOK(d)'
  <2>1. at[c] = "none" /\ op[c] = "none" /\ stage[c] = "none"
    BY <1>1 DEF Begin, AccountInv, CallsOK, StageOK, Saves
  <2>2. op'[d] = op[d] \/ stage'[d] = "none"
    BY <1>2, <1>3, <2>1 DEF Moves
  <2> QED  BY <1>2, <2>2 DEF StageOK, Saves
<1>7. page' \in Pages /\ CodeOK'
  BY <1>2, <1>4 DEF Pages, CodeOK
<1> QED  BY <1>1, <1>2, <1>4, <1>5, <1>6, <1>7, Entries

\* A click begins at most one request.
LEMMA ClickKeeps ==
    ASSUME AccountInv, VerifyInv, PageInv, NEW c \in Calls, Click(c)
    PROVE  PageInv' /\ Act(c)
<1> USE DEF CodeType
<1>0. code \in CodeType
  BY DEF PageInv, PageTypes
<1>1. CASE handleSend(c)
  <2>1. Send(c, "sendOtp", "null") /\ code' = [code EXCEPT !.send = c]
    BY <1>1 DEF handleSend
  <2>2. code' \in CodeType /\ code'.step = code.step
    BY <1>0, <2>1
  <2> QED  BY <2>1, <2>2, SendKeeps
<1>2. CASE submitOtp(c)
  <2>1. PICK a : Send(c, "confirmOtp", a)
    BY <1>2 DEF submitOtp
  <2>2. code' = [code EXCEPT !.confirm = c]
    BY <1>2 DEF submitOtp
  <2>3. code' \in CodeType /\ code'.step = code.step
    BY <1>0, <2>2
  <2> QED  BY <2>1, <2>3, SendKeeps
<1>3. CASE handleUpload(c)
  BY <1>0, <1>3, SendKeeps DEF handleUpload
<1>4. CASE handleUnlink(c)
  BY <1>0, <1>4, SendKeeps DEF handleUnlink
<1>5. CASE Connect(c)
  BY <1>5, ConnectKeeps
<1>6. CASE SubmitForm(c)
  <2>1. PICK f \in Saves : \E v : Send(c, f, v)
    BY <1>6, Zenon DEF SubmitForm
  <2>2. PICK v : Send(c, f, v)
    BY <2>1
  <2>3. code' = code
    BY <1>6 DEF SubmitForm
  <2> QED  BY <1>0, <2>2, <2>3, SendKeeps
<1> QED  BY <1>1, <1>2, <1>3, <1>4, <1>5, <1>6 DEF Click

\* What the user does to a page before anything is sent.
LEMMA AloneKeeps ==
    ASSUME AccountInv, PageInv, PageAlone
    PROVE  PageInv' /\ UNCHANGED vars
<1>0. code \in CodeType /\ CodeOK
  BY DEF PageInv, PageTypes
<1>1. CASE Cool
  <2>1. code' = [code EXCEPT !.cooling = FALSE] /\ UNCHANGED <<vars, page, queries, stage>>
    BY <1>1 DEF Cool, Still
  <2>2. code' \in CodeType /\ code'.step = code.step
    BY <1>0, <2>1 DEF CodeType
  <2>3. CodeOK'
    BY <1>0, <2>1, <2>2 DEF CodeOK, Mine, vars
  <2> QED  BY <2>1, <2>2, <2>3, StillKeeps
<1>2. CASE EnterCode
  <2>1. PICK x \in mailed \cup {"wrong"} : code' = [code EXCEPT !.typed = x]
    BY <1>2 DEF EnterCode
  <2>2. UNCHANGED <<vars, page, queries, stage>>
    BY <1>2 DEF EnterCode, Still
  <2>3. x \in Calls \cup {"none", "wrong"}
    BY DEF AccountInv, AccountTypes, RowTypes
  <2>4. code' \in CodeType /\ code'.step = code.step
    BY <1>0, <2>1, <2>3 DEF CodeType
  <2>5. CodeOK'
    BY <1>0, <2>2, <2>4 DEF CodeOK, Mine, vars
  <2> QED  BY <2>2, <2>4, <2>5, StillKeeps
<1>3. CASE OpenPhoto \/ handleFileChange \/ ClosePhoto \/ Disconnect \/ CloseUnlink
  <2>1. UNCHANGED <<vars, page, queries, stage, code>>
    BY <1>3 DEF OpenPhoto, handleFileChange, ClosePhoto, Disconnect, CloseUnlink, Still
  <2>2. CodeOK'
    BY <1>0, <2>1 DEF CodeOK, Mine, vars
  <2> QED  BY <1>0, <2>1, <2>2, StillKeeps
<1>4. CASE Navigate
  BY <1>4, NavigateKeeps
<1>5. CASE ServerReads \/ Fetched \/ FetchFails \/ TimePasses
  BY <1>5, QueriesKeep
<1> QED  BY <1>1, <1>2, <1>3, <1>4, <1>5 DEF PageAlone

\* Every step of the pages is one of the requests, or leaves them alone.
LEMMA PageStep ==
    ASSUME AccountInv, VerifyInv, PageInv, PagesNext
    PROVE  PageInv' /\ ((\E c \in Calls : Act(c)) \/ UNCHANGED vars)
<1>1. ASSUME NEW c \in Calls, Act(c), UNCHANGED pages PROVE PageInv'
  BY <1>1, RequestKeeps DEF pages, screen, PageInv, PageTypes
<1> QED
  BY <1>1, NextActs, ClickKeeps, OutcomeKeeps, AloneKeeps DEF PagesNext

PagesInv == AccountInv /\ VerifyInv /\ PageInv

LEMMA PagesInitInv == PagesInit => PagesInv
<1> SUFFICES ASSUME PagesInit PROVE PagesInv
  OBVIOUS
<1>1. AccountInv /\ Init
  BY AccountInit DEF PagesInit
<1>2. VerifyInv
  BY <1>1 DEF Init, VerifyInv, Successful
<1>3. /\ page \in {"none", "settings", "verify"} /\ (page # "none" => user.exists)
      /\ stage = [c \in Calls |-> "none"]
      /\ code = Entry /\ fetch = [k \in QueryKeys |-> NoFetch]
      /\ cache = [k \in QueryKeys |-> IF k \in Watched(page)
             THEN [Nothing EXCEPT !.has = "data", !.rows = Told(k), !.stale = FALSE] ELSE Nothing]
  BY DEF PagesInit
<1>4. /\ Nothing.has = "nothing" /\ Nothing.rows = {} /\ NoFetch.at = "idle" /\ NoFetch.rows = {}
      /\ Entry \in CodeType /\ Entry.step = "idle"
  BY DEF Nothing, NoFetch, Entry, CodeType
<1>5. ASSUME NEW k \in QueryKeys
      PROVE  LET e == [Nothing EXCEPT !.has = "data", !.rows = Told(k), !.stale = FALSE] IN
                 e \in CacheEntry /\ e.rows = Told(k)
  BY <1>1, ToldTyped DEF Nothing, CacheEntry
<1>6. ASSUME NEW k \in QueryKeys
      PROVE  /\ cache[k] \in CacheEntry /\ KeyOK(k) /\ fetch[k].at = "idle"
             /\ page = "none" => cache[k].has = "nothing"
  <2>1. CASE k \in Watched(page)
    <3>1. page # "none"
      BY <2>1 DEF Watched
    <3>2. cache[k] \in CacheEntry /\ cache[k].rows = Told(k)
      BY <1>3, <1>5, <2>1
    <3> QED  BY <1>1, <1>3, <1>4, <3>1, <3>2, ToldTyped DEF KeyOK
  <2>2. CASE k \notin Watched(page)
    BY <1>3, <1>4, <2>2, Entries DEF KeyOK, Fresh
  <2> QED  BY <2>1, <2>2
<1>7. PageTypes
  BY <1>3, <1>4, <1>6, Entries DEF PageTypes, Pages
<1> QED  BY <1>1, <1>2, <1>3, <1>4, <1>6, <1>7 DEF PagesInv, PageInv, StageOK, CodeOK

LEMMA PagesStepInv == PagesInv /\ [PagesNext]_<<vars, pages>> => PagesInv' /\ [Next]_vars
<1>1. ASSUME PagesInv, PagesNext PROVE PagesInv' /\ [Next]_vars
  <2>1. PageInv' /\ ((\E c \in Calls : Act(c)) \/ UNCHANGED vars)
    BY <1>1, PageStep DEF PagesInv
  <2>2. [Next]_vars
    BY <2>1, NextActs
  <2>3. AccountInv'
    BY <1>1, <2>2, AccountStep DEF PagesInv
  <2>4. VerifyInv'
    <3>1. CASE \E c \in Calls : Act(c)
      BY <1>1, <3>1, VerifyStep DEF PagesInv
    <3>2. CASE UNCHANGED vars
      BY <1>1, <3>2 DEF PagesInv, VerifyInv, Successful, vars
    <3> QED  BY <2>1, <3>1, <3>2
  <2> QED  BY <2>1, <2>2, <2>3, <2>4 DEF PagesInv
<1>2. ASSUME PagesInv, UNCHANGED <<vars, pages>> PROVE PagesInv' /\ [Next]_vars
  <2>1. AccountInv'
    BY <1>2, AccountStep DEF PagesInv
  <2>2. VerifyInv'
    BY <1>2 DEF PagesInv, VerifyInv, Successful, vars
  <2>3. PageInv'
    BY <1>2, StillKeeps DEF PagesInv, PageInv, PageTypes, CodeOK, Mine, pages, screen, vars
  <2> QED  BY <1>2, <2>1, <2>2, <2>3 DEF PagesInv
<1> QED  BY <1>1, <1>2

\* Whatever is clicked, and however requests from elsewhere run beside, the requests
\* of the pages are requests of the API: all that is proved of those holds of them.
THEOREM PagesAskTheApi == PagesSpec => Spec
<1>1. PagesInit => Init
  BY DEF PagesInit
<1> QED  BY <1>1, PagesInitInv, PagesStepInv, PTL DEF PagesSpec, Spec

\* A fresh answer in the cache is what the account has when the tab has heard of every
\* request that may have changed it; the page never says of an address that is not
\* verified that it is, and asks for no code that was never mailed.
THEOREM PagesAreTruthful == PagesSpec => []PagesTellTheTruth
<1>1. PagesInv => PagesTellTheTruth
  <2> SUFFICES ASSUME PagesInv PROVE PagesTellTheTruth
    OBVIOUS
  <2>1. ASSUME NEW k \in QueryKeys, Fresh(k), \A c \in Calls : op[c] \in Writers(k) => Heard(c)
        PROVE  cache[k].rows = Told(k)
    BY <2>1 DEF PagesInv, PageInv, KeyOK, Suspects, Suspect
  <2> QED  BY <2>1 DEF PagesInv, PageInv, CodeOK, PagesTellTheTruth
<1> QED  BY <1>1, PagesInitInv, PagesStepInv, PTL DEF PagesSpec

=============================================================================
