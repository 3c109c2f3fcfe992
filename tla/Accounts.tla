------------------------------ MODULE Accounts ------------------------------
(***************************************************************************)
(* The account requests of apps/api (auth.controller.ts, auth.service.ts,  *)
(* auth.repository.ts, lib/oauth.ts): registration, login, refresh, e-mail *)
(* codes, password reset, OAuth sign-in, linking, unlinking, avatars, and   *)
(* the name and company details of the profile.  What the browser does with *)
(* its tokens, and logging out, which only revokes, are in AuthSessions.   *)
(*                                                                         *)
(* One address, hence one user row.  Any number of requests are under way  *)
(* at once; at[c] is the call that request c makes next, and what it read  *)
(* before stays what it was.                                               *)
(***************************************************************************)
EXTENDS Sequences, SequencesExt

CONSTANTS
    Calls,          (* the requests; one also names what it creates: a code, *)
                    (* a link, a session, a password, an avatar, a name      *)
    Identities,     (* the accounts of the address, one at each provider     *)
    Before          (* what was there before: a password, a session, an avatar *)

ASSUME AccountAssumption ==
    /\ Before \notin Calls
    /\ "null" \notin Calls \cup {Before}
    /\ Identities # {}

Op == {"register", "login", "refresh", "sendOtp", "confirmOtp", "forgot", "reset", "oauth",
       "link", "unlink", "avatar", "saveName", "saveCompany"}

Saves == {"saveName", "saveCompany"}

VARIABLES
    user,       (* the row: exists, password (or "null"), verified, avatar, *)
                (* name, and company for the four details of the company    *)
    linked,     (* the identities with an OAuthAccount row                  *)
    codes,      (* unused EmailVerificationToken rows, in order of creation *)
    links,      (* of a PasswordResetToken: none, unused, used, deleted     *)
    expired,    (* codes and links whose expiresAt passed                   *)
    mailed,     (* codes and links that were mailed                         *)
    session,    (* of a refresh token: none, live, revoked                  *)
    family,     (* the first of its family; of a request, of what it issues *)
    objects,    (* the avatars in S3                                        *)
    stateCookie,(* the flow whose state the oauth_state cookie holds        *)
    op, at, arg,(* a request, its next call, what it carries                *)
    pending,    (* what of its Promise.all is still to run                  *)
    failed,     (* did a call of its Promise.all throw                      *)
    before,     (* the requests that had ended when it began                *)
    overlap     (* the requests that were under way while it was            *)

dbVars == <<user, linked, codes, links, session>>
outVars == <<expired, mailed, objects>>
fixedVars == <<op, arg, family, before, overlap>>
vars == <<dbVars, outVars, stateCookie, fixedVars, at, pending, failed>>

Ended == {"ok", "refused", "error"}

Running(c) == at[c] \notin Ended \cup {"none"}

\* Nobody has registered, or a user with a password has and is signed in, or one
\* who signed up with an identity and has since used them all.
NoUser == [exists |-> FALSE, password |-> "null", verified |-> FALSE, avatar |-> "null",
           name |-> "null", company |-> "null"]
WithPassword == [NoUser EXCEPT !.exists = TRUE, !.password = Before, !.avatar = Before,
                               !.name = Before]
WithIdentities == [NoUser EXCEPT !.exists = TRUE, !.verified = TRUE, !.name = Before]

Init ==
    /\ user \in {NoUser, WithPassword, WithIdentities}
    /\ linked = IF user = WithIdentities THEN Identities ELSE {}
    /\ codes = << >>
    /\ links = [c \in Calls |-> "none"]
    /\ expired = {}
    /\ mailed = {}
    /\ session = [c \in Calls \cup {Before} |->
                    IF c = Before /\ user = WithPassword THEN "live" ELSE "none"]
    /\ family = [c \in Calls \cup {Before} |-> c]
    /\ objects = IF user = WithPassword THEN {Before} ELSE {}
    /\ stateCookie = "none"
    /\ op = [c \in Calls |-> "none"]
    /\ at = [c \in Calls |-> "none"]
    /\ arg = [c \in Calls |-> "null"]
    /\ pending = [c \in Calls |-> {}]
    /\ failed = [c \in Calls |-> FALSE]
    /\ before = [c \in Calls |-> {}]
    /\ overlap = [c \in Calls |-> {}]

-----------------------------------------------------------------------------
(* A request begins and ends.                                               *)

\* The first call of each handler, when its body passes the controller.
FirstCall(o) ==
    CASE o \in {"register", "sendOtp", "forgot"} -> "findUser"
      [] o = "login" -> "readHash"
      [] o = "refresh" -> "findToken"
      [] o = "confirmOtp" -> "findOtp"
      [] o = "reset" -> "findLink"
      [] o \in {"oauth", "link"} -> "provider"
      [] o = "unlink" -> "check"
      [] o = "avatar" -> "put"
      [] o \in Saves -> "save"

\* What a request carries: a password, a token that was issued, a code from a mail or
\* a wrong one, a link from a mail, an identity, details that are new or were there.
Carried(c, o) ==
    CASE o = "login" -> {Before} \cup Calls
      [] o = "refresh" -> {t \in DOMAIN session : session[t] # "none"}
      [] o = "confirmOtp" -> {d \in mailed : op[d] = "sendOtp"} \cup {c}
      [] o = "reset" -> {d \in mailed : op[d] = "forgot"}
      [] o \in {"oauth", "link", "unlink"} -> Identities
      [] o \in Saves -> {c, Before} \cup {d \in Calls : op[d] = o}
      [] o \in {"register", "sendOtp", "forgot", "avatar"} -> {"null"}

\* The routes behind requireAuth.
Authenticated == {"sendOtp", "confirmOtp", "link", "unlink", "avatar"} \cup Saves

\* Starting an OAuth sign-in sets the one oauth_state cookie of the browser; linking
\* has a cookie of its own.
Begin(c, o) ==
    /\ at[c] = "none"
    /\ o \in Authenticated => user.exists
    /\ \E a \in Carried(c, o) : arg' = [arg EXCEPT ![c] = a]
    /\ op' = [op EXCEPT ![c] = o]
    /\ family' = [family EXCEPT ![c] = IF o = "refresh" THEN family[arg'[c]] ELSE c]
    /\ at' = [at EXCEPT ![c] = FirstCall(o)]
    /\ stateCookie' = IF o = "oauth" THEN c ELSE stateCookie
    /\ before' = [before EXCEPT ![c] = {d \in Calls : at[d] \in Ended}]
    /\ overlap' = [d \in Calls |-> IF d = c THEN {e \in Calls : Running(e)}
                                   ELSE IF Running(d) THEN overlap[d] \cup {c}
                                   ELSE overlap[d]]
    /\ UNCHANGED <<dbVars, expired, mailed, objects, pending, failed>>

\* The redirect that ends a callback clears the cookie, whatever flow it is for by
\* then.
Step(c, call) ==
    /\ at' = [at EXCEPT ![c] = call]
    /\ stateCookie' = IF op[c] = "oauth" /\ at[c] # "provider" /\ call \in Ended
                      THEN "none" ELSE stateCookie
    /\ UNCHANGED <<fixedVars, pending, failed>>

At(c, o, call) == op[c] = o /\ at[c] = call

\* A query, a mail, S3 or a provider fails: 500, or the error page.  A call of a
\* Promise.all fails by itself (UpdateFails).
Throws(c) ==
    /\ Running(c)
    /\ at[c] # "updates"
    /\ Step(c, "error")
    /\ UNCHANGED <<dbVars, outVars>>

-----------------------------------------------------------------------------
(* Registration and login.                                                  *)

RegisterFindsUser(c) ==
    /\ At(c, "register", "findUser")
    /\ Step(c, IF user.exists THEN "refused" ELSE "createUser")
    /\ UNCHANGED <<dbVars, outVars>>

\* email is unique: a second create throws.
CreateUser(c) ==
    /\ At(c, "register", "createUser")
    /\ IF user.exists
       THEN Step(c, "error") /\ UNCHANGED user
       ELSE /\ user' = [NoUser EXCEPT !.exists = TRUE, !.password = c, !.name = c]
            /\ Step(c, "issue")
    /\ UNCHANGED <<linked, codes, links, session, outVars>>

\* A user without a password is compared with a hash that nothing matches.
VerifyPassword(c) ==
    /\ At(c, "login", "readHash")
    /\ Step(c, IF user.exists /\ user.password = arg[c] THEN "issue" ELSE "refused")
    /\ UNCHANGED <<dbVars, outVars>>

\* A family of its own, or that of the token it replaces.
IssueTokenPair(c) ==
    /\ at[c] = "issue"
    /\ session' = [session EXCEPT ![c] = "live"]
    /\ Step(c, "ok")
    /\ UNCHANGED <<user, linked, codes, links, outVars>>

-----------------------------------------------------------------------------
(* Refresh.                                                                 *)

\* A slip: a revoked token is not told from a live one.
AdmitsRevoked(c) ==
    /\ At(c, "refresh", "findToken")
    /\ Step(c, "revokeOld")
    /\ UNCHANGED <<dbVars, outVars>>

\* findRefreshToken and the branch taken: one that was revoked is a theft, one that is
\* not may have expired.
FindToken(c) ==
    /\ At(c, "refresh", "findToken")
    /\ IF session[arg[c]] = "revoked" THEN Step(c, "revokeFamily")
       ELSE \E call \in {"revokeExpired", "revokeOld"} : Step(c, call)
    /\ UNCHANGED <<dbVars, outVars>>

Revoke(tokens) ==
    session' = [t \in DOMAIN session |->
                  IF t \in tokens /\ session[t] = "live" THEN "revoked" ELSE session[t]]

RevokeTokenFamily(c) ==
    /\ At(c, "refresh", "revokeFamily")
    /\ Revoke({t \in DOMAIN session : family[t] = family[c]})
    /\ Step(c, "refused")
    /\ UNCHANGED <<user, linked, codes, links, outVars>>

RevokeRefreshToken(c) ==
    /\ op[c] = "refresh" /\ at[c] \in {"revokeExpired", "revokeOld"}
    /\ Revoke({arg[c]})
    /\ Step(c, IF at[c] = "revokeOld" THEN "issue" ELSE "refused")
    /\ UNCHANGED <<user, linked, codes, links, outVars>>

-----------------------------------------------------------------------------
(* E-mail codes.                                                            *)

SendFindsUser(c) ==
    /\ At(c, "sendOtp", "findUser")
    /\ Step(c, IF user.verified THEN "ok" ELSE "deleteOtps")
    /\ UNCHANGED <<dbVars, outVars>>

\* A slip: the older codes stay.
KeepOtps(c) ==
    /\ At(c, "sendOtp", "deleteOtps")
    /\ Step(c, "createOtp")
    /\ UNCHANGED <<dbVars, outVars>>

DeleteOtps(c) ==
    /\ At(c, "sendOtp", "deleteOtps")
    /\ codes' = << >>
    /\ Step(c, "createOtp")
    /\ UNCHANGED <<user, linked, links, session, outVars>>

CreateOtp(c) ==
    /\ At(c, "sendOtp", "createOtp")
    /\ codes' = Append(codes, c)
    /\ Step(c, "mail")
    /\ UNCHANGED <<user, linked, links, session, outVars>>

SendMail(c) ==
    /\ at[c] = "mail"
    /\ mailed' = mailed \cup {c}
    /\ Step(c, "ok")
    /\ UNCHANGED <<dbVars, expired, objects>>

\* findLatestUnusedOtp and the three refusals.
FindOtp(c) ==
    /\ At(c, "confirmOtp", "findOtp")
    /\ IF codes # << >> /\ Last(codes) \notin expired /\ Last(codes) = arg[c]
       THEN /\ at' = [at EXCEPT ![c] = "updates"]
            /\ pending' = [pending EXCEPT ![c] = {"markUsed", "verified"}]
            /\ UNCHANGED <<stateCookie, fixedVars, failed>>
       ELSE Step(c, "refused")
    /\ UNCHANGED <<dbVars, outVars>>

-----------------------------------------------------------------------------
(* Password reset.                                                          *)

\* An unknown address is answered like any other.
ForgotFindsUser(c) ==
    /\ At(c, "forgot", "findUser")
    /\ Step(c, IF user.exists THEN "deleteLinks" ELSE "ok")
    /\ UNCHANGED <<dbVars, outVars>>

DeleteLinks(c) ==
    /\ At(c, "forgot", "deleteLinks")
    /\ links' = [d \in Calls |-> IF links[d] = "unused" THEN "deleted" ELSE links[d]]
    /\ Step(c, "createLink")
    /\ UNCHANGED <<user, linked, codes, session, outVars>>

CreateLink(c) ==
    /\ At(c, "forgot", "createLink")
    /\ links' = [links EXCEPT ![c] = "unused"]
    /\ Step(c, "mail")
    /\ UNCHANGED <<user, linked, codes, session, outVars>>

FindLink(c) ==
    /\ At(c, "reset", "findLink")
    /\ IF links[arg[c]] = "unused" /\ arg[c] \notin expired
       THEN /\ at' = [at EXCEPT ![c] = "updates"]
            /\ pending' = [pending EXCEPT ![c] = {"password", "markUsed", "revokeAll"}]
            /\ UNCHANGED <<stateCookie, fixedVars, failed>>
       ELSE Step(c, "refused")
    /\ UNCHANGED <<dbVars, outVars>>

-----------------------------------------------------------------------------
(* The updates of a Promise.all, in any order.                              *)

\* The request is answered when all are through, or with the first failure; the
\* others run all the same.
Settle(c, u, threw) ==
    /\ u \in pending[c]
    /\ pending' = [pending EXCEPT ![c] = @ \ {u}]
    /\ failed' = [failed EXCEPT ![c] = @ \/ threw]
    /\ at' = [at EXCEPT ![c] =
                IF pending[c] # {u} THEN "updates"
                ELSE IF failed[c] \/ threw THEN "error" ELSE "ok"]
    /\ UNCHANGED <<stateCookie, fixedVars>>

UpdateFails(c) ==
    /\ \E u \in pending[c] : Settle(c, u, TRUE)
    /\ UNCHANGED <<dbVars, outVars>>

UpdateUserPassword(c) ==
    /\ Settle(c, "password", FALSE)
    /\ user' = [user EXCEPT !.password = c]
    /\ UNCHANGED <<linked, codes, links, session, outVars>>

RevokeAllUserTokens(c) ==
    /\ Settle(c, "revokeAll", FALSE)
    /\ Revoke(DOMAIN session)
    /\ UNCHANGED <<user, linked, codes, links, outVars>>

MarkEmailVerified(c) ==
    /\ Settle(c, "verified", FALSE)
    /\ user' = [user EXCEPT !.verified = TRUE]
    /\ UNCHANGED <<linked, codes, links, session, outVars>>

\* update by id throws when a later forgot has deleted the row.
MarkLinkUsed(c) ==
    /\ op[c] = "reset"
    /\ Settle(c, "markUsed", links[arg[c]] = "deleted")
    /\ links' = [links EXCEPT ![arg[c]] = IF @ = "deleted" THEN @ ELSE "used"]
    /\ UNCHANGED <<user, linked, codes, session, outVars>>

\* A used code, marked again by a concurrent confirmation, is still a row; one that a
\* later send deleted is not.
MarkOtpUsed(c) ==
    /\ op[c] = "confirmOtp"
    /\ \/ /\ \E i \in DOMAIN codes : codes[i] = arg[c] /\ codes' = RemoveAt(codes, i)
          /\ Settle(c, "markUsed", FALSE)
       \/ /\ ~Contains(codes, arg[c])
          /\ \E threw \in BOOLEAN : Settle(c, "markUsed", threw)
          /\ UNCHANGED codes
    /\ UNCHANGED <<user, linked, links, session, outVars>>

-----------------------------------------------------------------------------
(* OAuth.                                                                   *)

\* The callback's state must be the one in the oauth_state cookie.
SignInReturns(c) ==
    /\ At(c, "oauth", "provider")
    /\ Step(c, IF stateCookie = c THEN "findAccount" ELSE "refused")
    /\ UNCHANGED <<dbVars, outVars>>

\* The redirect_uri of a link flow is that of the sign-in, whose callback does not know
\* the state in the link's own cookie.
LinkReturns(c) ==
    /\ At(c, "link", "provider")
    /\ Step(c, "refused")
    /\ UNCHANGED <<dbVars, outVars>>

FindOAuthAccount(c) ==
    /\ At(c, "oauth", "findAccount")
    /\ Step(c, IF arg[c] \in linked THEN "issue" ELSE "findUser")
    /\ UNCHANGED <<dbVars, outVars>>

FindUserByEmail(c) ==
    /\ At(c, "oauth", "findUser")
    /\ Step(c, IF user.exists THEN "verify" ELSE "createUser")
    /\ UNCHANGED <<dbVars, outVars>>

CreateOAuthUser(c) ==
    /\ At(c, "oauth", "createUser")
    /\ IF user.exists
       THEN Step(c, "error") /\ UNCHANGED user
       ELSE user' = [NoUser EXCEPT !.exists = TRUE, !.verified = TRUE, !.name = c] /\ Step(c, "verify")
    /\ UNCHANGED <<linked, codes, links, session, outVars>>

\* linkOAuthAccount: the user row, then the account, whose key is unique.
LinkVerifies(c) ==
    /\ At(c, "oauth", "verify")
    /\ user' = [user EXCEPT !.verified = TRUE]
    /\ Step(c, "createAccount")
    /\ UNCHANGED <<linked, codes, links, session, outVars>>

LinkCreates(c) ==
    /\ At(c, "oauth", "createAccount")
    /\ linked' = linked \cup {arg[c]}
    /\ Step(c, IF arg[c] \in linked THEN "error" ELSE "issue")
    /\ UNCHANGED <<user, codes, links, session, outVars>>

\* A slip: the account about to be removed counts as a remaining one.
CheckAnyLinked(c) ==
    /\ At(c, "unlink", "check")
    /\ Step(c, IF user.password = "null" /\ linked = {} THEN "refused" ELSE "delete")
    /\ UNCHANGED <<dbVars, outVars>>

\* The password and the accounts are read, another way in must remain.
CheckRemaining(c) ==
    /\ At(c, "unlink", "check")
    /\ Step(c, IF user.password = "null" /\ linked \ {arg[c]} = {}
               THEN "refused" ELSE "delete")
    /\ UNCHANGED <<dbVars, outVars>>

Unlink(c) ==
    /\ At(c, "unlink", "delete")
    /\ linked' = linked \ {arg[c]}
    /\ Step(c, "ok")
    /\ UNCHANGED <<user, codes, links, session, outVars>>

-----------------------------------------------------------------------------
(* Avatars.                                                                 *)

\* A slip: the row gets the new avatar first.
UpdateThenRead(c) ==
    /\ At(c, "avatar", "put")
    /\ objects' = objects \cup {c}
    /\ user' = [user EXCEPT !.avatar = c]
    /\ Step(c, "readOld")
    /\ UNCHANGED <<linked, codes, links, session, expired, mailed>>

PutObject(c) ==
    /\ At(c, "avatar", "put")
    /\ objects' = objects \cup {c}
    /\ Step(c, "readOld")
    /\ UNCHANGED <<dbVars, expired, mailed>>

\* The old avatar is read and deleted; a failure to delete it does not matter.
ReadOld(c) ==
    /\ At(c, "avatar", "readOld")
    /\ arg' = [arg EXCEPT ![c] = user.avatar]
    /\ at' = [at EXCEPT ![c] = IF user.avatar = "null" THEN "update" ELSE "deleteOld"]
    /\ UNCHANGED <<dbVars, outVars, stateCookie, op, family, before, overlap, pending, failed>>

DeleteOld(c) ==
    /\ At(c, "avatar", "deleteOld")
    /\ objects' \in {objects \ {arg[c]}, objects}
    /\ Step(c, "update")
    /\ UNCHANGED <<dbVars, expired, mailed>>

UpdateAvatar(c) ==
    /\ At(c, "avatar", "update")
    /\ user' = [user EXCEPT !.avatar = c]
    /\ Step(c, "ok")
    /\ UNCHANGED <<linked, codes, links, session, outVars>>

-----------------------------------------------------------------------------
(* The profile.                                                             *)

\* updateUserProfile writes the fields of the body.
UpdateUserProfile(c) ==
    /\ op[c] \in Saves /\ at[c] = "save"
    /\ user' = IF op[c] = "saveName" THEN [user EXCEPT !.name = arg[c]]
                                    ELSE [user EXCEPT !.company = arg[c]]
    /\ Step(c, "count")
    /\ UNCHANGED <<linked, codes, links, session, outVars>>

\* The projects are counted for the answer: a failure there answers 500 to a save
\* that was made.
CountProjects(c) ==
    /\ at[c] = "count"
    /\ Step(c, "ok")
    /\ UNCHANGED <<dbVars, outVars>>

-----------------------------------------------------------------------------
\* Five minutes of a code, fifteen of a link.
Expire(c) ==
    /\ c \in mailed \ expired
    /\ expired' = expired \cup {c}
    /\ UNCHANGED <<dbVars, mailed, objects, stateCookie, fixedVars, at, pending, failed>>

Handler(c) ==
    \/ RegisterFindsUser(c) \/ CreateUser(c) \/ VerifyPassword(c) \/ IssueTokenPair(c)
    \/ FindToken(c) \/ RevokeTokenFamily(c) \/ RevokeRefreshToken(c)
    \/ SendFindsUser(c) \/ DeleteOtps(c) \/ CreateOtp(c) \/ SendMail(c) \/ FindOtp(c)
    \/ ForgotFindsUser(c) \/ DeleteLinks(c) \/ CreateLink(c) \/ FindLink(c)
    \/ UpdateUserPassword(c) \/ RevokeAllUserTokens(c) \/ MarkEmailVerified(c)
    \/ MarkLinkUsed(c) \/ MarkOtpUsed(c)
    \/ SignInReturns(c) \/ LinkReturns(c) \/ FindOAuthAccount(c)
    \/ FindUserByEmail(c) \/ CreateOAuthUser(c) \/ LinkVerifies(c) \/ LinkCreates(c)
    \/ CheckRemaining(c) \/ Unlink(c)
    \/ PutObject(c) \/ ReadOld(c) \/ DeleteOld(c) \/ UpdateAvatar(c)
    \/ UpdateUserProfile(c) \/ CountProjects(c)

Next == \E c \in Calls :
    \/ \E o \in Op : Begin(c, o)
    \/ Handler(c) \/ Throws(c) \/ UpdateFails(c) \/ Expire(c)

Spec == Init /\ [][Next]_vars

-----------------------------------------------------------------------------
Successful(c, o) == op[c] = o /\ at[c] = "ok"

\* schema.prisma:172 "all existing OTPs are deleted before issuing a new one": once a
\* later send was answered, the code of an earlier one verifies nobody, not even
\* after the later code is used up.
SupersededCodeIsRefused ==
    \A c, s \in Calls : Successful(c, "confirmOtp") /\ Successful(s, "sendOtp") =>
        ~(s \in mailed /\ s \in before[c] /\ arg[c] \in before[s])

\* auth.service.ts:238 "force re-login on all devices": a reset ends the sessions from
\* before it.  None of their tokens is live, nor becomes so by a refresh, except in
\* the session of a refresh that was under way during the reset: it passed the check
\* of revokedAt and issues the next token after the others were revoked.  The old
\* password and the link are used up for all that begin after the reset.
ResetIsFinal ==
    \A c \in Calls : Successful(c, "reset") =>
        /\ session[Before] # "live"
        /\ \A d \in before[c] : session[d] # "live"
        /\ \A d \in Calls : session[d] = "live" /\ family[d] \in {Before} \cup before[c] =>
              \E e \in overlap[c] : op[e] = "refresh" /\ family[e] = family[d]
        /\ \A d \in Calls : c \in before[d] =>
              /\ Successful(d, "login") => arg[d] # Before
              /\ Successful(d, "reset") => arg[d] # arg[c]

\* An account keeps a way in: one without was left by two unlinks that overlapped,
\* or by a sign-up that has created the user but not linked it yet, or failed there.
LockedOutNeedsRace ==
    user.exists /\ user.password = "null" /\ linked = {} =>
        \/ \E c, d \in Calls : /\ Successful(c, "unlink") /\ op[d] = "unlink"
                               /\ d \in overlap[c]
        \/ \E c \in Calls : op[c] = "oauth" /\ at[c] \in {"verify", "createAccount", "error"}

\* The avatar the row names is in S3, unless a request that deleted it is still to
\* name its own, or failed to.
AvatarIsStored ==
    user.avatar = "null" \/ user.avatar \in objects \/
        \E c \in Calls : op[c] = "avatar" /\ arg[c] = user.avatar
                         /\ at[c] \in {"update", "error"}

=============================================================================
