---------------------------- MODULE AccountPages ----------------------------
(***************************************************************************)
(* The pages of apps/web in front of the account requests: the code entry  *)
(* of the onboarding (verify-step.tsx), and the settings with their forms, *)
(* avatar dialog and connected accounts (components/settings).  Their      *)
(* requests are those of Accounts, answered call by call, while others of  *)
(* the same account come from elsewhere; what they show comes from the     *)
(* query cache, from their own state, and from answers.                    *)
(*                                                                         *)
(* One tab of a signed-in user.  A request may fail for the page while the *)
(* API still works on it.                                                  *)
(***************************************************************************)
EXTENDS Accounts

VARIABLES
    page,       (* the page shown, or none when the user has left the app   *)
    cache, fetch, (* the query cache                                        *)
    stage,      (* what a request of the pages has come to, for them        *)
    left,       (* the requests of a page that was left                     *)
    code,       (* verify-step.tsx: its step, the code in the box, the      *)
                (* cooldown, the request for a mail, the latest of a code   *)
    photo,      (* the avatar dialog: open, a file chosen, its upload       *)
    unlinking,  (* the provider to disconnect, and the request under way    *)
    form        (* of the two forms: what it holds, and its request         *)

QueryKeys == {"me", "linked"}

\* What the two answers say: the fields of the user, the linked providers.
Rows == {"name", "company", "avatar", "verified", "linked"}
        \X ({"null", Before} \cup Calls \cup Identities)

INSTANCE QueryCache

screen == <<code, photo, unlinking, form>>
queries == <<cache, fetch>>
pages == <<page, queries, stage, left, screen>>

Pages == {"verify", "company", "settings", "projects", "none"}
Entry == [step |-> "idle", typed |-> "none", cooling |-> FALSE, send |-> "none", confirm |-> "none"]
Shut == [open |-> FALSE, chosen |-> FALSE, upload |-> "none"]
NoTarget == [target |-> "none", call |-> "none"]

-----------------------------------------------------------------------------
(* The answers of GET /auth/me and /auth/oauth/accounts.                   *)

Told(k) ==
    IF k = "linked" THEN {"linked"} \X linked
    ELSE {<<"name", user.name>>, <<"company", user.company>>, <<"avatar", user.avatar>>}
         \cup (IF user.verified THEN {<<"verified", "null">>} ELSE {})

ServerReads == \E k \in QueryKeys : Read(k, Told(k), 1) /\ UNCHANGED <<vars, page, stage, left, screen>>

Fetched == \E k \in QueryKeys : Arrive(k) /\ UNCHANGED <<vars, page, stage, left, screen>>

FetchFails == \E k \in QueryKeys : Fails(k) /\ UNCHANGED <<vars, page, stage, left, screen>>

TimePasses == \E k \in QueryKeys : Age(k) /\ UNCHANGED <<vars, page, stage, left, screen>>

\* The queries that are watched: me by the shell and by the onboarding.
Watched(p) ==
    CASE p = "none" -> {}
      [] p = "settings" -> QueryKeys
      [] OTHER -> {"me"}

-----------------------------------------------------------------------------
(* Pages are mounted and left.                                             *)

\* A form takes what the cache has when it is mounted, stale or not.
Holds(field) == CHOOSE v \in {"null", Before} \cup Calls : <<field, v>> \in cache["me"].rows

Mounted(p) ==
    /\ code' = IF p = "verify" /\ <<"verified", "null">> \in cache["me"].rows
               THEN [Entry EXCEPT !.step = "verified"] ELSE Entry
    /\ photo' = Shut
    /\ unlinking' = NoTarget
    /\ form' = IF p = "settings"
               THEN [saveName |-> [holds |-> Holds("name"), call |-> "none"],
                     saveCompany |-> [holds |-> Holds("company"), call |-> "none"]]
               ELSE [f \in Saves |-> [holds |-> "null", call |-> "none"]]

Mine == {c \in Calls : stage[c] # "none"}

\* The steps of the onboarding, and the pages of the shell.
Beside == [verify |-> "company", company |-> "verify",
           settings |-> "projects", projects |-> "settings"]

Navigate ==
    /\ page # "none"
    /\ page' = Beside[page]
    /\ Mounted(page')
    /\ left' = left \cup Mine
    /\ fetch' = [k \in QueryKeys |->
           IF k \in Watched(page') \ Watched(page) THEN Subscribed(k)[k] ELSE fetch[k]]
    /\ UNCHANGED <<vars, cache, stage>>

-----------------------------------------------------------------------------
(* Requests.                                                               *)

Send(c, o, a) ==
    /\ Begin(c, o)
    /\ arg' = [arg EXCEPT ![c] = a]
    /\ stage' = [stage EXCEPT ![c] = "sent"]
    /\ UNCHANGED <<page, queries, left>>

\* What onSuccess of the hook invalidates.
Key(o) ==
    CASE o \in Saves \cup {"avatar", "confirmOtp"} -> "me"
      [] o = "unlink" -> "linked"

\* What the component does in the end, after an answer or an error.
CodeEnds(c, ok) ==
    /\ code' = CASE op[c] = "sendOtp" /\ ok ->
                      [code EXCEPT !.step = "otp-sent", !.typed = "none", !.cooling = TRUE,
                                   !.send = "none"]
                 [] op[c] = "sendOtp" /\ ~ok -> [code EXCEPT !.send = "none"]
                 [] op[c] = "confirmOtp" /\ ok -> [code EXCEPT !.step = "verified", !.confirm = "none"]
                 [] OTHER -> [code EXCEPT !.typed = "none", !.confirm = "none"]
    /\ UNCHANGED <<photo, unlinking, form>>

\* handleClose, whatever was opened and chosen since.
PhotoEnds(c, ok) ==
    /\ photo' = IF ok THEN Shut ELSE [photo EXCEPT !.upload = IF @ = c THEN "none" ELSE @]
    /\ UNCHANGED <<code, unlinking, form>>

UnlinkEnds ==
    /\ unlinking' = NoTarget
    /\ UNCHANGED <<code, photo, form>>

SaveEnds(c) ==
    /\ form' = [form EXCEPT ![op[c]].call = "none"]
    /\ UNCHANGED <<code, photo, unlinking>>

\* mutate tells only the latest call; mutateAsync tells each; a page that was left
\* hears nothing.
Hears(c) == c \notin left /\ (op[c] = "confirmOtp" => code.confirm = c)

Ends(c, ok) ==
    \/ ~Hears(c) /\ UNCHANGED screen
    \/ Hears(c) /\ op[c] \in {"sendOtp", "confirmOtp"} /\ CodeEnds(c, ok)
    \/ Hears(c) /\ op[c] = "avatar" /\ PhotoEnds(c, ok)
    \/ Hears(c) /\ op[c] = "unlink" /\ UnlinkEnds
    \/ Hears(c) /\ op[c] \in Saves /\ SaveEnds(c)

MailAnswered(c) ==
    /\ stage[c] = "sent" /\ op[c] = "sendOtp" /\ at[c] = "ok"
    /\ stage' = [stage EXCEPT ![c] = "done"]
    /\ IF Hears(c) THEN CodeEnds(c, TRUE) ELSE UNCHANGED screen
    /\ UNCHANGED <<vars, page, queries, left>>

\* A slip: only who still listens invalidates.
HeardAnswered(c) ==
    /\ stage[c] = "sent" /\ op[c] # "sendOtp" /\ at[c] = "ok"
    /\ IF Hears(c) THEN Invalidate({Key(op[c])}, Watched(page), {}) ELSE UNCHANGED queries
    /\ stage' = [stage EXCEPT ![c] = "awaits"]
    /\ UNCHANGED <<vars, page, left, screen>>

\* onSuccess awaits the refetch of what it invalidates, if it is watched; a later
\* invalidation, which starts the refetch anew, lets it go.
Answered(c) ==
    /\ stage[c] = "sent" /\ op[c] # "sendOtp" /\ at[c] = "ok"
    /\ Invalidate({Key(op[c])}, Watched(page), {})
    /\ stage' = [d \in Calls |->
           IF d = c THEN IF Key(op[c]) \in Watched(page) THEN "awaits" ELSE "woken"
           ELSE IF stage[d] = "awaits" /\ Key(op[d]) = Key(op[c]) THEN "woken"
           ELSE stage[d]]
    /\ UNCHANGED <<vars, page, left, screen>>

Continues(c) ==
    /\ stage[c] = "woken" \/ (stage[c] = "awaits" /\ ~InFlight(Key(op[c])))
    /\ stage' = [stage EXCEPT ![c] = "done"]
    /\ Ends(c, TRUE)
    /\ UNCHANGED <<vars, page, queries, left>>

\* A 4xx or 5xx, or no answer, although the API may still be at work.
ErrorShown(c) ==
    /\ stage[c] = "sent"
    /\ \/ at[c] \in {"refused", "error"} /\ stage' = [stage EXCEPT ![c] = "done"]
       \/ stage' = [stage EXCEPT ![c] = "lost"]
    /\ Ends(c, FALSE)
    /\ UNCHANGED <<vars, page, queries, left>>

-----------------------------------------------------------------------------
(* The code entry.                                                         *)

Still == UNCHANGED <<vars, page, queries, stage, left>>

handleSend(c) ==
    /\ page = "verify" /\ code.send = "none"
    /\ code.step = "idle" \/ (code.step = "otp-sent" /\ ~code.cooling)
    /\ Send(c, "sendOtp", "null")
    /\ code' = [code EXCEPT !.send = c]
    /\ UNCHANGED <<photo, unlinking, form>>

\* The cooldown of a resend.
Cool ==
    /\ code.cooling
    /\ code' = [code EXCEPT !.cooling = FALSE]
    /\ Still /\ UNCHANGED <<photo, unlinking, form>>

\* Six digits, those of a mail or others; the box is disabled while a code is
\* confirmed.
EnterCode ==
    /\ page = "verify" /\ code.step = "otp-sent" /\ code.typed = "none" /\ code.confirm = "none"
    /\ \E x \in {d \in mailed : op[d] = "sendOtp"} \cup {"wrong"} :
           code' = [code EXCEPT !.typed = x]
    /\ Still /\ UNCHANGED <<photo, unlinking, form>>

\* The effect that submits depends on the mutation, a new object with each rendering:
\* every rendering submits again, and each submission renders.
submitOtp(c) ==
    /\ page = "verify" /\ code.step = "otp-sent" /\ code.typed # "none"
    /\ Send(c, "confirmOtp", IF code.typed = "wrong" THEN c ELSE code.typed)
    /\ code' = [code EXCEPT !.confirm = c]
    /\ UNCHANGED <<photo, unlinking, form>>

-----------------------------------------------------------------------------
(* The settings.                                                           *)

OpenPhoto ==
    /\ page = "settings" /\ ~photo.open
    /\ photo' = [photo EXCEPT !.open = TRUE]
    /\ Still /\ UNCHANGED <<code, unlinking, form>>

\* A file is chosen, or the choice undone, while an upload is under way too.
handleFileChange ==
    /\ photo.open
    /\ photo' = [photo EXCEPT !.chosen = ~@]
    /\ Still /\ UNCHANGED <<code, unlinking, form>>

handleUpload(c) ==
    /\ photo.open /\ photo.chosen /\ photo.upload = "none"
    /\ Send(c, "avatar", "null")
    /\ photo' = [photo EXCEPT !.upload = c]
    /\ UNCHANGED <<code, unlinking, form>>

\* Escape closes it at any time, and the mutation is reset.
ClosePhoto ==
    /\ photo.open
    /\ photo' = Shut
    /\ Still /\ UNCHANGED <<code, unlinking, form>>

Shown(i) == cache["linked"].has # "nothing" /\ <<"linked", i>> \in cache["linked"].rows

Disconnect ==
    /\ page = "settings" /\ unlinking.target = "none"
    /\ \E i \in Identities : Shown(i) /\ unlinking' = [unlinking EXCEPT !.target = i]
    /\ Still /\ UNCHANGED <<code, photo, form>>

CloseUnlink ==
    /\ unlinking.target # "none"
    /\ unlinking' = [unlinking EXCEPT !.target = "none"]
    /\ Still /\ UNCHANGED <<code, photo, form>>

\* The button is disabled while an unlink is under way; pressing it closes the dialog.
handleUnlink(c) ==
    /\ unlinking.target # "none" /\ unlinking.call = "none"
    /\ Send(c, "unlink", unlinking.target)
    /\ unlinking' = [target |-> "none", call |-> c]
    /\ UNCHANGED <<code, photo, form>>

\* Connect leaves the app for the provider.
Connect(c) ==
    /\ page = "settings" /\ cache["linked"].has # "nothing"
    /\ \E i \in Identities : ~Shown(i) /\ Begin(c, "link") /\ arg' = [arg EXCEPT ![c] = i]
    /\ page' = "none" /\ Mounted("none")
    /\ cache' = [k \in QueryKeys |-> Nothing] /\ fetch' = [k \in QueryKeys |-> NoFetch]
    /\ left' = left \cup Mine
    /\ stage' = [d \in Calls |-> IF stage[d] = "none" THEN "none" ELSE "done"]

\* A form is submitted as it is, if it is filled in, or with something new, which it
\* then holds.
SubmitForm(c) ==
    /\ page = "settings"
    /\ \E f \in Saves :
           /\ form[f].call = "none"
           /\ \E v \in {c, form[f].holds} \ {"null"} :
                 /\ Send(c, f, v)
                 /\ form' = [form EXCEPT ![f] = [holds |-> v, call |-> c]]
    /\ UNCHANGED <<code, photo, unlinking>>

-----------------------------------------------------------------------------
Click(c) ==
    \/ handleSend(c) \/ submitOtp(c) \/ handleUpload(c) \/ handleUnlink(c)
    \/ Connect(c) \/ SubmitForm(c)

Outcome(c) == MailAnswered(c) \/ Answered(c) \/ Continues(c) \/ ErrorShown(c)

PageAlone ==
    \/ Navigate \/ Cool \/ EnterCode \/ OpenPhoto \/ handleFileChange \/ ClosePhoto
    \/ Disconnect \/ CloseUnlink
    \/ ServerReads \/ Fetched \/ FetchFails \/ TimePasses

\* The requests go on call by call, and others come from elsewhere.
PagesNext ==
    \/ Next /\ UNCHANGED pages
    \/ \E c \in Calls : Click(c) \/ Outcome(c)
    \/ PageAlone

\* Nobody's page, or one of a user who is signed in, with what it shows loaded.
PagesInit ==
    /\ Init
    /\ stage = [c \in Calls |-> "none"] /\ left = {}
    /\ photo = Shut /\ unlinking = NoTarget
    /\ page \in {"none"} \cup (IF ~user.exists THEN {} ELSE IF user.verified THEN {"settings"}
                              ELSE {"settings", "verify"})
    /\ cache = [k \in QueryKeys |->
           IF k \in Watched(page)
           THEN [Nothing EXCEPT !.has = "data", !.rows = Told(k), !.stale = FALSE]
           ELSE Nothing]
    /\ form = [f \in Saves |->
           [holds |-> IF page # "settings" THEN "null"
                      ELSE IF f = "saveName" THEN user.name ELSE user.company,
            call |-> "none"]]
    /\ fetch = [k \in QueryKeys |-> NoFetch]
    /\ code = Entry

PagesSpec == PagesInit /\ [][PagesNext]_<<vars, pages>>

-----------------------------------------------------------------------------
\* The requests that change what an answer says.
Writers(k) == IF k = "linked" THEN {"unlink", "oauth"}
              ELSE Saves \cup {"avatar", "confirmOtp", "oauth"}

Heard(c) == at[c] = "refused" \/ (at[c] = "ok" /\ stage[c] \in {"awaits", "woken", "done"})

Fresh(k) == cache[k].has = "data" /\ ~cache[k].stale /\ ~cache[k].overtaken

(* What the pages say is so.  When every request that changes it has been   *)
(* answered to this tab, a fresh answer in its cache is what the account    *)
(* has: of uploads, saves and unlinks that overlap, those of a closed       *)
(* dialog, of a superseded code or of a page that was left among them.      *)
(* "Email verified" is shown of a verified address, and a code is only      *)
(* asked for after one was mailed, or has verified it.                      *)
PagesTellTheTruth ==
    /\ \A k \in QueryKeys :
          Fresh(k) /\ (\A c \in Calls : op[c] \in Writers(k) => Heard(c))
              => cache[k].rows = Told(k)
    /\ code.step = "verified" => user.verified
    /\ code.step = "otp-sent" => user.verified \/ \E c \in Mine : c \in mailed

=============================================================================
