------------------------------ MODULE Workspace ------------------------------
(***************************************************************************)
(* Where the pages of apps/web send the user: the cookie checks of the     *)
(* server-rendered pages, the gate of app-shell.tsx, the guard of          *)
(* onboarding-flow.tsx, the sign-in forms and the OAuth callback, all of   *)
(* them over the one cached answer of GET /api/auth/me, beside the account *)
(* in apps/api they tell the user about.                                   *)
(*                                                                         *)
(* One user in one browser tab, with at most one mutation under way: the   *)
(* buttons are disabled while theirs is pending.                           *)
(***************************************************************************)
EXTENDS Integers

CONSTANTS
    MaxProjects, (* bound: the user's projects                             *)
    MaxClicks,   (* bound: what the user, the clock and the provider do    *)
    MaxFailures  (* bound: calls of the API that fail                      *)

ASSUME WorkspaceAssumption ==
    MaxProjects \in Nat \ {0} /\ MaxClicks \in Nat /\ MaxFailures \in Nat

VARIABLES
    account,    (* the User row, its active projects, its subscription     *)
    billing,    (* billingEnabled of the deployment                        *)
    cookie,     (* access and refresh token                                *)
    page,       (* the page shown                                          *)
    heading,    (* where router.push or router.replace is going            *)
    due,        (* have the dependencies of the page's effect changed      *)
    me,         (* the cached answer: none, null, or what me said          *)
    stale,      (* is it invalidated, or older than a minute               *)
    fetch,      (* the request for it                                      *)
    doing,      (* the mutation under way, and where its handler goes next *)
    unmarked,   (* history: markOnboardingCompleted failed                 *)
    lost,       (* history: the last request for me failed, or its refusal *)
                (* is not heeded: the old answer stays, or a sign-in came between *)
    clicks,
    failures

cache == <<me, stale, fetch, lost>>
route == <<page, heading, due>>
counts == <<clicks, failures>>
vars == <<account, billing, cookie, route, cache, doing, unmarked, counts>>

Steps == {"verify", "company", "project", "plan"}
Shell == {"projects", "settings"}
Pages == Steps \cup Shell \cup {"home", "login", "pricing", "provider", "checkout"}
SubscriptionStatus == {"none", "ACTIVE", "TRIALING", "CANCELED"}

Idle == [at |-> "none", dest |-> "none"]

\* What the API tells of an account: toOnboardingState, and the gate's isActive.
Completed(a) == a.marked \/ (a.company /\ a.projects > 0)

Told(a) == [kind |-> "user", completed |-> Completed(a), company |-> a.company,
            hasProject |-> a.projects > 0,
            live |-> ~billing \/ a.sub \in {"ACTIVE", "TRIALING"}]

\* What is not an answer about a user.
Blank(kind) == [kind |-> kind, completed |-> FALSE, company |-> FALSE,
                hasProject |-> FALSE, live |-> FALSE]

\* What requireAuth, and the interceptor before it, let through.
SignedIn == cookie.at \/ cookie.rt = "good"

Authorized == SignedIn /\ cookie' = [cookie EXCEPT !.at = TRUE]

HasSession == cookie.at \/ cookie.rt # "none"

Init ==
    /\ \/ account = [company |-> FALSE, projects |-> 0, marked |-> FALSE, sub |-> "none"]
       \/ \E s \in SubscriptionStatus :
             account = [company |-> TRUE, projects |-> 1, marked |-> TRUE, sub |-> s]
    /\ billing \in BOOLEAN
    /\ cookie \in [at : {FALSE}, rt : {"none", "good", "revoked"}]
    /\ page = "login" /\ heading = "none" /\ due = FALSE
    /\ me = Blank("none") /\ stale = FALSE /\ fetch = Blank("idle") /\ lost = FALSE
    /\ doing = Idle
    /\ unmarked = FALSE
    /\ clicks = 0 /\ failures = 0

-----------------------------------------------------------------------------
(* The cache of me (TanStack Query) and the pages that watch it.           *)

Known(m) == m.kind = "user"
Loading(m, f) == m.kind = "none" /\ f.kind # "idle"

Watches(p) == p \in Steps \cup Shell \cup {"pricing"}

\* A component that watches me and is mounted fetches it when there is none, or a
\* stale one.
Mount(p, m, s, f) == 
    IF Watches(p) /\ f.kind = "idle" /\ (m.kind = "none" \/ s) THEN Blank("sent") ELSE f

\* invalidateQueries, on the page p: what is watched is fetched again, in place of
\* the request that is under way.
Invalidate(p, m, f) ==
    /\ stale' = TRUE
    /\ fetch' = IF Watches(p) /\ (m.kind # "none" \/ f.kind = "idle") THEN Blank("sent") ELSE f

\* GET /api/auth/me with the cookies of the moment.  The interceptor refreshes a
\* missing access token and sends the request again.
Serve ==
    /\ fetch.kind = "sent"
    /\ \/ cookie.at /\ fetch' = Told(account) /\ UNCHANGED cookie
       \/ ~cookie.at /\ cookie.rt = "good" /\ cookie' = [cookie EXCEPT !.at = TRUE] /\ UNCHANGED fetch
       \/ ~cookie.at /\ cookie.rt # "good" /\ fetch' = Blank("unauthorized") /\ UNCHANGED cookie
    /\ UNCHANGED <<account, billing, route, me, stale, lost, doing, unmarked, counts>>

FailServe ==
    /\ fetch.kind = "sent" /\ failures < MaxFailures
    /\ fetch' = Blank("failed")
    /\ failures' = failures + 1
    /\ UNCHANGED <<account, billing, cookie, route, me, stale, lost, doing, unmarked, clicks>>

\* An effect that depends on the loading flag alone.
LoadingChanged(m, f, newMe, newFetch) == Loading(m, f) # Loading(newMe, newFetch)

\* The dependencies of both effects: the user, kept the same object while nothing in
\* it changes, and the gate's isLoading.
DepsChanged(m, f, newMe, newFetch) ==
    \/ (Known(m) \/ Known(newMe)) /\ m # newMe
    \/ Loading(m, f) # Loading(newMe, newFetch)

\* An error leaves the data, and its staleness, as they were.
Arrive ==
    /\ fetch.kind \notin {"idle", "sent"}
    /\ lost' = (fetch.kind \in {"failed", "late"} \/ (fetch.kind = "unauthorized" /\ me.kind # "none"))
    /\ IF fetch.kind # "user"
       THEN UNCHANGED <<me, stale>>
       ELSE me' = fetch /\ stale' = FALSE
    /\ fetch' = Blank("idle")
    /\ due' = (due \/ DepsChanged(me, fetch, me', Blank("idle")))
    /\ UNCHANGED <<account, billing, cookie, page, heading, doing, unmarked, counts>>

-----------------------------------------------------------------------------
(* Redirects.                                                              *)

\* On a page that does not watch me there is nothing to await.
Awaited == doing.at = "refetch" /\ (fetch.kind = "idle" \/ ~Watches(page))

\* The handler goes on, before the effect of what was awaited or after it.
Continue ==
    /\ Awaited
    /\ heading' = IF doing.dest = "none" THEN heading ELSE doing.dest
    /\ doing' = Idle
    /\ UNCHANGED <<account, billing, cookie, page, due, cache, unmarked, counts>>

\* The page answers from the server with a page, or a redirect to another.
Landing(p) ==
    CASE p = "login" /\ cookie.at -> "projects"
      [] p \in Steps \cup {"projects"} /\ ~HasSession -> "login"
      [] p = "home" /\ HasSession -> "projects"
      [] OTHER -> p

\* The steps are one component; every other page mounts its own.  What can go on at
\* once does so before the server has answered.
Land ==
    /\ heading # "none" /\ ~Awaited
    /\ page' = Landing(heading)
    /\ heading' = "none"
    /\ due' = (due \/ page' # page)
    /\ fetch' = IF page' = page \/ {page, page'} \subseteq Steps THEN fetch
                ELSE Mount(page', me, stale, fetch)
    /\ UNCHANGED <<account, billing, cookie, me, stale, lost, doing, unmarked, counts>>

\* A gate that asks for a project instead of a completed onboarding.
GateOnProject ==
    CASE Loading(me, fetch) -> "none"
      [] ~Loading(me, fetch) /\ ~Known(me) -> "login"
      [] Known(me) /\ ~me.hasProject -> "verify"
      [] Known(me) /\ me.hasProject /\ ~me.live -> "pricing"
      [] OTHER -> "none"

\* The effect of AppShell.
Gate ==
    CASE Loading(me, fetch) -> "none"
      [] ~Loading(me, fetch) /\ ~Known(me) -> "login"
      [] Known(me) /\ ~me.completed -> "verify"
      [] Known(me) /\ me.completed /\ ~me.live -> "pricing"
      [] OTHER -> "none"

\* The effect of OnboardingFlow.
Guard ==
    CASE ~Known(me) -> "none"
      [] Known(me) /\ me.completed -> "projects"
      [] Known(me) /\ ~me.completed /\ page \in {"project", "plan"} /\ ~me.company -> "company"
      [] OTHER -> "none"

\* Without billing there is no plan step: its index is -1, and once the user is known
\* the rendering throws, before any effect.
Crashed == page = "plan" /\ ~billing /\ Known(me)

\* A page without an effect has nothing to do.
RunEffect ==
    /\ due /\ ~Crashed
    /\ due' = FALSE
    /\ LET target == CASE page \in Shell -> Gate
                       [] page \in Steps -> Guard
                       [] OTHER -> "none"
       IN heading' = IF target = "none" THEN heading ELSE target
    /\ UNCHANGED <<account, billing, cookie, page, cache, doing, unmarked, counts>>

-----------------------------------------------------------------------------
(* What the user does.                                                     *)

Click == clicks < MaxClicks /\ clicks' = clicks + 1 /\ UNCHANGED failures

\* The list of the onboarding lets click the steps up to the present one.
Reached ==
    CASE page = "verify"  -> {"verify"}
      [] page = "company" -> {"verify", "company"}
      [] page = "project" -> {"verify", "company", "project"}
      [] page = "plan"    -> Steps

\* "Continue" or "Skip for now"; "Continue" or "Go to dashboard".
Onwards ==
    CASE page = "verify" -> {"company"}
      [] page = "project" /\ me.hasProject -> {IF billing THEN "plan" ELSE "projects"}
      [] OTHER -> {}

\* The links of what is rendered; a gated page renders none.
Links ==
    CASE page \in Steps /\ Known(me) -> Reached \cup Onwards \cup {"home"}
      [] page \in Steps /\ ~Known(me) /\ ~Loading(me, fetch) -> {"login"}
      [] page \in Shell /\ Known(me) /\ Gate = "none" -> Shell
      [] page = "pricing" /\ ~Known(me) -> {"login"}
      [] OTHER -> {}

\* The user is slower than an effect, or a redirect under way.
Rendered == heading = "none" /\ ~due /\ ~Crashed

Follow ==
    /\ Click /\ Rendered
    /\ heading' \in Links
    /\ UNCHANGED <<account, billing, cookie, page, due, cache, doing, unmarked>>

\* A URL is typed or the page reloaded: the program starts anew.
Arriving(p) ==
    /\ page' = p /\ heading' = "none" /\ due' = TRUE
    /\ me' = Blank("none") /\ stale' = FALSE /\ lost' = FALSE
    /\ fetch' = Mount(p, Blank("none"), FALSE, Blank("idle"))
    /\ doing' = Idle

Load ==
    /\ Click /\ doing = Idle
    /\ \E p \in Pages \ {"provider", "checkout"} : Arriving(Landing(p))
    /\ UNCHANGED <<account, billing, cookie, unmarked>>

\* A button: its mutation begins.  The project form needs the company, and is not
\* shown once there is a project.
Buttons ==
    CASE page = "login" -> {"signIn"}
      [] page = "company" /\ Known(me) -> {"company"}
      [] page = "project" /\ Known(me) /\ me.company /\ ~me.hasProject -> {"create"}
      [] page \in Shell /\ Known(me) /\ Gate = "none" -> {"create", "delete", "logout"}
      [] OTHER -> {}

\* Where the handler goes on to; the dialog of the shell opens a dashboard, of the
\* same shell.
Destination(b) ==
    CASE b = "company" -> "project"
      [] b = "create" /\ page = "project" /\ billing -> "plan"
      [] b = "create" /\ page = "project" /\ ~billing -> "projects"
      [] OTHER -> "none"

Submit ==
    /\ Click /\ Rendered /\ doing = Idle
    /\ \E b \in Buttons : doing' = [at |-> b, dest |-> Destination(b)]
    /\ UNCHANGED <<account, billing, cookie, route, cache, unmarked>>

\* The call of a mutation fails: an error is shown.
FailCall ==
    /\ doing.at \notin {"none", "refetch"} /\ failures < MaxFailures
    /\ failures' = failures + 1
    /\ doing' = Idle
    /\ unmarked' = (unmarked \/ doing.at = "mark")
    /\ UNCHANGED <<account, billing, cookie, route, cache, clicks>>

\* onSuccess awaits the invalidation, and with it the request, before the handler
\* goes on to dest.
Succeed(dest) ==
    /\ doing' = [at |-> "refetch", dest |-> dest]
    /\ Invalidate(page, me, fetch)
    /\ due' = (due \/ DepsChanged(me, fetch, me, fetch'))
    /\ UNCHANGED <<me, lost>>

\* register and login tell where to go by the answer's own onboarding state.  The
\* page does not watch me; a refusal still under way is late from now on (history).
SignIn ==
    /\ doing.at = "signIn"
    /\ cookie' = [at |-> TRUE, rt |-> "good"]
    /\ doing' = [at |-> "refetch",
                  dest |-> IF Completed(account) THEN "projects" ELSE "verify"]
    /\ stale' = TRUE
    /\ fetch' = IF fetch.kind = "unauthorized" THEN Blank("late") ELSE fetch
    /\ UNCHANGED <<account, billing, route, me, lost, unmarked, counts>>

SaveCompany ==
    /\ doing.at = "company" /\ Authorized
    /\ account' = [account EXCEPT !.company = TRUE]
    /\ Succeed(doing.dest)
    /\ UNCHANGED <<billing, page, heading, unmarked, counts>>

\* A service that leaves out the second write.
CreateUnmarked ==
    /\ doing.at = "create" /\ Authorized /\ account.projects < MaxProjects
    /\ account' = [account EXCEPT !.projects = @ + 1]
    /\ Succeed(doing.dest)
    /\ UNCHANGED <<billing, page, heading, unmarked, counts>>

CreateProject ==
    /\ doing.at = "create" /\ Authorized /\ account.projects < MaxProjects
    /\ account' = [account EXCEPT !.projects = @ + 1]
    /\ doing' = [doing EXCEPT !.at = "mark"]
    /\ UNCHANGED <<billing, route, cache, unmarked, counts>>

MarkOnboardingCompleted ==
    /\ doing.at = "mark"
    /\ account' = [account EXCEPT !.marked = @ \/ account.company]
    /\ Succeed(doing.dest)
    /\ UNCHANGED <<billing, cookie, page, heading, unmarked, counts>>

DeleteProject ==
    /\ doing.at = "delete" /\ Authorized /\ account.projects > 0
    /\ account' = [account EXCEPT !.projects = @ - 1]
    /\ Succeed(doing.dest)
    /\ UNCHANGED <<billing, page, heading, unmarked, counts>>

\* me becomes null before it is fetched again.
Logout ==
    /\ doing.at = "logout"
    /\ cookie' = [at |-> FALSE, rt |-> "none"]
    /\ me' = Blank("null") /\ Invalidate(page, Blank("null"), fetch)
    /\ due' = (due \/ DepsChanged(me, fetch, Blank("null"), fetch'))
    /\ doing' = [at |-> "refetch", dest |-> "none"]
    /\ UNCHANGED <<account, billing, page, heading, lost, unmarked, counts>>

\* The session has gone, there is nothing to delete, or the bound is reached: an
\* error is shown.
Refused ==
    /\ \/ doing.at \in {"company", "create", "delete"} /\ ~SignedIn
       \/ doing.at = "create" /\ account.projects = MaxProjects
       \/ doing.at = "delete" /\ account.projects = 0
    /\ doing' = Idle
    /\ UNCHANGED <<account, billing, cookie, route, cache, unmarked, counts>>

\* Sign in with Google or GitHub: the browser leaves, and comes back by the callback.
ToProvider ==
    /\ Click /\ page = "login" /\ doing = Idle
    /\ Arriving("provider")
    /\ UNCHANGED <<account, billing, cookie, unmarked>>

\* The enumeration's value is ACTIVE; the callback asks for "active".
RequiresPayment == billing /\ account.sub # "active"

OAuthCallback ==
    /\ page = "provider"
    /\ \/ cookie' = [at |-> TRUE, rt |-> "good"]
          /\ Arriving(CASE ~Completed(account) -> "verify"
                        [] Completed(account) /\ RequiresPayment -> "pricing"
                        [] OTHER -> "projects")
       \/ UNCHANGED cookie /\ Arriving(Landing("login"))
    /\ UNCHANGED <<account, billing, unmarked, counts>>

\* A plan is selected: on the plan step, or on the pricing page by whoever is known.
Checkout ==
    /\ Click /\ billing /\ Known(me) /\ page \in {"plan", "pricing"} /\ doing = Idle
    /\ Arriving("checkout")
    /\ UNCHANGED <<account, billing, cookie, unmarked>>

\* The return to projects or settings may come before the provider's webhook.
CheckoutReturns ==
    /\ page = "checkout"
    /\ \E p \in Shell : Arriving(Landing(p))
    /\ UNCHANGED <<account, billing, cookie, unmarked, counts>>

\* Time passes, a session is revoked elsewhere, a webhook sets the subscription.
Elsewhere ==
    /\ Click
    /\ \/ cookie.at /\ cookie' = [cookie EXCEPT !.at = FALSE] /\ UNCHANGED <<stale, account>>
       \/ cookie.rt = "good" /\ cookie' = [cookie EXCEPT !.rt = "revoked"] /\ UNCHANGED <<stale, account>>
       \/ ~stale /\ stale' = TRUE /\ UNCHANGED <<cookie, account>>
       \/ /\ account.sub \in SubscriptionStatus
          /\ \E s \in SubscriptionStatus \ {"none", account.sub} : account' = [account EXCEPT !.sub = s]
          /\ UNCHANGED <<cookie, stale>>
    /\ UNCHANGED <<billing, route, me, fetch, lost, doing, unmarked>>

-----------------------------------------------------------------------------
User == Follow \/ Load \/ Submit \/ ToProvider \/ Checkout \/ Elsewhere

Api ==
    \/ Serve \/ SignIn \/ SaveCompany \/ CreateProject \/ MarkOnboardingCompleted
    \/ DeleteProject \/ Logout \/ Refused

Browser == Arrive \/ Land \/ RunEffect \/ Continue

Away == OAuthCallback \/ CheckoutReturns

Next == User \/ Api \/ Browser \/ Away \/ FailServe \/ FailCall

Spec == Init /\ [][Next]_vars

\* The browser runs what is pending, and a call is answered in the end.
FairSpec == Spec /\ WF_vars(Api) /\ WF_vars(Browser)

-----------------------------------------------------------------------------
(* Properties.                                                             *)

Resting == heading = "none" /\ (~due \/ Crashed) /\ fetch.kind = "idle" /\ doing = Idle

\* No two redirects send the user to and fro: when the user, the clock and the
\* failures have ended, the pages come to rest.  The gate of the shell, the guard of
\* the onboarding and the checks of the server pages each judge on their own
\* (app-shell.tsx:120, onboarding-flow.tsx:222, app/auth/login/page.tsx:18).
RoutingSettles == <>[]Resting

\* Whoever comes to rest in the workspace was let in by what me said, and whoever
\* rests in the onboarding has a company where one is asked for, and has not
\* completed it, except where a handler's own push overtook the guard's redirect: on
\* the project and the plan step.  A failed request for me undoes this: it leaves the
\* shell for good at "Redirecting..." when the access token is there
\* (app-shell.tsx:125).
RestIsUsable ==
    Resting /\ ~lost =>
        /\ page \in Shell => Known(me) /\ me.completed /\ me.live
        /\ page \in Steps /\ Known(me) /\ ~Crashed =>
              /\ me.completed => page \in {"project", "plan"}
              /\ page \in {"project", "plan"} => me.completed \/ me.company

\* Onboarding once completed stays so, whatever is deleted later, but for a create
\* whose second write, markOnboardingCompleted, has not been made or failed
\* (project.service.ts:29).
CompletionIsFinal ==
    [][Completed(account) /\ ~unmarked /\ doing.at # "mark" => Completed(account')]_vars

\* Claim: "fully onboarded" users go from the callback to /projects (README.md:232);
\* those are the users who completed the onboarding and whose subscription the gate
\* accepts.
SubscribersReachProjects ==
    [][page = "provider" /\ cookie'.at /\ Told(account).completed /\ Told(account).live
         => page' \in {"projects", "provider"}]_vars

=============================================================================
