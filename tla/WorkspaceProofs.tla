--------------------------- MODULE WorkspaceProofs ---------------------------
(***************************************************************************)
(* Proofs about Workspace: an onboarding once completed stays so, and the  *)
(* pages rest only where the user may be.                                  *)
(***************************************************************************)
EXTENDS Workspace, TLAPS

USE DEF cache, route, counts

-----------------------------------------------------------------------------
(* The invariant.                                                           *)

Answers ==
    [kind : {"none", "null", "idle", "sent", "unauthorized", "failed", "late", "user"},
     completed : BOOLEAN, company : BOOLEAN, hasProject : BOOLEAN, live : BOOLEAN]

Targets == (Pages \ {"provider", "checkout"}) \cup {"none"}

Mutations == {"none", "refetch", "mark", "signIn", "company", "create", "delete", "logout"}

WorkspaceTypes ==
    /\ account \in [company : BOOLEAN, projects : Nat, marked : BOOLEAN,
                    sub : SubscriptionStatus]
    /\ me \in Answers /\ fetch \in Answers
    /\ page \in Pages /\ heading \in Targets
    /\ doing \in [at : Mutations, dest : Targets]
    /\ unmarked \in BOOLEAN

\* What the browser was told about the company was so, and stays so.
ToldInv ==
    /\ me.company \/ me.completed => account.company
    /\ fetch.company \/ fetch.completed => account.company

\* A project needs a company, and who leaves for another site does nothing here.
DoingInv ==
    /\ doing.at \in {"create", "mark"} => account.company
    /\ page \in {"provider", "checkout"} => doing.at = "none"

\* Whoever has a company and a project is marked, but for the create whose second
\* write is still to come or has failed.
MarkedInv ==
    /\ account.marked \/ account.projects > 0 => account.company
    /\ account.projects > 0 /\ ~unmarked /\ doing.at # "mark" => account.marked

WorkspaceInv == WorkspaceTypes /\ ToldInv /\ DoingInv /\ MarkedInv

LEMMA BlankAnswer ==
    ASSUME NEW k \in {"none", "null", "idle", "sent", "unauthorized", "failed", "late"}
    PROVE  Blank(k) \in Answers /\ ~Blank(k).company /\ ~Blank(k).completed
  BY DEF Blank, Answers

LEMMA ToldAnswer ==
    ASSUME WorkspaceTypes, MarkedInv
    PROVE  /\ Told(account) \in Answers
           /\ Told(account).company \/ Told(account).completed => account.company
  BY DEF WorkspaceTypes, MarkedInv, Told, Completed, Answers

LEMMA LandingPages ==
    ASSUME NEW p \in Pages
    PROVE  /\ Landing(p) \in Pages
           /\ p \notin {"provider", "checkout"} => Landing(p) \notin {"provider", "checkout"}
  BY DEF Landing, Pages, Steps, Shell

\* What a fetch becomes at a mount and at an invalidation.
LEMMA FetchAgain ==
    ASSUME NEW p, NEW m, NEW s, NEW f
    PROVE  /\ Mount(p, m, s, f) \in {f, Blank("sent")}
           /\ Invalidate(p, m, f) => fetch' \in {f, Blank("sent")}
  BY DEF Mount, Invalidate

\* A step of the browser: the account is as it was, no mutation begins, and what is
\* told is what was asked.
LEMMA BrowserKeeps ==
    ASSUME WorkspaceInv, UNCHANGED account,
           me' \in {me, fetch, Blank("none"), Blank("null")},
           fetch' \in {fetch, Told(account)} \cup
               {Blank(k) : k \in {"idle", "sent", "unauthorized", "failed", "late"}},
           page' \in Pages, heading' \in Targets,
           doing' \in [at : Mutations, dest : Targets], unmarked' \in BOOLEAN,
           unmarked => unmarked',
           doing'.at = doing.at
           \/ (doing'.at \in {"none", "refetch"} /\ (doing.at = "mark" => unmarked')),
           page' \in {"provider", "checkout"} => doing'.at = "none"
    PROVE  WorkspaceInv'
<1> USE DEF WorkspaceInv
<1>1. me' \in Answers /\ (me'.company \/ me'.completed => account.company)
  BY BlankAnswer DEF WorkspaceTypes, ToldInv
<1>2. fetch' \in Answers /\ (fetch'.company \/ fetch'.completed => account.company)
  BY BlankAnswer, ToldAnswer DEF WorkspaceTypes, ToldInv
<1>3. WorkspaceTypes' /\ ToldInv'
  BY <1>1, <1>2 DEF WorkspaceTypes, ToldInv
<1>4. DoingInv' /\ MarkedInv'
  BY DEF WorkspaceTypes, DoingInv, MarkedInv
<1> QED  BY <1>3, <1>4

-----------------------------------------------------------------------------
(* Steps.                                                                   *)

IdleFacts == Idle \in [at : Mutations, dest : Targets] /\ Idle.at = "none"

LEMMA IdleIsTyped == IdleFacts
  BY DEF IdleFacts, Idle, Mutations, Targets

\* A page loads: nothing was under way that a page does not lose.
LEMMA ArrivingKeeps ==
    ASSUME WorkspaceInv, NEW p \in Pages, Arriving(p), doing.at = "none",
           UNCHANGED <<account, unmarked>>
    PROVE  WorkspaceInv'
<1>1. /\ page' = p /\ heading' = "none" /\ me' = Blank("none") /\ doing' = Idle
      /\ fetch' \in {Blank("idle"), Blank("sent")}
  BY FetchAgain DEF Arriving
<1> QED  BY <1>1, BrowserKeeps, IdleIsTyped DEF IdleFacts, Targets, WorkspaceInv, WorkspaceTypes

LEMMA BrowserStep ==
    ASSUME WorkspaceInv, Browser \/ Serve \/ FailServe
    PROVE  WorkspaceInv'
<1> USE DEF WorkspaceInv, WorkspaceTypes
<1>1. ASSUME Serve \/ FailServe PROVE WorkspaceInv'
  <2>1. /\ UNCHANGED <<account, me, page, heading, doing, unmarked>>
        /\ fetch' \in {fetch, Told(account), Blank("unauthorized"), Blank("failed")}
    BY <1>1 DEF Serve, FailServe
  <2> QED  BY <2>1, BrowserKeeps DEF DoingInv
<1>2. ASSUME Arrive PROVE WorkspaceInv'
  <2>1. /\ UNCHANGED <<account, page, heading, doing, unmarked>>
        /\ me' \in {me, fetch} /\ fetch' = Blank("idle")
    BY <1>2 DEF Arrive
  <2> QED  BY <2>1, BrowserKeeps DEF DoingInv
<1>3. ASSUME Continue PROVE WorkspaceInv'
  <2>1. /\ UNCHANGED <<account, me, fetch, page, unmarked>> /\ doing.at = "refetch"
        /\ heading' \in {heading, doing.dest} /\ doing' = Idle
    BY <1>3 DEF Continue, Awaited
  <2> QED  BY <2>1, BrowserKeeps, IdleIsTyped DEF IdleFacts
<1>4. ASSUME Land PROVE WorkspaceInv'
  <2>1. /\ UNCHANGED <<account, me, doing, unmarked>> /\ heading # "none"
        /\ page' = Landing(heading) /\ heading' = "none"
        /\ fetch' \in {fetch, Blank("sent")}
    BY <1>4, FetchAgain DEF Land
  <2>2. page' \in Pages \ {"provider", "checkout"}
    BY <2>1, LandingPages DEF Targets
  <2> QED  BY <2>1, <2>2, BrowserKeeps DEF Targets
<1>5. ASSUME RunEffect PROVE WorkspaceInv'
  <2>1. UNCHANGED <<account, me, fetch, page, doing, unmarked>>
    BY <1>5 DEF RunEffect
  <2>2. heading' \in Targets
    BY <1>5 DEF RunEffect, Gate, Guard, Targets, Pages, Steps, Shell
  <2> QED  BY <2>1, <2>2, BrowserKeeps DEF DoingInv
<1> QED  BY <1>1, <1>2, <1>3, <1>4, <1>5 DEF Browser

LEMMA UserStep ==
    ASSUME WorkspaceInv, User \/ Away
    PROVE  WorkspaceInv'
<1> USE DEF WorkspaceInv, WorkspaceTypes
<1>1. ASSUME Follow PROVE WorkspaceInv'
  <2>1. UNCHANGED <<account, me, fetch, page, doing, unmarked>>
    BY <1>1 DEF Follow
  <2>2. heading' \in Targets
    BY <1>1 DEF Follow, Links, Reached, Onwards, Targets, Pages, Steps, Shell
  <2> QED  BY <2>1, <2>2, BrowserKeeps DEF DoingInv
<1>2. ASSUME Load PROVE WorkspaceInv'
  <2>1. PICK p \in Pages \ {"provider", "checkout"} : Arriving(Landing(p))
    BY <1>2 DEF Load
  <2> QED  BY <1>2, <2>1, LandingPages, ArrivingKeeps, IdleIsTyped DEF Load, IdleFacts
<1>3. ASSUME Submit PROVE WorkspaceInv'
  <2>1. PICK b \in Buttons : doing' = [at |-> b, dest |-> Destination(b)]
    BY <1>3 DEF Submit
  <2>2. UNCHANGED <<account, me, fetch, page, heading, unmarked>> /\ doing.at = "none"
    BY <1>3, IdleIsTyped DEF Submit, IdleFacts
  <2>3. /\ b \in {"signIn", "company", "create", "delete", "logout"}
        /\ page \notin {"provider", "checkout"}
        /\ b = "create" => me.company \/ me.completed
    BY <2>1 DEF Buttons, Gate, Known, Steps, Shell
  <2>4. Destination(b) \in Targets
    BY DEF Destination, Targets, Pages, Steps, Shell
  <2>5. WorkspaceTypes' /\ ToldInv' /\ MarkedInv'
    BY <2>1, <2>2, <2>3, <2>4 DEF ToldInv, MarkedInv, Mutations
  <2>6. DoingInv'
    BY <2>1, <2>2, <2>3 DEF DoingInv, ToldInv
  <2> QED  BY <2>5, <2>6
<1>4. ASSUME ToProvider \/ Checkout PROVE WorkspaceInv'
  <2>1. \E p \in {"provider", "checkout"} : Arriving(p)
    BY <1>4 DEF ToProvider, Checkout
  <2>2. doing.at = "none" /\ UNCHANGED <<account, unmarked>>
    BY <1>4, IdleIsTyped DEF ToProvider, Checkout, IdleFacts
  <2> QED  BY <2>1, <2>2, ArrivingKeeps DEF Pages
<1>5. ASSUME OAuthCallback \/ CheckoutReturns PROVE WorkspaceInv'
  <2>1. doing.at = "none" /\ UNCHANGED <<account, unmarked>>
    BY <1>5 DEF OAuthCallback, CheckoutReturns, DoingInv
  <2>2. \E p \in Pages : Arriving(p)
    BY <1>5, LandingPages DEF OAuthCallback, CheckoutReturns, Pages, Steps, Shell
  <2> QED  BY <2>1, <2>2, ArrivingKeeps
<1>6. ASSUME Elsewhere PROVE WorkspaceInv'
  <2>1. /\ UNCHANGED <<me, fetch, page, heading, doing, unmarked>>
        /\ account' = account
           \/ \E s \in SubscriptionStatus : account' = [account EXCEPT !.sub = s]
    BY <1>6 DEF Elsewhere
  <2> QED  BY <2>1 DEF ToldInv, DoingInv, MarkedInv
<1> QED  BY <1>1, <1>2, <1>3, <1>4, <1>5, <1>6 DEF User, Away

LEMMA MutationStep ==
    ASSUME WorkspaceInv,
           SignIn \/ SaveCompany \/ CreateProject \/ MarkOnboardingCompleted
           \/ DeleteProject \/ Logout \/ Refused \/ FailCall
    PROVE  WorkspaceInv'
<1> USE DEF WorkspaceInv, WorkspaceTypes
<1>1. ASSUME SignIn PROVE WorkspaceInv'
  <2>1. /\ UNCHANGED <<account, me, page, heading, unmarked>> /\ doing.at = "signIn"
        /\ fetch' \in {fetch, Blank("late")}
        /\ doing' = [at |-> "refetch",
                     dest |-> IF Completed(account) THEN "projects" ELSE "verify"]
    BY <1>1 DEF SignIn
  <2> QED
    BY <2>1, BrowserKeeps DEF DoingInv, Mutations, Targets, Pages, Steps, Shell
\* The account changes, and the browser asks again.
<1>2. ASSUME account' \in [company : BOOLEAN, projects : Nat, marked : BOOLEAN,
                           sub : SubscriptionStatus],
             account.company => account'.company,
             doing.at \in {"company", "create", "mark", "delete"}, Succeed(doing.dest),
             UNCHANGED <<page, heading, unmarked>>, MarkedInv'
      PROVE  WorkspaceInv'
  <2>1. /\ doing' = [at |-> "refetch", dest |-> doing.dest] /\ me' = me
        /\ fetch' \in {fetch, Blank("sent")}
    BY <1>2, FetchAgain DEF Succeed
  <2>2. ToldInv'
    BY <1>2, <2>1, BlankAnswer DEF ToldInv
  <2>3. WorkspaceTypes'
    BY <1>2, <2>1, BlankAnswer DEF Mutations
  <2>4. DoingInv'
    BY <1>2, <2>1 DEF DoingInv
  <2> QED  BY <1>2, <2>2, <2>3, <2>4
<1>3. ASSUME SaveCompany PROVE WorkspaceInv'
  <2>1. /\ account' = [account EXCEPT !.company = TRUE] /\ doing.at = "company"
        /\ Succeed(doing.dest) /\ UNCHANGED <<page, heading, unmarked>>
    BY <1>3 DEF SaveCompany
  <2>2. MarkedInv'
    BY <2>1 DEF MarkedInv
  <2> QED  BY <1>2, <2>1, <2>2
<1>4. ASSUME CreateProject PROVE WorkspaceInv'
  <2>1. /\ account' = [account EXCEPT !.projects = @ + 1]
        /\ doing' = [doing EXCEPT !.at = "mark"] /\ doing.at = "create"
        /\ UNCHANGED <<me, fetch, page, heading, unmarked>>
    BY <1>4 DEF CreateProject
  <2>2. account.company
    BY <2>1 DEF DoingInv
  <2> QED  BY <2>1, <2>2 DEF ToldInv, DoingInv, MarkedInv, Mutations
<1>5. ASSUME MarkOnboardingCompleted PROVE WorkspaceInv'
  <2>1. /\ account' = [account EXCEPT !.marked = account.marked \/ account.company]
        /\ doing.at = "mark" /\ Succeed(doing.dest) /\ UNCHANGED <<page, heading, unmarked>>
    BY <1>5 DEF MarkOnboardingCompleted
  <2>2. MarkedInv'
    BY <2>1 DEF MarkedInv, DoingInv
  <2> QED  BY <1>2, <2>1, <2>2
<1>6. ASSUME DeleteProject PROVE WorkspaceInv'
  <2>1. /\ account' = [account EXCEPT !.projects = @ - 1] /\ account.projects > 0
        /\ doing.at = "delete" /\ Succeed(doing.dest) /\ UNCHANGED <<page, heading, unmarked>>
    BY <1>6 DEF DeleteProject
  <2>2. account.projects - 1 \in Nat
    BY <2>1
  <2>3. MarkedInv'
    BY <2>1, <2>2 DEF MarkedInv
  <2> QED  BY <1>2, <2>1, <2>2, <2>3
<1>7. ASSUME Logout PROVE WorkspaceInv'
  <2>1. /\ UNCHANGED <<account, page, heading, unmarked>> /\ doing.at = "logout"
        /\ me' = Blank("null") /\ doing' = [at |-> "refetch", dest |-> "none"]
        /\ fetch' \in {fetch, Blank("sent")}
    BY <1>7, FetchAgain DEF Logout
  <2> QED  BY <2>1, BrowserKeeps DEF DoingInv, Mutations, Targets
<1>8. ASSUME Refused PROVE WorkspaceInv'
  <2>1. /\ UNCHANGED <<account, me, fetch, page, heading, unmarked>>
        /\ doing.at # "mark" /\ doing' = Idle
    BY <1>8 DEF Refused
  <2> QED  BY <2>1, BrowserKeeps, IdleIsTyped DEF IdleFacts
<1>9. ASSUME FailCall PROVE WorkspaceInv'
  <2>1. /\ UNCHANGED <<account, me, fetch, page, heading>> /\ doing' = Idle
        /\ unmarked' = (unmarked \/ doing.at = "mark")
    BY <1>9 DEF FailCall
  <2> QED  BY <2>1, BrowserKeeps, IdleIsTyped DEF IdleFacts
<1> QED  BY <1>1, <1>3, <1>4, <1>5, <1>6, <1>7, <1>8, <1>9

LEMMA WorkspaceStep == WorkspaceInv /\ [Next]_vars => WorkspaceInv'
<1> SUFFICES ASSUME WorkspaceInv, [Next]_vars PROVE WorkspaceInv'
  OBVIOUS
<1>1. CASE UNCHANGED vars
  BY <1>1 DEF vars, WorkspaceInv, WorkspaceTypes, ToldInv, DoingInv, MarkedInv
<1> QED  BY <1>1, BrowserStep, UserStep, MutationStep DEF Next, Api

LEMMA WorkspaceInit == Init => WorkspaceInv
<1> SUFFICES ASSUME Init PROVE WorkspaceInv
  OBVIOUS
<1>1. /\ account \in [company : BOOLEAN, projects : Nat, marked : BOOLEAN,
                      sub : SubscriptionStatus]
      /\ account.projects > 0 => account.marked
      /\ account.marked \/ account.projects > 0 => account.company
  <2>1. CASE account = [company |-> FALSE, projects |-> 0, marked |-> FALSE, sub |-> "none"]
    BY <2>1 DEF SubscriptionStatus
  <2>2. CASE \E s \in SubscriptionStatus :
                 account = [company |-> TRUE, projects |-> 1, marked |-> TRUE, sub |-> s]
    BY <2>2
  <2> QED  BY <2>1, <2>2 DEF Init
<1>2. /\ me = Blank("none") /\ fetch = Blank("idle") /\ page = "login" /\ heading = "none"
      /\ doing = Idle /\ unmarked = FALSE
  BY DEF Init
<1>3. WorkspaceTypes /\ ToldInv
  BY <1>1, <1>2, BlankAnswer, IdleIsTyped
     DEF WorkspaceTypes, ToldInv, IdleFacts, Targets, Pages
<1>4. DoingInv /\ MarkedInv
  BY <1>1, <1>2, IdleIsTyped DEF DoingInv, MarkedInv, IdleFacts
<1> QED  BY <1>3, <1>4 DEF WorkspaceInv

-----------------------------------------------------------------------------
(* What brings the pages to rest.                                           *)

Watched == Watches(page)

\* The answers: a sign-out leaves a stale null, a refusal is for whoever has no
\* session, and what was told of a company is not taken back.
AnswersInv ==
    /\ cookie \in [at : BOOLEAN, rt : {"none", "good", "revoked"}]
    /\ me.kind \in {"none", "null", "user"} /\ fetch.kind \notin {"none", "null"}
    /\ me.kind = "null" => stale
    /\ fetch.kind = "unauthorized" => ~SignedIn
    /\ fetch.kind = "user" /\ me.company => fetch.company
    /\ ~billing => (Known(me) => me.live) /\ (fetch.kind = "user" => fetch.live)

\* Whoever is unknown for good has no session.
StrangerInv ==
    page \in Steps \cup Shell /\ ~Known(me) /\ fetch.kind = "idle" /\ ~lost => ~SignedIn

\* A mutation of a known user, and where its handler goes.
DestInv ==
    /\ doing.at = "none" => doing.dest = "none"
    /\ doing.at = "signIn" => page = "login" /\ heading = "none" /\ doing.dest = "none"
    /\ doing.at \in {"company", "create", "mark", "delete", "logout"} => Known(me)
    /\ doing.at \in {"delete", "logout"} => doing.dest = "none"
    /\ doing.at = "company" => doing.dest = "project"
    /\ doing.at \in {"create", "mark"} =>
           /\ doing.dest \in {"none", "plan", "projects"}
           /\ doing.dest = "plan" => me.company
           /\ doing.dest = "projects" => ~billing
    /\ doing.at = "mark" => account.projects > 0

\* A handler that goes on to dest, from a page that watches me, was told what it did,
\* but for a request that failed.
RefetchInv ==
    doing.at = "refetch" =>
        /\ doing.dest \in {"none", "project", "plan", "projects", "verify"}
        /\ doing.dest = "verify" => page = "login"
        /\ doing.dest = "plan" => Known(me) /\ me.company
        /\ doing.dest = "project" =>
               /\ account.company /\ Known(me)
               /\ Watched => /\ fetch.kind = "user" => fetch.company
                             /\ fetch.kind = "idle" => lost \/ me.company
        /\ doing.dest = "projects" =>
               /\ Completed(account)
               /\ Watched => /\ Known(me) /\ ~billing
                             /\ fetch.kind = "user" => fetch.completed
                             /\ fetch.kind = "idle" => lost \/ me.completed

\* The gate has judged what me says: it let the user in, or sends the user away, or
\* more is to come.
GateInv ==
    page \in Shell /\ ~due =>
        \/ Gate = "none"
        \/ ~Known(me) /\ (lost \/ fetch.kind # "idle" \/ (heading = "login" /\ ~SignedIn))
        \/ Known(me) /\ heading \in Steps \cup {"pricing"}
        \/ /\ lost /\ Known(me) /\ ~me.completed /\ Completed(account) /\ doing = Idle
           /\ fetch.kind = "user" => fetch.completed

\* So has the guard, unless a handler's push overtook it.
GuardInv ==
    page \in Steps /\ ~due =>
        \/ Guard = "none"
        \/ heading \notin {"none", page}
        \/ me.completed /\ page \in {"project", "plan"}
        \/ /\ lost /\ Known(me) /\ ~me.company /\ account.company
           /\ fetch.kind = "user" => fetch.company

RestInv ==
    /\ WorkspaceInv /\ AnswersInv /\ StrangerInv /\ DestInv /\ RefetchInv
    /\ GateInv /\ GuardInv

\* What the gate and the guard say, and where the server pages lead.
GateSays ==
    /\ Loading(me, fetch) => Gate = "none"
    /\ ~Loading(me, fetch) /\ ~Known(me) => Gate = "login"
    /\ Known(me) /\ ~me.completed => Gate = "verify"
    /\ Known(me) /\ me.completed /\ ~me.live => Gate = "pricing"
    /\ Known(me) /\ me.completed /\ me.live => Gate = "none"

GuardSays ==
    /\ ~Known(me) => Guard = "none"
    /\ Known(me) /\ me.completed => Guard = "projects"
    /\ Known(me) /\ ~me.completed /\ page \in {"project", "plan"} /\ ~me.company => Guard = "company"
    /\ Known(me) /\ ~me.completed /\ (page \in {"project", "plan"} => me.company) => Guard = "none"

LEMMA Judgements == GateSays /\ GuardSays
<1>1. Known(me) => ~Loading(me, fetch)
  BY DEF Known, Loading
<1>2. GateSays
  BY <1>1 DEF GateSays, Gate
<1>3. GuardSays
  BY DEF GuardSays, Guard
<1> QED  BY <1>2, <1>3

LEMMA JudgementsNext == GateSays' /\ GuardSays'
  BY Judgements, PTL

LEMMA Leads ==
    ASSUME NEW p \in Pages
    PROVE  /\ Landing(p) \in {p, "projects", "login"}
           /\ p \in Steps \cup {"pricing"} => Landing(p) \in {p, "login"}
           /\ p = "login" /\ ~cookie.at => Landing(p) = "login"
  BY DEF Landing, Pages, Steps, Shell

\* What the user finds to click.
LEMMA LinksShown ==
    ASSUME NEW l \in Links
    PROVE  /\ page \in Shell => Known(me) /\ Gate = "none" /\ l \in Shell
           /\ page \notin Steps \cup Shell => page = "pricing" /\ ~Known(me) /\ l = "login"
  BY DEF Links, Steps, Shell

LEMMA ButtonsShown ==
    ASSUME NEW b \in Buttons
    PROVE  /\ b \in {"signIn", "company", "create", "delete", "logout"}
           /\ b = "signIn" => page = "login"
           /\ b # "signIn" => Known(me)
           /\ page \in Shell => Gate = "none"
           /\ page \in Steps => b = "company" \/ (b = "create" /\ page = "project" /\ me.company)
           /\ page \notin Steps \cup Shell => b = "signIn"
  BY DEF Buttons, Steps, Shell

LEMMA Destinations ==
    ASSUME NEW b \in {"signIn", "company", "create", "delete", "logout"}
    PROVE  /\ b = "company" => Destination(b) = "project"
           /\ b = "create" => Destination(b) \in {"none", "plan", "projects"}
           /\ b = "create" /\ Destination(b) = "plan" => page = "project"
           /\ b = "create" /\ Destination(b) = "projects" => ~billing
           /\ b \in {"signIn", "delete", "logout"} => Destination(b) = "none"
  BY DEF Destination

\* What an arrival leaves of the page before: nothing.
LEMMA Arrivals ==
    ASSUME NEW p, Arriving(p)
    PROVE  /\ page' = p /\ heading' = "none" /\ due' /\ me' = Blank("none") /\ ~stale' /\ ~lost'
           /\ doing' = [at |-> "none", dest |-> "none"]
           /\ fetch' = IF Watches(p) THEN Blank("sent") ELSE Blank("idle")
  BY DEF Arriving, Mount, Blank, Idle

Arrives == \E p \in Pages : Arriving(p)

LEMMA WhoArrives ==
    ASSUME Load \/ ToProvider \/ OAuthCallback \/ Checkout \/ CheckoutReturns
    PROVE  Arrives /\ UNCHANGED billing
<1>1. Load \/ CheckoutReturns => Arrives
  BY LandingPages DEF Load, CheckoutReturns, Arrives, Pages, Shell
<1>2. ToProvider \/ Checkout => Arrives
  BY DEF ToProvider, Checkout, Arrives, Pages
<1>3. OAuthCallback => Arrives
  BY LandingPages DEF OAuthCallback, Arrives, Pages, Steps, Shell
<1> QED  BY <1>1, <1>2, <1>3 DEF Load, ToProvider, OAuthCallback, Checkout, CheckoutReturns

LEMMA AnswersStep == RestInv /\ [Next]_vars => AnswersInv'
<1> SUFFICES ASSUME RestInv, [Next]_vars PROVE AnswersInv'
  OBVIOUS
<1> USE DEF Known, Blank, SignedIn
<1>1. /\ WorkspaceTypes /\ ToldInv /\ AnswersInv
      /\ me \in Answers /\ fetch \in Answers
  BY DEF RestInv, WorkspaceInv, WorkspaceTypes
<1>2. CASE UNCHANGED vars
  BY <1>1, <1>2 DEF vars, AnswersInv
<1>3. CASE Serve
  <2>1. CASE fetch' = Told(account) /\ UNCHANGED cookie
    BY <1>1, <1>3, <2>1 DEF Serve, Told, ToldInv, AnswersInv
  <2>2. CASE cookie' = [cookie EXCEPT !.at = TRUE] /\ UNCHANGED fetch
    BY <1>1, <1>3, <2>2 DEF Serve, AnswersInv
  <2>3. CASE ~SignedIn /\ fetch' = Blank("unauthorized") /\ UNCHANGED cookie
    BY <1>1, <1>3, <2>3 DEF Serve, AnswersInv
  <2> QED  BY <1>3, <2>1, <2>2, <2>3 DEF Serve
<1>4. CASE FailServe \/ RunEffect \/ Continue \/ Follow \/ Submit \/ FailCall \/ Refused
  BY <1>1, <1>4 DEF FailServe, RunEffect, Continue, Follow, Submit, FailCall, Refused, AnswersInv
<1>5. CASE Arrive
  BY <1>1, <1>5 DEF Arrive, AnswersInv, Answers
<1>6. CASE Land
  <2>1. fetch' \in {fetch, Blank("sent")} /\ UNCHANGED <<billing, cookie, me, stale>>
    BY <1>6, FetchAgain DEF Land
  <2> QED  BY <1>1, <2>1 DEF AnswersInv
<1>7. CASE Load \/ ToProvider \/ OAuthCallback \/ Checkout \/ CheckoutReturns
  <2>1. Arrives /\ UNCHANGED billing
    BY <1>7, WhoArrives
  <2>2. me' = Blank("none") /\ fetch' \in {Blank("sent"), Blank("idle")}
    BY <2>1, Arrivals DEF Arrives
  <2>3. cookie' \in [at : BOOLEAN, rt : {"none", "good", "revoked"}]
    <3>1. cookie' = cookie \/ cookie' = [at |-> TRUE, rt |-> "good"]
      BY <1>7 DEF Load, ToProvider, OAuthCallback, Checkout, CheckoutReturns
    <3>2. CASE cookie' = cookie
      BY <1>1, <3>2 DEF AnswersInv
    <3>3. CASE cookie' = [at |-> TRUE, rt |-> "good"]
      BY <3>3
    <3> QED  BY <3>1, <3>2, <3>3
  <2> QED  BY <2>1, <2>2, <2>3 DEF AnswersInv
<1>8. CASE Elsewhere
  <2>1. /\ UNCHANGED <<billing, me, fetch>> /\ (stale => stale')
        /\ \/ UNCHANGED cookie
           \/ cookie' = [cookie EXCEPT !.at = FALSE]
           \/ cookie' = [cookie EXCEPT !.rt = "revoked"]
    BY <1>8 DEF Elsewhere
  <2>2. cookie' \in [at : BOOLEAN, rt : {"none", "good", "revoked"}]
    BY <1>1, <2>1 DEF AnswersInv
  <2>3. ~SignedIn => ~SignedIn'
    BY <1>1, <2>1 DEF AnswersInv
  <2> QED  BY <1>1, <2>1, <2>2, <2>3 DEF AnswersInv
<1>9. CASE SignIn
  BY <1>1, <1>9 DEF SignIn, AnswersInv
<1>10. CASE SaveCompany \/ CreateProject \/ MarkOnboardingCompleted \/ DeleteProject
  <2>1. /\ UNCHANGED <<billing, me>> /\ (me.kind = "null" => stale')
        /\ fetch' \in {fetch, Blank("sent")}
        /\ cookie' = cookie \/ (SignedIn /\ cookie' = [cookie EXCEPT !.at = TRUE])
    BY <1>1, <1>10, FetchAgain DEF SaveCompany, CreateProject, MarkOnboardingCompleted,
        DeleteProject, Succeed, Invalidate, Authorized, AnswersInv
  <2>2. cookie' \in [at : BOOLEAN, rt : {"none", "good", "revoked"}]
    BY <1>1, <2>1 DEF AnswersInv
  <2>3. ~SignedIn => ~SignedIn'
    BY <1>1, <2>1 DEF AnswersInv
  <2> QED  BY <1>1, <2>1, <2>2, <2>3 DEF AnswersInv
<1>11. CASE Logout
  <2>1. /\ UNCHANGED billing /\ me' = Blank("null") /\ stale'
        /\ fetch' \in {fetch, Blank("sent")} /\ cookie' = [at |-> FALSE, rt |-> "none"]
    BY <1>11, FetchAgain DEF Logout, Invalidate
  <2> QED  BY <1>1, <2>1 DEF AnswersInv
<1> QED
  BY <1>2, <1>3, <1>4, <1>5, <1>6, <1>7, <1>8, <1>9, <1>10, <1>11
     DEF Next, User, Api, Browser, Away

LEMMA StrangerStep == RestInv /\ [Next]_vars => StrangerInv'
<1> SUFFICES ASSUME RestInv, [Next]_vars PROVE StrangerInv'
  OBVIOUS
<1> USE DEF Known, Blank, SignedIn
<1>1. /\ AnswersInv /\ StrangerInv /\ DestInv
      /\ me \in Answers /\ fetch \in Answers
  BY DEF RestInv, WorkspaceInv, WorkspaceTypes
<1>2. CASE UNCHANGED vars
  BY <1>1, <1>2 DEF vars, StrangerInv
<1>3. CASE Serve \/ FailServe
  BY <1>1, <1>3 DEF Serve, FailServe, Told, StrangerInv
<1>4. CASE RunEffect \/ Continue \/ Follow \/ Submit \/ FailCall \/ Refused
  BY <1>1, <1>4 DEF RunEffect, Continue, Follow, Submit, FailCall, Refused, StrangerInv
<1>5. CASE Arrive
  BY <1>1, <1>5 DEF Arrive, AnswersInv, StrangerInv, Answers
<1>6. CASE Land
  <2>1. CASE page' = page \/ {page, page'} \subseteq Steps
    BY <1>1, <1>6, <2>1 DEF Land, StrangerInv
  <2>2. CASE ~(page' = page \/ {page, page'} \subseteq Steps)
    BY <1>1, <1>6, <2>2 DEF Land, StrangerInv, AnswersInv, Mount, Watches
  <2> QED  BY <2>1, <2>2
<1>7. CASE Load \/ ToProvider \/ OAuthCallback \/ Checkout \/ CheckoutReturns
  BY <1>7, WhoArrives, Arrivals DEF Arrives, StrangerInv, Watches
<1>8. CASE Elsewhere
  BY <1>1, <1>8 DEF Elsewhere, AnswersInv, StrangerInv
<1>9. CASE SignIn
  BY <1>1, <1>9 DEF SignIn, DestInv, StrangerInv, Steps, Shell
<1>10. CASE SaveCompany \/ CreateProject \/ MarkOnboardingCompleted \/ DeleteProject
  <2>1. Known(me) /\ UNCHANGED me
    BY <1>1, <1>10 DEF SaveCompany, CreateProject, MarkOnboardingCompleted,
        DeleteProject, Succeed, DestInv
  <2> QED  BY <2>1 DEF StrangerInv
<1>11. CASE Logout
  BY <1>1, <1>11 DEF Logout, Invalidate, Watches, StrangerInv
<1> QED
  BY <1>2, <1>3, <1>4, <1>5, <1>6, <1>7, <1>8, <1>9, <1>10, <1>11
     DEF Next, User, Api, Browser, Away

\* Who watches for the mutation to go on: nobody leaves meanwhile.
LEMMA DestStep == RestInv /\ [Next]_vars => DestInv'
<1> SUFFICES ASSUME RestInv, [Next]_vars PROVE DestInv'
  OBVIOUS
<1> USE DEF Known, Blank
<1>1. /\ AnswersInv /\ DestInv /\ WorkspaceTypes
      /\ me \in Answers /\ fetch \in Answers
  BY DEF RestInv, WorkspaceInv, WorkspaceTypes
<1>2. CASE UNCHANGED vars
  BY <1>1, <1>2 DEF vars, DestInv
<1>3. CASE Serve \/ FailServe
  BY <1>1, <1>3 DEF Serve, FailServe, DestInv
<1>4. CASE RunEffect
  <2>1. doing.at = "signIn" => heading' = "none"
    BY <1>1, <1>4 DEF RunEffect, DestInv, Steps, Shell
  <2> QED  BY <1>1, <1>4, <2>1 DEF RunEffect, DestInv
<1>5. CASE Continue \/ FailCall \/ Refused
  <2>1. doing' = [at |-> "none", dest |-> "none"]
    BY <1>5 DEF Continue, FailCall, Refused, Idle
  <2> QED  BY <2>1 DEF DestInv
<1>6. CASE Follow
  <2>1. page \notin Steps \cup Shell => page = "pricing"
    BY <1>6, LinksShown DEF Follow
  <2>2. page # "login"
    BY <2>1 DEF Steps, Shell
  <2> QED  BY <1>1, <1>6, <2>2 DEF Follow, DestInv
<1>7. CASE Submit
  <2>1. PICK b \in Buttons : doing' = [at |-> b, dest |-> Destination(b)]
    BY <1>7 DEF Submit
  <2>2. heading = "none" /\ UNCHANGED <<page, heading, me, billing>>
    BY <1>7 DEF Submit, Rendered
  <2>3. /\ b \in {"signIn", "company", "create", "delete", "logout"}
        /\ b = "signIn" => page = "login"
        /\ b # "signIn" => Known(me)
        /\ b = "create" /\ page = "project" => me.company
    BY <2>1, ButtonsShown DEF Steps
  <2> QED  BY <2>1, <2>2, <2>3, Destinations DEF DestInv
<1>8. CASE Arrive
  <2>1. UNCHANGED <<doing, page, heading, account, billing>>
    BY <1>8 DEF Arrive
  <2>2. Known(me) => Known(me') /\ (me.company => me'.company)
    BY <1>1, <1>8 DEF Arrive, AnswersInv, Answers
  <2> QED  BY <1>1, <2>1, <2>2 DEF DestInv
<1>9. CASE Land
  BY <1>1, <1>9 DEF Land, DestInv
<1>10. CASE Load \/ ToProvider \/ OAuthCallback \/ Checkout \/ CheckoutReturns
  BY <1>10, WhoArrives, Arrivals DEF Arrives, DestInv
<1>11. CASE Elsewhere
  <2>1. UNCHANGED <<doing, page, heading, me, billing>> /\ account'.projects = account.projects
    BY <1>1, <1>11 DEF Elsewhere, WorkspaceTypes
  <2> QED  BY <1>1, <2>1 DEF DestInv
<1>12. CASE SignIn \/ SaveCompany \/ MarkOnboardingCompleted \/ DeleteProject \/ Logout
  <2>1. doing'.at = "refetch"
    BY <1>12 DEF SignIn, SaveCompany, MarkOnboardingCompleted, DeleteProject, Logout, Succeed
  <2> QED  BY <2>1 DEF DestInv
<1>13. CASE CreateProject
  <2>1. /\ UNCHANGED <<page, heading, me, billing>> /\ doing.at = "create"
        /\ doing' = [doing EXCEPT !.at = "mark"]
        /\ account' = [account EXCEPT !.projects = @ + 1]
    BY <1>13 DEF CreateProject
  <2>2. doing'.at = "mark" /\ doing'.dest = doing.dest /\ account'.projects > 0
    BY <1>1, <2>1 DEF WorkspaceTypes
  <2> QED  BY <1>1, <2>1, <2>2 DEF DestInv
<1> QED
  BY <1>2, <1>3, <1>4, <1>5, <1>6, <1>7, <1>8, <1>9, <1>10, <1>11, <1>12, <1>13
     DEF Next, User, Api, Browser, Away

LEMMA RefetchStep == RestInv /\ [Next]_vars => RefetchInv'
<1> SUFFICES ASSUME RestInv, [Next]_vars PROVE RefetchInv'
  OBVIOUS
<1> USE DEF Known, Blank, Watched
<1>1. /\ AnswersInv /\ DestInv /\ RefetchInv /\ WorkspaceTypes /\ DoingInv
      /\ me \in Answers /\ fetch \in Answers
  BY DEF RestInv, WorkspaceInv, WorkspaceTypes
<1>2. CASE UNCHANGED vars
  BY <1>1, <1>2 DEF vars, RefetchInv, Completed
<1>3. CASE Serve \/ FailServe
  <2>1. /\ UNCHANGED <<account, billing, page, me, doing, lost>>
        /\ fetch' = Told(account) \/ fetch'.kind \in {"sent", "unauthorized", "failed"}
    BY <1>3 DEF Serve, FailServe
  <2>2. /\ fetch'.kind # "idle"
        /\ fetch'.kind = "user" => /\ account.company => fetch'.company
                                   /\ Completed(account) => fetch'.completed
    BY <2>1 DEF Told
  <2>3. Completed(account') = Completed(account)
    BY <2>1 DEF Completed
  <2> QED  BY <1>1, <2>1, <2>2, <2>3 DEF RefetchInv
<1>4. CASE RunEffect \/ Follow
  BY <1>1, <1>4 DEF RunEffect, Follow, RefetchInv, Completed
<1>5. CASE Continue \/ FailCall \/ Refused \/ Submit \/ CreateProject
  <2>1. doing'.at # "refetch"
    <3>1. CASE Continue \/ FailCall \/ Refused
      BY <3>1, IdleIsTyped DEF Continue, FailCall, Refused, IdleFacts
    <3>2. CASE Submit
      BY <3>2, ButtonsShown DEF Submit
    <3>3. CASE CreateProject
      BY <1>1, <3>3 DEF CreateProject, WorkspaceTypes
    <3> QED  BY <1>5, <3>1, <3>2, <3>3
  <2> QED  BY <2>1 DEF RefetchInv
<1>6. CASE Arrive
  <2>1. /\ UNCHANGED <<doing, page, account, billing>> /\ fetch'.kind = "idle"
        /\ \/ fetch.kind = "user" /\ me' = fetch
           \/ fetch.kind # "user" /\ me' = me /\ (Known(me) => lost')
    BY <1>1, <1>6 DEF Arrive, AnswersInv, Answers
  <2> QED  BY <1>1, <2>1 DEF RefetchInv, AnswersInv, Completed
<1>7. CASE Land
  <2>1. UNCHANGED <<doing, account, billing, me, lost>>
    BY <1>7 DEF Land
  <2>2. ASSUME doing.at = "refetch" PROVE Watched /\ UNCHANGED fetch
    BY <1>7, <2>2 DEF Land, Awaited, Mount
  <2>3. ASSUME doing.at = "refetch" PROVE page # "login"
    BY <2>2, <2>3 DEF Watches, Steps, Shell
  <2> QED  BY <1>1, <2>1, <2>2, <2>3 DEF RefetchInv, Completed
<1>8. CASE Load \/ ToProvider \/ OAuthCallback \/ Checkout \/ CheckoutReturns
  BY <1>8, WhoArrives, Arrivals DEF Arrives, RefetchInv
<1>9. CASE Elsewhere
  <2>1. /\ UNCHANGED <<doing, page, heading, me, fetch, lost, billing>>
        /\ account'.projects = account.projects /\ account'.company = account.company
        /\ account'.marked = account.marked
    BY <1>1, <1>9 DEF Elsewhere, WorkspaceTypes
  <2> QED  BY <1>1, <2>1 DEF RefetchInv, Completed
<1>10. CASE SignIn
  <2>1. /\ page = "login" /\ UNCHANGED <<page, account>>
        /\ doing' = [at |-> "refetch",
                     dest |-> IF Completed(account) THEN "projects" ELSE "verify"]
    BY <1>1, <1>10 DEF SignIn, DestInv
  <2> QED  BY <2>1 DEF RefetchInv, Completed, Watches, Steps, Shell
\* What is watched is asked for again.
<1>11. ASSUME Succeed(doing.dest), Known(me), UNCHANGED <<page, billing>>,
              doing.dest \in {"none", "project", "plan", "projects"},
              doing.dest = "plan" => me.company,
              doing.dest = "project" => account'.company,
              doing.dest = "projects" => Completed(account') /\ ~billing
       PROVE  RefetchInv'
  <2>1. /\ UNCHANGED me /\ doing'.dest = doing.dest
        /\ Watched => fetch'.kind = "sent"
    BY <1>11 DEF Succeed, Invalidate
  <2> QED  BY <1>11, <2>1 DEF RefetchInv, Completed
<1>12. CASE SaveCompany
  <2>1. doing.dest = "project" /\ Known(me) /\ account'.company
    BY <1>1, <1>12 DEF SaveCompany, DestInv, WorkspaceTypes
  <2> QED  BY <1>11, <1>12, <2>1 DEF SaveCompany
<1>13. CASE MarkOnboardingCompleted
  <2>1. /\ Known(me) /\ account.company /\ account.projects > 0
        /\ doing.dest \in {"none", "plan", "projects"}
        /\ doing.dest = "plan" => me.company
        /\ doing.dest = "projects" => ~billing
    BY <1>1, <1>13 DEF MarkOnboardingCompleted, DestInv, DoingInv
  <2>2. Completed(account')
    BY <1>1, <1>13, <2>1 DEF MarkOnboardingCompleted, Completed, WorkspaceTypes
  <2> QED  BY <1>11, <1>13, <2>1, <2>2 DEF MarkOnboardingCompleted
<1>14. CASE DeleteProject
  <2>1. Known(me) /\ doing.dest = "none"
    BY <1>1, <1>14 DEF DeleteProject, DestInv
  <2> QED  BY <1>11, <1>14, <2>1 DEF DeleteProject
<1>15. CASE Logout
  BY <1>15 DEF Logout, RefetchInv
<1> QED
  BY <1>2, <1>3, <1>4, <1>5, <1>6, <1>7, <1>8, <1>9, <1>10, <1>12, <1>13, <1>14, <1>15
     DEF Next, User, Api, Browser, Away

LEMMA GateStep == RestInv /\ [Next]_vars => GateInv'
<1> SUFFICES ASSUME RestInv, [Next]_vars, page' \in Shell, ~due' PROVE GateInv'
  BY DEF GateInv
<1> USE DEF Known, Blank, SignedIn
<1>1. /\ AnswersInv /\ StrangerInv /\ DestInv /\ RefetchInv /\ GateInv /\ WorkspaceTypes
      /\ me \in Answers /\ fetch \in Answers /\ GateSays /\ GateSays'
  BY Judgements, JudgementsNext DEF RestInv, WorkspaceInv, WorkspaceTypes
<1>2. Shell \cap (Steps \cup {"login", "pricing", "home", "provider", "checkout"}) = {}
  BY DEF Shell, Steps
\* The gate judges by me, and by whether it is loading.
<1>3. ASSUME UNCHANGED me, Loading(me, fetch) = Loading(me, fetch)'
      PROVE  (Gate = "none") = (Gate = "none")'
  BY <1>1, <1>3 DEF GateSays, Answers
<1>4. CASE UNCHANGED vars
  <2>1. UNCHANGED <<me, fetch, page, due, heading, lost, account, doing, cookie>>
    BY <1>4 DEF vars
  <2>2. Gate' = Gate /\ Completed(account') = Completed(account)
    BY <2>1 DEF Gate, Completed, Loading
  <2> QED  BY <1>1, <2>1, <2>2 DEF GateInv
<1>5. CASE Serve \/ FailServe
  <2>1. /\ UNCHANGED <<account, page, due, heading, me, doing, lost>>
        /\ fetch.kind = "sent" /\ fetch'.kind # "idle"
        /\ fetch'.kind = "user" => (Completed(account) => fetch'.completed)
    BY <1>5 DEF Serve, FailServe, Told
  <2>2. Completed(account') = Completed(account)
    BY <2>1 DEF Completed
  <2>3. (Gate = "none") = (Gate = "none")'
    BY <1>3, <2>1 DEF Loading
  <2> QED  BY <1>1, <2>1, <2>2, <2>3 DEF GateInv
<1>6. CASE Arrive
  <2>1. /\ UNCHANGED <<account, page, heading, doing, cookie>> /\ fetch'.kind = "idle"
        /\ lost' = (fetch.kind \in {"failed", "late"}
                     \/ (fetch.kind = "unauthorized" /\ me.kind # "none"))
        /\ fetch.kind # "idle" /\ fetch.kind # "sent"
        /\ \/ fetch.kind = "user" /\ me' = fetch
           \/ fetch.kind # "user" /\ me' = me
    BY <1>6 DEF Arrive
  <2>2. ~due /\ ~DepsChanged(me, fetch, me', Blank("idle"))
    BY <1>6 DEF Arrive
  <2>3. UNCHANGED me /\ (fetch.kind = "user" => me = fetch)
    BY <2>1, <2>2 DEF DepsChanged
  <2>4. UNCHANGED me /\ Loading(me, fetch) = Loading(me, fetch)' /\ me.kind # "none"
    BY <1>1, <2>1, <2>2, <2>3 DEF DepsChanged, Loading, AnswersInv
  <2>5. (Gate = "none") = (Gate = "none")'
    BY <1>3, <2>4
  <2>6. fetch.kind # "user" => lost'
    BY <1>1, <2>1, <2>4 DEF AnswersInv, Answers
  <2>7. Completed(account') = Completed(account)
    BY <2>1 DEF Completed
  <2> QED  BY <1>1, <2>1, <2>2, <2>3, <2>4, <2>5, <2>6, <2>7 DEF GateInv
<1>7. CASE Continue
  <2>1. /\ UNCHANGED <<account, billing, cookie, page, due, me, fetch, lost>>
        /\ doing.at = "refetch" /\ doing' = Idle
        /\ heading' = IF doing.dest = "none" THEN heading ELSE doing.dest
    BY <1>7 DEF Continue, Awaited
  <2>2. fetch.kind = "idle" /\ Watched /\ page # "login"
    BY <1>2, <1>7, <2>1 DEF Continue, Awaited, Watches, Watched
  <2>3. (Gate = "none") = (Gate = "none")'
    BY <1>3, <2>1 DEF Loading
  <2>4. Completed(account') = Completed(account)
    BY <2>1 DEF Completed
  <2>5. doing # Idle
    BY <2>1 DEF Idle
  <2>6. CASE doing.dest = "none"
    BY <1>1, <2>1, <2>3, <2>5, <2>6 DEF GateInv
  <2>7. CASE doing.dest \in {"project", "plan"}
    BY <1>1, <2>1, <2>7 DEF GateInv, RefetchInv, Steps
  <2>8. CASE doing.dest = "projects"
    <3>1. Known(me) /\ me.live /\ Completed(account) /\ (lost \/ me.completed)
      BY <1>1, <2>1, <2>2, <2>8 DEF RefetchInv, AnswersInv
    <3>2. CASE me.completed
      BY <1>1, <2>1, <2>3, <3>1, <3>2 DEF GateInv, GateSays
    <3>3. CASE ~me.completed
      BY <2>1, <2>2, <2>4, <3>1, <3>3 DEF GateInv
    <3> QED  BY <3>2, <3>3
  <2> QED  BY <1>1, <2>1, <2>2, <2>6, <2>7, <2>8 DEF RefetchInv
<1>8. CASE Land
  <2>1. /\ UNCHANGED <<account, me, doing, cookie, lost, page, fetch>> /\ ~due
        /\ heading # "none" /\ page' = Landing(heading)
    BY <1>8 DEF Land
  <2>2. heading \in Pages
    BY <1>1, <2>1 DEF WorkspaceTypes, Targets
  <2>3. heading \notin Steps \cup {"pricing"}
    BY <1>2, <2>1, <2>2, Leads
  <2>4. ~(heading = "login" /\ ~SignedIn)
    BY <1>2, <2>1, <2>2, Leads
  <2>5. (Gate = "none") = (Gate = "none")' /\ Completed(account') = Completed(account)
    BY <1>3, <2>1 DEF Loading, Completed
  <2> QED  BY <1>1, <2>1, <2>3, <2>4, <2>5 DEF GateInv
<1>9. CASE RunEffect
  <2>1. /\ UNCHANGED <<account, page, me, fetch, doing, cookie, lost>>
        /\ heading' = IF Gate = "none" THEN heading ELSE Gate
    BY <1>2, <1>9 DEF RunEffect
  <2>2. (Gate = "none") = (Gate = "none")'
    BY <1>3, <2>1 DEF Loading
  <2>3. CASE ~Known(me)
    BY <1>1, <2>1, <2>2, <2>3 DEF GateInv, GateSays, StrangerInv
  <2>4. CASE Known(me)
    BY <1>1, <2>1, <2>2, <2>4 DEF GateInv, GateSays, Steps
  <2> QED  BY <2>3, <2>4
\* A page that lets in shows its buttons and links.
<1>10. CASE Follow \/ Submit
  <2>1. UNCHANGED <<page, me, fetch>>
    BY <1>10 DEF Follow, Submit
  <2>2. Gate = "none"
    BY <1>10, <2>1, LinksShown, ButtonsShown DEF Follow, Submit
  <2>3. (Gate = "none")'
    BY <1>3, <2>1, <2>2 DEF Loading
  <2> QED  BY <2>3 DEF GateInv
<1>11. CASE FailCall \/ Refused
  <2>1. UNCHANGED <<account, page, heading, me, fetch, due, cookie, lost>> /\ doing' = Idle
    BY <1>11 DEF FailCall, Refused
  <2>2. (Gate = "none") = (Gate = "none")' /\ Completed(account') = Completed(account)
    BY <1>3, <2>1 DEF Loading, Completed
  <2> QED  BY <1>1, <2>1, <2>2 DEF GateInv
<1>12. CASE Load \/ ToProvider \/ OAuthCallback \/ Checkout \/ CheckoutReturns
  BY <1>12, WhoArrives, Arrivals DEF Arrives
<1>13. CASE Elsewhere
  <2>1. /\ UNCHANGED <<page, heading, due, me, fetch, lost, doing>>
        /\ account'.projects = account.projects /\ account'.company = account.company
        /\ account'.marked = account.marked
    BY <1>1, <1>13 DEF Elsewhere, WorkspaceTypes
  <2>2. ~SignedIn => ~SignedIn'
    <3>1. \/ UNCHANGED cookie
          \/ cookie' = [cookie EXCEPT !.at = FALSE]
          \/ cookie' = [cookie EXCEPT !.rt = "revoked"]
      BY <1>13 DEF Elsewhere
    <3> QED  BY <1>1, <3>1 DEF AnswersInv
  <2>3. (Gate = "none") = (Gate = "none")' /\ Completed(account') = Completed(account)
    BY <1>3, <2>1 DEF Loading, Completed
  <2> QED  BY <1>1, <2>1, <2>2, <2>3 DEF GateInv
<1>14. CASE SignIn
  BY <1>1, <1>2, <1>14 DEF SignIn, DestInv
\* A known user's mutation: me stays, or the effect is due.
<1>15. ASSUME Known(me), doing # Idle, ~due, UNCHANGED <<page, heading, me>>
       PROVE  GateInv'
  <2>1. (Gate = "none") = (Gate = "none")'
    BY <1>3, <1>15 DEF Loading
  <2> QED  BY <1>1, <1>15, <2>1 DEF GateInv
<1>16. CASE SaveCompany \/ CreateProject \/ MarkOnboardingCompleted \/ DeleteProject
  <2>1. /\ doing.at \in {"company", "create", "mark", "delete"} /\ ~due
        /\ UNCHANGED <<page, heading, me>>
    <3>1. SaveCompany \/ MarkOnboardingCompleted \/ DeleteProject =>
              doing.at \in {"company", "mark", "delete"} /\ Succeed(doing.dest)
              /\ UNCHANGED <<page, heading>>
      BY DEF SaveCompany, MarkOnboardingCompleted, DeleteProject
    <3>2. Succeed(doing.dest) => ~due /\ UNCHANGED me
      BY DEF Succeed
    <3>3. CreateProject => doing.at = "create" /\ UNCHANGED <<page, heading, due, me>>
      BY DEF CreateProject
    <3> QED  BY <1>16, <3>1, <3>2, <3>3
  <2>2. Known(me) /\ doing # Idle
    BY <1>1, <2>1 DEF DestInv, Idle
  <2> QED  BY <1>15, <2>1, <2>2
<1>17. CASE Logout
  <2>1. Known(me) /\ me'.kind = "null"
    BY <1>1, <1>17 DEF Logout, DestInv
  <2> QED  BY <1>17, <2>1 DEF Logout, DepsChanged
<1> QED
  BY <1>4, <1>5, <1>6, <1>7, <1>8, <1>9, <1>10, <1>11, <1>12, <1>13, <1>14, <1>16, <1>17
     DEF Next, User, Api, Browser, Away

LEMMA GuardStep == RestInv /\ [Next]_vars => GuardInv'
<1> SUFFICES ASSUME RestInv, [Next]_vars, page' \in Steps, ~due' PROVE GuardInv'
  BY DEF GuardInv
<1> USE DEF Known, Blank
<1>1. /\ AnswersInv /\ DestInv /\ RefetchInv /\ GuardInv /\ WorkspaceTypes
      /\ me \in Answers /\ fetch \in Answers /\ GuardSays /\ GuardSays'
  BY Judgements, JudgementsNext DEF RestInv, WorkspaceInv, WorkspaceTypes
<1>2. Steps \cap (Shell \cup {"login", "pricing", "home", "provider", "checkout"}) = {}
      /\ "projects" \notin Steps /\ "none" \notin Steps
  BY DEF Shell, Steps
\* The guard judges by me, and by the page.
<1>3. ASSUME UNCHANGED <<me, page>>
      PROVE  (Guard = "none") = (Guard = "none")'
  BY <1>1, <1>3 DEF GuardSays, Answers
\* The page, me and where it is heading stay.
<1>4. ASSUME UNCHANGED <<me, page, heading, lost>>, ~due, account.company => account'.company,
             fetch'.kind = "user" => (fetch.kind = "user" /\ fetch'.company = fetch.company)
                                     \/ (account.company => fetch'.company)
      PROVE  GuardInv'
  BY <1>1, <1>3, <1>4 DEF GuardInv
<1>5. CASE UNCHANGED vars
  BY <1>4, <1>5 DEF vars
<1>6. CASE Serve \/ FailServe
  <2>1. /\ UNCHANGED <<account, page, due, heading, me, lost>>
        /\ fetch'.kind = "user" => (account.company => fetch'.company)
    BY <1>6 DEF Serve, FailServe, Told
  <2> QED  BY <1>4, <2>1
<1>7. CASE Arrive
  <2>1. /\ UNCHANGED <<account, page, heading>> /\ fetch'.kind = "idle"
        /\ lost' = (fetch.kind \in {"failed", "late"}
                     \/ (fetch.kind = "unauthorized" /\ me.kind # "none"))
        /\ fetch.kind # "idle" /\ fetch.kind # "sent"
        /\ \/ fetch.kind = "user" /\ me' = fetch
           \/ fetch.kind # "user" /\ me' = me
    BY <1>7 DEF Arrive
  <2>2. ~due /\ ~DepsChanged(me, fetch, me', Blank("idle"))
    BY <1>7 DEF Arrive
  <2>3. UNCHANGED me /\ (fetch.kind = "user" => me = fetch)
    BY <2>1, <2>2 DEF DepsChanged
  <2>4. fetch.kind # "user" /\ Known(me) => lost'
    BY <1>1, <2>1 DEF AnswersInv, Answers
  <2>5. (Guard = "none") = (Guard = "none")'
    BY <1>3, <2>1, <2>3
  <2> QED  BY <1>1, <2>1, <2>2, <2>3, <2>4, <2>5 DEF GuardInv
\* The handler's push, on the project and the plan step.
<1>8. CASE Continue
  <2>1. /\ UNCHANGED <<account, billing, page, due, me, fetch, lost>> /\ doing.at = "refetch"
        /\ heading' = IF doing.dest = "none" THEN heading ELSE doing.dest
    BY <1>8 DEF Continue, Awaited
  <2>2. fetch.kind = "idle" /\ Watched /\ page # "login"
    BY <1>2, <1>8, <2>1 DEF Continue, Awaited, Watches, Watched
  <2>3. (Guard = "none") = (Guard = "none")'
    BY <1>3, <2>1
  <2>4. CASE doing.dest = "none"
    BY <1>4, <2>1, <2>4
  <2>5. CASE doing.dest = "projects"
    BY <1>2, <2>1, <2>5 DEF GuardInv
  <2>6. CASE doing.dest = "plan"
    <3>1. Known(me) /\ me.company
      BY <1>1, <2>1, <2>6 DEF RefetchInv
    <3> QED  BY <1>1, <2>1, <2>3, <2>6, <3>1 DEF GuardInv, GuardSays
  <2>7. CASE doing.dest = "project"
    <3>1. Known(me) /\ account.company /\ (lost \/ me.company)
      BY <1>1, <2>1, <2>2, <2>7 DEF RefetchInv
    <3> QED  BY <1>1, <2>1, <2>2, <2>3, <2>7, <3>1 DEF GuardInv, GuardSays
  <2> QED  BY <1>1, <2>1, <2>2, <2>4, <2>5, <2>6, <2>7 DEF RefetchInv
<1>9. CASE Land
  <2>1. /\ UNCHANGED <<account, me, lost, page, fetch>> /\ ~due
        /\ heading # "none" /\ page' = Landing(heading)
    BY <1>9 DEF Land
  <2>2. heading \in Pages
    BY <1>1, <2>1 DEF WorkspaceTypes, Targets
  <2>3. heading = page
    BY <1>2, <2>1, <2>2, Leads
  <2>4. (Guard = "none") = (Guard = "none")'
    BY <1>3, <2>1
  <2> QED  BY <1>1, <2>1, <2>3, <2>4 DEF GuardInv
<1>10. CASE RunEffect
  <2>1. /\ UNCHANGED <<account, page, me, fetch, lost>>
        /\ heading' = IF Guard = "none" THEN heading ELSE Guard
    BY <1>2, <1>10 DEF RunEffect
  <2>2. (Guard = "none") = (Guard = "none")'
    BY <1>3, <2>1
  <2>3. Guard \notin {"none", page} \/ Guard = "none"
    BY <1>1, <1>2, <2>1 DEF GuardSays
  <2> QED  BY <2>1, <2>2, <2>3 DEF GuardInv
<1>11. CASE Follow
  <2>1. UNCHANGED <<account, page, me, fetch, lost, due>> /\ heading = "none"
    BY <1>11 DEF Follow, Rendered
  <2>2. (Guard = "none") = (Guard = "none")'
    BY <1>3, <2>1
  <2> QED  BY <1>1, <2>1, <2>2 DEF GuardInv
<1>12. CASE Submit \/ FailCall \/ Refused \/ CreateProject
  <2>1. /\ UNCHANGED <<me, page, heading, lost, due, fetch>>
        /\ account.company => account'.company
    BY <1>1, <1>12 DEF Submit, FailCall, Refused, CreateProject, WorkspaceTypes
  <2> QED  BY <1>4, <2>1
<1>13. CASE Load \/ ToProvider \/ OAuthCallback \/ Checkout \/ CheckoutReturns
  BY <1>13, WhoArrives, Arrivals DEF Arrives
<1>14. CASE Elsewhere
  <2>1. /\ UNCHANGED <<page, heading, due, me, fetch, lost>>
        /\ account'.company = account.company
    BY <1>1, <1>14 DEF Elsewhere, WorkspaceTypes
  <2> QED  BY <1>4, <2>1
<1>15. CASE SignIn
  BY <1>1, <1>2, <1>15 DEF SignIn, DestInv
<1>16. CASE SaveCompany \/ MarkOnboardingCompleted \/ DeleteProject
  <2>1. Succeed(doing.dest) /\ UNCHANGED <<page, heading>>
    BY <1>16 DEF SaveCompany, MarkOnboardingCompleted, DeleteProject
  <2>2. account.company => account'.company
    BY <1>1, <1>16 DEF SaveCompany, MarkOnboardingCompleted, DeleteProject, WorkspaceTypes
  <2>3. ~due /\ UNCHANGED <<me, lost>> /\ fetch' \in {fetch, Blank("sent")}
    BY <2>1, FetchAgain DEF Succeed
  <2> QED  BY <1>4, <2>1, <2>2, <2>3
<1>17. CASE Logout
  <2>1. Known(me) /\ me'.kind = "null"
    BY <1>1, <1>17 DEF Logout, DestInv
  <2> QED  BY <1>17, <2>1 DEF Logout, DepsChanged
<1> QED
  BY <1>5, <1>6, <1>7, <1>8, <1>9, <1>10, <1>11, <1>12, <1>13, <1>14, <1>15, <1>16, <1>17
     DEF Next, User, Api, Browser, Away

LEMMA RestStep == RestInv /\ [Next]_vars => RestInv'
  BY WorkspaceStep, AnswersStep, StrangerStep, DestStep, RefetchStep, GateStep, GuardStep
     DEF RestInv

LEMMA RestInit == Init => RestInv
<1> SUFFICES ASSUME Init PROVE RestInv
  OBVIOUS
<1>1. WorkspaceInv
  BY WorkspaceInit
<1>2. /\ me = Blank("none") /\ fetch = Blank("idle") /\ page = "login" /\ ~lost
      /\ doing = [at |-> "none", dest |-> "none"]
      /\ cookie \in [at : {FALSE}, rt : {"none", "good", "revoked"}]
  BY DEF Init, Idle
<1>3. page \notin Steps \cup Shell
  BY <1>2 DEF Steps, Shell
<1>4. AnswersInv
  BY <1>2 DEF AnswersInv, Known, Blank
<1>5. StrangerInv /\ DestInv /\ RefetchInv /\ GateInv /\ GuardInv
  BY <1>2, <1>3 DEF StrangerInv, DestInv, RefetchInv, GateInv, GuardInv
<1> QED  BY <1>1, <1>4, <1>5 DEF RestInv

\* What was judged is what is shown.
LEMMA RestInvSuffices == RestInv => RestIsUsable
<1> SUFFICES ASSUME RestInv, Resting, ~lost
             PROVE  /\ page \in Shell => Known(me) /\ me.completed /\ me.live
                    /\ page \in Steps /\ Known(me) /\ ~Crashed =>
                          /\ me.completed => page \in {"project", "plan"}
                          /\ page \in {"project", "plan"} => me.completed \/ me.company
  BY DEF RestIsUsable
<1>1. /\ GateInv /\ GuardInv /\ GateSays /\ GuardSays
      /\ heading = "none" /\ fetch.kind = "idle" /\ (~due \/ Crashed)
  BY Judgements DEF RestInv, Resting
<1>2. ASSUME page \in Shell PROVE Known(me) /\ me.completed /\ me.live
  <2>1. ~due
    BY <1>1, <1>2 DEF Crashed, Shell
  <2>2. Gate = "none"
    BY <1>1, <1>2, <2>1 DEF GateInv, Steps
  <2> QED  BY <1>1, <2>2 DEF GateSays, Loading
<1>3. ASSUME page \in Steps, Known(me), ~Crashed
      PROVE  /\ me.completed => page \in {"project", "plan"}
             /\ page \in {"project", "plan"} => me.completed \/ me.company
  BY <1>1, <1>3 DEF GuardInv, GuardSays
<1> QED  BY <1>2, <1>3

\* Wherever the gate, the guard, the server pages and the handlers' own pushes send the
\* user, in whatever order, the pages rest only where they may, for any number of
\* projects, clicks and failures: the workspace is shown to whoever is known to have
\* completed the onboarding and to have a live subscription, and a step of the
\* onboarding to whoever has not completed it, but for the two steps a handler's own
\* push leads to.
THEOREM RestingPagesAreUsable == Spec => []RestIsUsable
  BY RestInit, RestStep, RestInvSuffices, PTL DEF Spec

\* The account, what the browser was told of it, and where the user is have the
\* types of the code, for any number of projects, clicks and failures.
THEOREM WorkspaceIsTyped == Spec => []WorkspaceTypes
<1>1. WorkspaceInv => WorkspaceTypes
  BY DEF WorkspaceInv
<1> QED  BY <1>1, WorkspaceInit, WorkspaceStep, PTL DEF Spec

\* No deletion, sign-out, return from a provider or lost answer takes a completed
\* onboarding back, for any number of projects, clicks and failures.
THEOREM OnboardingStaysCompleted == Spec => CompletionIsFinal
<1>1. WorkspaceInv /\ [Next]_vars =>
          [Completed(account) /\ ~unmarked /\ doing.at # "mark" => Completed(account')]_vars
  <2> SUFFICES ASSUME WorkspaceInv, Next, Completed(account), ~unmarked, doing.at # "mark"
               PROVE  Completed(account')
    BY DEF vars
  <2>1. account.marked
    BY DEF WorkspaceInv, WorkspaceTypes, MarkedInv, Completed
  <2>2. account' = account \/ account'.marked
    BY <2>1 DEF Next, User, Api, Browser, Away, FailServe, FailCall, Follow, Load, Submit,
        ToProvider, Checkout, Elsewhere, Serve, SignIn, SaveCompany, CreateProject,
        MarkOnboardingCompleted, DeleteProject, Logout, Refused, Arrive, Land, RunEffect,
        Continue, OAuthCallback, CheckoutReturns, WorkspaceInv, WorkspaceTypes
  <2> QED  BY <2>1, <2>2 DEF Completed
<1> QED  BY <1>1, WorkspaceInit, WorkspaceStep, PTL DEF Spec, CompletionIsFinal

=============================================================================
