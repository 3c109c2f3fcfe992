----------------------------- MODULE MCAccounts -----------------------------
(* Three requests of the kinds that meet on the same rows, four where a     *)
(* code or a link is sent and used twice; and the pages, with two requests  *)
(* of what meets on one query, three of a code, one of them from elsewhere. *)
EXTENDS AccountPages, FiniteSets

CONSTANTS c1, c2, c3, c4

Order == <<c1, c2, c3, c4>>

Pairs == {{"register", "oauth", "link"}, {"oauth", "unlink"}, {"avatar"}}

Mailed == {{"sendOtp", "confirmOtp"}, {"forgot", "reset", "login", "refresh"}}

FromPages == {{"avatar"}, {"unlink", "link"}, Saves, {"sendOtp", "confirmOtp"}}

Asked == {op[c] : c \in Calls} \ {"none"}

\* The groups that what was asked is of.
Groups(all) == {g \in all : Asked \subseteq g}

Uses(g) == Cardinality({c \in Calls : op[c] \in g})

Accidents == Cardinality({c \in Calls : at[c] = "error" \/ failed[c] \/ stage[c] = "lost"})
             + Cardinality(expired)

Quiet(k) == fetch[k] = NoFetch /\ ~(cache[k].has = "data" /\ cache[k].stale)

\* The pages are only used for what the requests of g are about.
Apart(g) ==
    /\ "avatar" \in g \/ photo = Shut
    /\ IF "unlink" \in g THEN Quiet("me") ELSE unlinking = NoTarget /\ Quiet("linked")
    /\ "sendOtp" \in g <=> page \in {"verify", "company"}

\* What happens: requests, and what goes wrong with them.
Happens == Uses(Op) + Accidents

OneGroup ==
    \/ /\ page = "none" /\ Mine = {}
       /\ \/ Groups(Pairs \cup Mailed) # {} /\ Happens <= 3
          \/ /\ Groups(Mailed) # {}
             /\ Happens <= 4
             /\ Uses({"sendOtp", "forgot"}) <= 2
             /\ Uses({"confirmOtp", "reset"}) <= 2
             /\ Uses({"login"}) <= 1
    \/ /\ page # "none" \/ Mine # {}
       /\ \E g \in Groups(FromPages) : Apart(g)
       /\ Happens <= IF "sendOtp" \in Asked THEN 3 ELSE 2
       /\ Cardinality({c \in Calls : op[c] # "none"} \ Mine) <= 1

\* The requests are named in the order in which they begin.
Sought == {Order[i] : i \in {j \in 1..4 : j = 1 \/ at[Order[j-1]] # "none"}}

MCNext ==
    /\ \/ /\ UNCHANGED pages
          /\ \E c \in Sought :
                \/ \E o \in UNION Groups(Pairs \cup Mailed \cup FromPages) : Begin(c, o)
                \/ Handler(c) \/ Throws(c) \/ UpdateFails(c) \/ Expire(c)
       \/ \E c \in Sought : Click(c) \/ Outcome(c)
       \/ PageAlone
    /\ OneGroup'

MCSpec == PagesInit /\ [][MCNext]_<<vars, pages>>

=============================================================================
