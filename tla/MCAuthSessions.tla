--------------------------- MODULE MCAuthSessions ---------------------------
(* Two tabs of one browser, two requests in the first, one in the second.   *)
EXTENDS AuthSessions, TLC

CONSTANTS tab1, tab2, q1, q2, q3

TwoInFirstTab == (q1 :> tab1) @@ (q2 :> tab1) @@ (q3 :> tab2)

\* What ends or disturbs the session happens once in a behaviour; the user logs in
\* again after a logout, when the first tab found that it was signed out.
Endings ==
    Cardinality({r \in Requests : call[r] \in {"error", "failed"}})
    + Cardinality({t \in Tokens : expired[t]})
    + (IF logout.at = "idle" THEN 0 ELSE 1)
    + (IF logoutAll = "idle" THEN 0 ELSE 1)

OneEnding ==
    /\ Endings <= 1
    /\ logins > 0 =>
          /\ logout.at = "done"
          /\ \A r \in {q1, q2} : request[r] = "rejected"

=============================================================================
