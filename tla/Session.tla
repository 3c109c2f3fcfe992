------------------------------- MODULE Session -------------------------------
(***************************************************************************)
(* What refresh-token rotation promises of the session one login opens:    *)
(* renewing its tokens neither opens it again once it has ended nor mixes  *)
(* it with another one.                                                    *)
(***************************************************************************)
CONSTANT Sessions

VARIABLE session    (* has a login opened it, can a token still renew it   *)

\* Some were opened before.
Init == session \in [Sessions -> {"none", "live"}]

Open(s) ==
    /\ session[s] = "none"
    /\ session' = [session EXCEPT ![s] = "live"]

\* Logout, theft detection, expiry, or a rotation that failed half-way; the
\* sessions of a user may end together.
End(ended) ==
    /\ \A s \in ended : session[s] = "live"
    /\ session' = [s \in Sessions |-> IF s \in ended THEN "ended" ELSE session[s]]

Next == (\E s \in Sessions : Open(s)) \/ (\E ended \in SUBSET Sessions : End(ended))

Spec == Init /\ [][Next]_session

=============================================================================
