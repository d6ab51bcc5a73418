---------------------------- MODULE MCDetection -----------------------------
(***************************************************************************)
(* The detection service on two transactions: the scenarios of the mock    *)
(* pipeline and altered forms of them, which the guard has to judge.       *)
(***************************************************************************)
EXTENDS Detection, TLC

CONSTANTS t1, t2

GatewayA == 1
GatewayB == 2
MCProvider == {GatewayA, GatewayB}

Short == {ScenarioEvents(LiveMix(seed), "pay", GatewayB) : seed \in {6, 7}}
Long  == {ScenarioEvents("recovery_retry", "pay", GatewayB)}

\* A script with event i left out, repeated, or of another payment; a script
\* that never starts another attempt; one that starts over after its capture.
Without(s, i) == SubSeq(s, 1, i - 1) \o SubSeq(s, i + 1, Len(s))
Twice(s, i)   == SubSeq(s, 1, i) \o SubSeq(s, i, Len(s))
Foreign(s, i) == [s EXCEPT ![i].payment = "other"]
OneAttempt(s) == [i \in 1..Len(s) |-> [s[i] EXCEPT !.attempt = 1]]
StartsOver == Append(ScenarioEvents("normal", "pay", GatewayB),
                     Event("checkout_started", 1, "pay", GatewayB))
MCDrafts == Short \cup Long \cup {StartsOver}
    \cup {OneAttempt(s) : s \in Long}
    \cup UNION {UNION {{Twice(s, i), Foreign(s, i)} : i \in 2..Len(s)} : s \in Short \cup Long}
    \cup UNION {{Without(s, i) : i \in 1..(Len(s) - 1)} : s \in Short}

\* A clicked link, and a payment made again with the other gateway that fails.
Followup(type) == [Event(type, 2, "pay", GatewayA) EXCEPT !.followup = TRUE]
MCFollowups == {<<Followup("payment_link_clicked"), Followup("payment_created"),
                  Followup("payment_failed")>>}
=============================================================================
