---------------------------- MODULE MCAssessment ----------------------------
(***************************************************************************)
(* The assessment of a few candidates of two transactions.                 *)
(***************************************************************************)
EXTENDS Assessment, TLC

CONSTANTS t1, t2

\* The local intent store after one event, and after six or more.
MCLocal == {375, 1000}

\* A failure without a fault of the provider, and one with it.
Plain(stage, above, amount, alarm) ==
    [stage |-> stage, provider_fault |-> FALSE, above_median |-> above, degradation |-> 300,
     amount |-> amount, alarm |-> alarm]
Fault(stage, above, degradation) ==
    [stage |-> stage, provider_fault |-> TRUE, above_median |-> above,
     degradation |-> degradation, amount |-> 5000, alarm |-> "none"]

\* At checkout, with and without reason for a link, refused by risk or not, or the fault
\* of a sound or a degraded provider; at the other stages a failure of each kind, one of
\* an amount that the attempt is not worth.
MCCandidates ==
    {Plain("checkout", above, 5000, alarm) : above \in BOOLEAN, alarm \in {"none", "risk_score"}}
        \cup {Fault("checkout", TRUE, 300), Fault("checkout", FALSE, 900)}
        \cup {Plain("authorization", FALSE, 55, "none"), Fault("payment", FALSE, 900)}
        \cup {Plain("capture", FALSE, 5000, alarm) : alarm \in {"none", "risk_score"}}
        \cup {Fault("capture", FALSE, 300)}

Symmetric == Permutations(Tx)
=============================================================================
