----------------------------- MODULE MCRecovery -----------------------------
(***************************************************************************)
(* The recovery service on one and two transactions.                       *)
(***************************************************************************)
EXTENDS Recovery, TLC

CONSTANTS t1, t2

\* A link is opened and pays; a retry of the same payment fails again.
MCAction   == {"SEND_PAYMENT_LINK", "RETRY_PAYMENT"}
MCConverts == Tx \X {"SEND_PAYMENT_LINK"}
MCOpens    == {t1}

\* Of two transactions that open their links, one pays and one fails again.
MCLink     == {"SEND_PAYMENT_LINK"}
MCOnePays  == {<<t1, "SEND_PAYMENT_LINK">>}
=============================================================================
