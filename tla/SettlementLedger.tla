-------------------------- MODULE SettlementLedger --------------------------
(***************************************************************************)
(* What settlement.events promises to whoever reads it (the dashboard, the *)
(* merchant view, the Splunk index): a ledger of batches.  A batch is      *)
(* posted with captured transactions that no other batch holds, keeps them *)
(* for good, and is closed once, with one outcome.  Queues, restarts and   *)
(* lost or repeated publications are not visible here.                     *)
(***************************************************************************)
EXTENDS Integers, FiniteSets

CONSTANTS Tx, Uid, Sizes

VARIABLES
    captured,   \* transactions whose capture is final
    ledger      \* per batch: its transactions and how it stands

vars == <<captured, ledger>>

Closed  == {"succeeded", "failed"}
Posting == [txs : SUBSET Tx, state : {"none", "open"} \cup Closed]
None    == [txs |-> {}, state |-> "none"]

Claimed == UNION {ledger[u].txs : u \in Uid}

Init ==
    /\ captured = {}
    /\ ledger = [u \in Uid |-> None]

Capture(t) ==
    /\ captured' = captured \cup {t}
    /\ UNCHANGED ledger

\* A batch appears, open as a rule, and already closed when the events that
\* announce it never reached the topic.
Post(u, S, state) ==
    /\ ledger[u].state = "none"
    /\ S \subseteq captured \ Claimed
    /\ Cardinality(S) \in Sizes
    /\ ledger' = [ledger EXCEPT ![u] = [txs |-> S, state |-> state]]
    /\ UNCHANGED captured

Close(u, outcome) ==
    /\ ledger[u].state = "open"
    /\ ledger' = [ledger EXCEPT ![u].state = outcome]
    /\ UNCHANGED captured

Next ==
    \/ \E t \in Tx : Capture(t)
    \/ \E u \in Uid :
        \/ \E S \in SUBSET Tx, state \in {"open"} \cup Closed : Post(u, S, state)
        \/ \E outcome \in Closed : Close(u, outcome)

Spec == Init /\ [][Next]_vars
=============================================================================
