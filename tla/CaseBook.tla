------------------------------ MODULE CaseBook ------------------------------
(***************************************************************************)
(* What the recovery service promises those who offer it candidates and    *)
(* those who read recovery.acknowledgements (README.md:140): every case is *)
(* opened once, acted on at most once and within the limit, never after it *)
(* was answered, and answered at most once; the answer owns up to every    *)
(* capture, and the answers of a transaction come in the order of their    *)
(* versions.                                                               *)
(***************************************************************************)
EXTENDS Naturals, Sequences

CONSTANTS
    Tx,             \* transaction ids
    MaxAttempts     \* actions on one transaction

VARIABLES
    offered,        \* the candidates of each transaction
    registered,     \* those the service has taken up
    acted,          \* those it has acted on, in order
    captured,       \* those whose action captured the payment
    answers         \* the acknowledgements

vars == <<offered, registered, acted, captured, answers>>

Acted(t)       == {acted[t][i] : i \in 1..Len(acted[t])}
AnswersTo(t, n) == {a \in answers : a.tx = t /\ a.event = n}

Init ==
    /\ offered    = [t \in Tx |-> {}]
    /\ registered = [t \in Tx |-> {}]
    /\ acted      = [t \in Tx |-> <<>>]
    /\ captured   = [t \in Tx |-> {}]
    /\ answers    = {}

Offer(t) ==
    /\ \E n \in offered'[t] : offered' = [offered EXCEPT ![t] = @ \cup {n}]
    /\ UNCHANGED <<registered, acted, captured, answers>>

Register(t, n) ==
    /\ n \in offered[t] \ registered[t]
    /\ registered' = [registered EXCEPT ![t] = @ \cup {n}]
    /\ UNCHANGED <<offered, acted, captured, answers>>

Act(t, n) ==
    /\ n \in registered[t] \ Acted(t)
    /\ AnswersTo(t, n) = {}
    /\ Len(acted[t]) < MaxAttempts
    /\ acted' = [acted EXCEPT ![t] = Append(@, n)]
    /\ UNCHANGED <<offered, registered, captured, answers>>

Capture(t, n) ==
    /\ n \in Acted(t) \ captured[t]
    /\ \A a \in AnswersTo(t, n) : a.recovered
    /\ captured' = [captured EXCEPT ![t] = @ \cup {n}]
    /\ UNCHANGED <<offered, registered, acted, answers>>

Answer(t, n) ==
    \E a \in answers' \ answers :
        /\ a.tx = t /\ a.event = n
        /\ n \in registered[t] /\ AnswersTo(t, n) = {}
        /\ n \in captured[t] => a.recovered
        /\ a.recovered => n \in Acted(t)
        /\ \A b \in answers : b.tx = t => b.version < a.version
        /\ answers' = answers \cup {a}
        /\ UNCHANGED <<offered, registered, acted, captured>>

Next ==
    \E t \in Tx :
        \/ Offer(t)
        \/ \E n \in offered[t] :
               Register(t, n) \/ Act(t, n) \/ Capture(t, n) \/ Answer(t, n)

Spec == Init /\ [][Next]_vars
=============================================================================
