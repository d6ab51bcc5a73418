--------------------------- MODULE CandidateFeed ----------------------------
(***************************************************************************)
(* What the detection service promises the readers of detection.events and *)
(* recovery.events (README.md:74-78): every record assesses one failure    *)
(* event that was published, and no other event; a failure is assessed     *)
(* once per life of the service on each topic, but for the copies that the *)
(* producer's retries make.                                                *)
(***************************************************************************)
EXTENDS Naturals

CONSTANTS
    Topic,     \* detection.events and recovery.events
    Source     \* event ids of the lifecycles

VARIABLES
    failed,    \* the failure events published so far
    heard,     \* how often each topic has each event
    lives,     \* lives of the service
    copies     \* copies made by retries

vars == <<failed, heard, lives, copies>>

Init ==
    /\ failed = {}
    /\ heard = [p \in Topic |-> [s \in Source |-> 0]]
    /\ lives = 1
    /\ copies = 0

\* Lifecycles are published as a whole, with any number of failures in them.
Fail ==
    /\ failed \subseteq failed' /\ failed' \subseteq Source
    /\ UNCHANGED <<heard, lives, copies>>

\* A record reaches a topic, with k copies of it.
Announce(p, s, k) ==
    /\ s \in failed
    /\ heard[p][s] < lives + copies
    /\ heard' = [heard EXCEPT ![p][s] = @ + 1 + k]
    /\ copies' = copies + k
    /\ UNCHANGED <<failed, lives>>

Restart ==
    /\ lives' = lives + 1
    /\ UNCHANGED <<failed, heard, copies>>

Next ==
    \/ Fail
    \/ \E p \in Topic, s \in Source, k \in {0, 1} : Announce(p, s, k)
    \/ Restart

Spec == Init /\ [][Next]_vars
=============================================================================
