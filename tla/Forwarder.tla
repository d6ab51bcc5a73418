------------------------------ MODULE Forwarder ------------------------------
(***************************************************************************)
(* The Splunk forwarder (consumers/main.py): it posts every record to the  *)
(* collector (SplunkHeCAdapter.emit, detection/publisher/splunk.py).  The  *)
(* consumer's iterator advances a position before it yields the record,    *)
(* and commits positions when it polls again.  A refused connection is     *)
(* tried again, Attempts times in all; any other error ends the process,   *)
(* which the container starts again.                                       *)
(***************************************************************************)
EXTENDS Topics

CONSTANTS
    Attempts,      \* range(5) of emit
    MaxErrors      \* bound: posts that fail
ASSUME ForwarderAssumption == Attempts \in Nat \ {0} /\ MaxErrors \in Nat

VARIABLES
    f_committed,   \* offsets of the group splunk-forwarder
    f_pc,          \* "idle", "emit", or "down" when it does not run
    f_position,
    message,       \* the record being posted
    attempt,
    indexed,       \* the records Splunk has
    excused,       \* history: records whose post raised and that were committed
    errors

forwarder == <<f_committed, f_pc, f_position, message, attempt, indexed, excused, errors>>

Nothing == <<>>

ForwarderInit ==
    /\ f_committed = NoneRead
    /\ f_pc = "down"
    /\ f_position = NoneRead
    /\ message = Nothing
    /\ attempt = 0
    /\ indexed = {}
    /\ excused = {}
    /\ errors = 0

StartForwarder ==
    /\ f_pc = "down"
    /\ f_position' = f_committed
    /\ f_pc' = "idle"
    /\ UNCHANGED <<f_committed, message, attempt, indexed, excused, errors>>

\* The iterator polls: everything yielded so far is committed.
Poll ==
    /\ f_pc = "idle" /\ f_committed # f_position
    /\ f_committed' = f_position
    /\ UNCHANGED <<f_pc, f_position, message, attempt, indexed, excused, errors>>

\* The iterator yields the next record of partition p.
Yield(p) ==
    /\ f_pc = "idle"
    /\ Available(f_position, p)
    /\ f_position' = Advanced(f_position, p)
    /\ message' = <<p, f_position[p] + 1>>
    /\ attempt' = 1
    /\ f_pc' = "emit"
    /\ UNCHANGED <<f_committed, indexed, excused, errors>>

\* The collector takes the record and answers.
Accepted ==
    /\ f_pc = "emit"
    /\ indexed' = indexed \cup {message}
    /\ message' = Nothing
    /\ attempt' = 0
    /\ f_pc' = "idle"
    /\ UNCHANGED <<f_committed, f_position, excused, errors>>

\* A post fails: nothing else of this record happens in this life.
PostFails == f_pc = "emit" /\ errors < MaxErrors /\ errors' = errors + 1

\* Mutant: there is always another attempt.
RefusedForever ==
    /\ PostFails
    /\ attempt' = attempt + 1
    /\ UNCHANGED <<f_committed, f_pc, f_position, message, indexed, excused>>
\* No connection: URLError, and another attempt is left.
Refused ==
    /\ PostFails
    /\ attempt < Attempts
    /\ attempt' = attempt + 1
    /\ UNCHANGED <<f_committed, f_pc, f_position, message, indexed, excused>>

Stop ==
    /\ f_pc' = "down"
    /\ f_position' = NoneRead
    /\ message' = Nothing
    /\ attempt' = 0

\* Mutant: the last error is swallowed.
Swallowed ==
    /\ PostFails
    /\ f_pc' = "idle" /\ message' = Nothing /\ attempt' = 0
    /\ UNCHANGED <<f_committed, f_position, indexed, excused>>
\* emit raises: the last attempt was refused, Splunk rejects the event (HTTPError),
\* or its answer does not come in time although it may have taken the event.
\* Whether the client library commits while the process unwinds is left open.
Raised ==
    /\ PostFails
    /\ indexed' \in {indexed, indexed \cup {message}}
    /\ f_committed' \in {f_committed, f_position}
    /\ excused' = IF f_committed' = f_position THEN excused \cup {message} ELSE excused
    /\ Stop

CrashForwarder ==
    /\ f_pc # "down"
    /\ Kill
    /\ Stop
    /\ UNCHANGED <<f_committed, indexed, excused, errors>>

ForwarderLoop == \/ Poll \/ Accepted \/ Refused \/ Raised
                 \/ \E p \in Partition : Yield(p)
ForwarderStep == \/ (StartForwarder \/ ForwarderLoop) /\ UNCHANGED crashes
                 \/ CrashForwarder

ForwarderNext ==
    \/ ForwarderStep /\ UNCHANGED end_offset
    \/ Kill /\ UNCHANGED <<forwarder, end_offset>>
    \/ (\E p \in Partition : Grow(p)) /\ UNCHANGED <<forwarder, crashes>>

ForwarderSpec ==
    TopicsInit /\ ForwarderInit /\ [][ForwarderNext]_<<end_offset, crashes, forwarder>>

-----------------------------------------------------------------------------
(* Properties *)

ForwarderTypeOK ==
    /\ end_offset \in [Partition -> Nat]
    /\ crashes \in 0..MaxCrashes
    /\ f_committed \in [Partition -> Nat] /\ f_position \in [Partition -> Nat]
    /\ f_pc \in {"down", "idle", "emit"}
    /\ IF f_pc = "emit" THEN message \in Record /\ attempt \in 1..Attempts
       ELSE message = Nothing /\ attempt = 0
    /\ indexed \subseteq Record /\ excused \subseteq Record
    /\ errors \in 0..MaxErrors

\* A record whose offset the forwarder has committed is in Splunk, whatever was
\* killed between the yield, the posts and the next poll (consumers/main.py:49-50);
\* a record whose post raised is excused when the unwinding process committed it.
CommittedIsIndexed ==
    \A p \in Partition : \A i \in 1..f_committed[p] : <<p, i>> \in indexed \cup excused
=============================================================================
