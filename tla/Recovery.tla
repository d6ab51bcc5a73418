------------------------------ MODULE Recovery ------------------------------
(***************************************************************************)
(* The recovery service: the loop of recovery/consumer/main.py, the part of *)
(* the coordinator that registers a candidate and stores its result        *)
(* (coordinator/service.py:59-76) and the Redis store (state/store.py).    *)
(* What the agents, the consensus and the policy make of a candidate is    *)
(* the subject of module Assessment: here the decision is any action the   *)
(* policy's limits leave open.                                             *)
(*                                                                         *)
(* A candidate is one failure event of a transaction, named by its number  *)
(* among that transaction's failures (event_id).  Every topic is keyed by  *)
(* transaction_id, so recovery.events is a log per transaction.  The       *)
(* consumer's iterator advances the position of a record before it yields  *)
(* it and commits positions only when it polls again, which it does after  *)
(* the last record of a poll, and when it is closed.                       *)
(*                                                                         *)
(* Redis is written by this one process, so what the code holds of a       *)
(* transaction's state between two calls is what Redis has.                *)
(***************************************************************************)
EXTENDS Integers, Sequences, FiniteSets

CONSTANTS
    Tx,             \* transaction ids
    Action,         \* the actions consensus can decide on for them
    Converts,       \* <<t, a>>: the stable percentile of t and a is a success
    Opens,          \* transactions whose payment link gets opened
    MaxAttempts,    \* config.maximum_recovery_attempts
    MaxFailures,    \* bound: failures per transaction not caused by a follow-up
    MaxRepeats,     \* bound: candidates published again
    MaxCrashes,     \* bound: process kills
    MaxErrors,      \* bound: exceptions that reach the loop
    MaxStops,       \* bound: SIGTERMs
    MaxSendFaults   \* bound: sends given up by the producer

ASSUME OutcomesAssumption ==
    /\ Converts \subseteq Tx \X Action
    /\ Opens \subseteq Tx
ASSUME NumbersAssumption ==
    /\ MaxAttempts \in Nat
    /\ {MaxFailures, MaxRepeats, MaxCrashes, MaxErrors, MaxStops, MaxSendFaults} \subseteq Nat

VARIABLES
    \* The topics.
    failures,     \* lifecycle topics: how many failure events t has
    captures,     \* capture.events: the candidates whose follow-up captured t
    candidates,   \* recovery.events
    acks,         \* recovery.acknowledgements
    committed,    \* the group's committed offsets
    \* Redis.
    state,        \* recovery:state:t
    event_ids,    \* recovery:events:t
    \* The process.
    pc,           \* where run() stands; "down" when the process does not run
    position,     \* the consumer's positions
    current,      \* the candidate being handled: <<t, n>>
    outbox,       \* what the producer has accepted and not yet delivered
    stopping,
    \* History: the candidates whose follow-ups were produced, in order.
    executed,
    \* Counters of the bounds.
    origins, repeats, crashes, errors, stops, sendFaults

topics == <<failures, captures, candidates, acks>>
redis  == <<state, event_ids>>
bounds == <<origins, repeats, crashes, errors, stops, sendFaults>>
vars   == <<failures, captures, candidates, acks, committed, state, event_ids,
            pc, position, current, outbox, stopping, executed,
            origins, repeats, crashes, errors, stops, sendFaults>>

Status == {"CANDIDATE_RECEIVED", "COMPLETED", "RECOVERED"}
State  == [version : Nat, status : Status \cup {"absent"}, attempts : Nat,
           last_event : Nat, action : Action \cup {"none"}]
Absent == [version |-> 0, status |-> "absent", attempts |-> 0,
           last_event |-> 0, action |-> "none"]

Idle == <<>>
tx    == current[1]
event == current[2]

\* What a producer record says; an acknowledgement also tells the state version
\* and whether the follow-ups captured the payment.
Followup(kind) == [kind |-> kind, tx |-> tx, event |-> event]
Ack(recovered) == [kind |-> "ack", tx |-> tx, event |-> event,
                   version |-> state[tx].version, recovered |-> recovered]

-----------------------------------------------------------------------------
(* The decisions of the code, each beside the ways it could go wrong. *)

\* Mutant: a candidate counts as seen only while it is the last one.
LastSeen(t, n) == state[t].last_event = n
Seen(t, n) == n \in event_ids[t]

\* Mutant: a new candidate starts a new history.
FreshHistory(s, n) == [version |-> s.version + 1, status |-> "CANDIDATE_RECEIVED",
                       attempts |-> 0, last_event |-> n, action |-> "none"]
\* upsert_candidate replaces all of the state but the version and the attempts.
Received(s, n) == [version |-> s.version + 1, status |-> "CANDIDATE_RECEIVED",
                   attempts |-> s.attempts, last_event |-> n, action |-> "none"]

\* The policy's limits on the transaction itself: attempt_limit and
\* transaction_state.
Authorized(s) ==
    /\ s.attempts < MaxAttempts
    /\ s.status \notin {"RECOVERED", "COMPLETED"}

\* Mutant: the execution's status is stored for the transaction's.
ExecutionStatus(s, a) == [s EXCEPT !.status = "SUCCESS", !.action = a]
\* apply_recovery_result.  Nobody sets synthetic_verified, so the outcome of an
\* execution is never RECOVERED.
Assessed(s, a) == [s EXCEPT !.status = "COMPLETED", !.action = a,
                            !.attempts = IF a = "none" THEN @ ELSE @ + 1]

\* recovery_followup_events: an unopened link has none; otherwise the payment is
\* made again and ends in a capture or in one more failure.
Followups ==
    LET a == state[tx].action
    IN  IF a = "none" \/ (a = "SEND_PAYMENT_LINK" /\ tx \notin Opens) THEN {}
        ELSE IF <<tx, a>> \in Converts THEN {Followup("capture")}
        ELSE {Followup("failure")}

\* Mutant: the acknowledgement reports the stored status.
ByStoredStatus == state[tx].status = "RECOVERED"
\* acknowledgement: recovered when a follow-up captured the payment.
Recovered == Followup("capture") \in Followups

\* Mutant: only an executed action is acknowledged.
AckWhenActed == IF state[tx].action = "none" THEN {} ELSE {Ack(Recovered)}
Acknowledgement == {Ack(Recovered)}

-----------------------------------------------------------------------------
Init ==
    /\ failures = [t \in Tx |-> 0]
    /\ captures = [t \in Tx |-> {}]
    /\ candidates = [t \in Tx |-> <<>>]
    /\ acks = {}
    /\ committed = [t \in Tx |-> 0]
    /\ state = [t \in Tx |-> Absent]
    /\ event_ids = [t \in Tx |-> {}]
    /\ pc = "idle"
    /\ position = [t \in Tx |-> 0]
    /\ current = Idle
    /\ outbox = {}
    /\ stopping = FALSE
    /\ executed = [t \in Tx |-> <<>>]
    /\ origins = [t \in Tx |-> 0]
    /\ repeats = 0 /\ crashes = 0 /\ errors = 0 /\ stops = 0 /\ sendFaults = 0

\* A lifecycle of t fails.  A transaction fails more than once when a feed runs
\* with MOCK_TRANSACTION_ID, or retries by itself as scenario recovery_retry does.
Fail(t) ==
    /\ origins[t] < MaxFailures
    /\ origins' = [origins EXCEPT ![t] = @ + 1]
    /\ failures' = [failures EXCEPT ![t] = @ + 1]
    /\ UNCHANGED <<captures, candidates, acks, committed, redis, pc, position, current,
                   outbox, stopping, executed, repeats, crashes, errors, stops, sendFaults>>

\* The detection service turns failure n of t into a candidate; the stages are
\* topics of their own, so in any order, and again after a restart, when it has
\* forgotten what it has seen.
Detect(t, n) ==
    /\ n \in 1..failures[t]
    /\ LET again == \E i \in 1..Len(candidates[t]) : candidates[t][i] = n
       IN  /\ again => repeats < MaxRepeats
           /\ repeats' = IF again THEN repeats + 1 ELSE repeats
    /\ candidates' = [candidates EXCEPT ![t] = Append(@, n)]
    /\ UNCHANGED <<failures, captures, acks, committed, redis, pc, position, current,
                   outbox, stopping, executed, origins, crashes, errors, stops, sendFaults>>

\* The iterator polls: everything yielded so far is committed.
Poll ==
    /\ pc = "idle"
    /\ committed # position
    /\ committed' = position
    /\ UNCHANGED <<topics, redis, pc, position, current, outbox, stopping, executed, bounds>>

\* Mutant: the record is committed as soon as it is yielded.
CommitOnTake(t) ==
    /\ pc = "idle"
    /\ ~ stopping
    /\ position[t] < Len(candidates[t])
    /\ position' = [position EXCEPT ![t] = @ + 1]
    /\ committed' = position'
    /\ current' = <<t, candidates[t][position[t] + 1]>>
    /\ pc' = "received"
    /\ UNCHANGED <<topics, redis, outbox, stopping, executed, bounds>>
\* The iterator yields the next record of t; the candidate is valid.
Take(t) ==
    /\ pc = "idle"
    /\ ~ stopping
    /\ position[t] < Len(candidates[t])
    /\ position' = [position EXCEPT ![t] = @ + 1]
    /\ current' = <<t, candidates[t][position[t] + 1]>>
    /\ pc' = "received"
    /\ UNCHANGED <<topics, committed, redis, outbox, stopping, executed, bounds>>

\* Mutant: a candidate that comes again is acknowledged again.
AnswerAgain ==
    /\ pc = "received"
    /\ Seen(tx, event)
    /\ pc' = "flush"
    /\ outbox' = outbox \cup {Ack(FALSE)}
    /\ UNCHANGED <<topics, committed, redis, position, current, stopping, executed, bounds>>
\* upsert_candidate finds the event id: nothing more is done with the record.
SkipDuplicate ==
    /\ pc = "received"
    /\ Seen(tx, event)
    /\ pc' = "idle"
    /\ current' = Idle
    /\ UNCHANGED <<topics, committed, redis, position, outbox, stopping, executed, bounds>>

\* upsert_candidate, its first write: SET recovery:state:t.
StoreCandidate ==
    /\ pc = "received"
    /\ ~ Seen(tx, event)
    /\ state' = [state EXCEPT ![tx] = Received(@, event)]
    /\ pc' = "stored"
    /\ UNCHANGED <<topics, committed, event_ids, position, current, outbox, stopping,
                   executed, bounds>>

\* upsert_candidate, its second write: SADD recovery:events:t.
RememberEvent ==
    /\ pc = "stored"
    /\ event_ids' = [event_ids EXCEPT ![tx] = @ \cup {event}]
    /\ pc' = "registered"
    /\ UNCHANGED <<topics, committed, state, position, current, outbox, stopping,
                   executed, bounds>>

\* receive_candidate: beliefs, consensus, policy, simulated execution and
\* apply_recovery_result.
Assess(a) ==
    /\ pc = "registered"
    /\ a = "none" \/ Authorized(state[tx])
    /\ state' = [state EXCEPT ![tx] = Assessed(@, a)]
    /\ pc' = "assessed"
    /\ UNCHANGED <<topics, committed, event_ids, position, current, outbox, stopping,
                   executed, bounds>>

\* run: the follow-ups are handed to the producer.
SendFollowups ==
    /\ pc = "assessed"
    /\ outbox' = outbox \cup Followups
    /\ executed' = IF state[tx].action = "none" THEN executed
                   ELSE [executed EXCEPT ![tx] = Append(@, event)]
    /\ pc' = "sent"
    /\ UNCHANGED <<topics, committed, redis, position, current, stopping, bounds>>

\* run: the acknowledgement is handed to the producer.
SendAck ==
    /\ pc = "sent"
    /\ outbox' = outbox \cup Acknowledgement
    /\ pc' = "flush"
    /\ UNCHANGED <<topics, committed, redis, position, current, stopping, executed, bounds>>

\* run: flush returns when the producer has nothing left to deliver.
Flush ==
    /\ pc = "flush"
    /\ outbox = {}
    /\ pc' = "idle"
    /\ current' = Idle
    /\ UNCHANGED <<topics, committed, redis, position, outbox, stopping, executed, bounds>>

\* The producer's thread delivers a record; the topics are independent.
Deliver(r) ==
    /\ r \in outbox
    /\ outbox' = outbox \ {r}
    /\ captures' = IF r.kind = "capture"
                   THEN [captures EXCEPT ![r.tx] = @ \cup {r.event}] ELSE captures
    /\ failures' = IF r.kind = "failure"
                   THEN [failures EXCEPT ![r.tx] = @ + 1] ELSE failures
    /\ acks' = IF r.kind = "ack" THEN acks \cup {r} ELSE acks
    /\ UNCHANGED <<candidates, committed, redis, pc, position, current, stopping,
                   executed, bounds>>

\* The producer gives a record up after its retries; nobody looks at the future.
GiveUp(r) ==
    /\ r \in outbox
    /\ sendFaults < MaxSendFaults
    /\ sendFaults' = sendFaults + 1
    /\ outbox' = outbox \ {r}
    /\ UNCHANGED <<topics, committed, redis, pc, position, current, stopping, executed,
                   origins, repeats, crashes, errors, stops>>

\* An exception reaches the loop of run: the clients are closed, which commits
\* the position behind the record being handled unless that fails too, and
\* built again from the committed offsets.
Error ==
    /\ pc \notin {"down", "idle", "closing"}
    /\ errors < MaxErrors
    /\ errors' = errors + 1
    /\ committed' \in {position, committed}
    /\ position' = committed'
    /\ pc' = "closing"
    /\ current' = Idle
    /\ UNCHANGED <<topics, redis, outbox, stopping, executed, origins, repeats, crashes,
                   stops, sendFaults>>

\* The old producer's close returns when it has delivered everything; the loop goes
\* on with new clients, or ends if a signal has come.
Reconnect ==
    /\ pc = "closing"
    /\ outbox = {}
    /\ pc' = IF stopping THEN "down" ELSE "idle"
    /\ stopping' = FALSE
    /\ UNCHANGED <<topics, committed, redis, position, current, outbox, executed, bounds>>

\* The process is killed.
Crash ==
    /\ pc # "down"
    /\ crashes < MaxCrashes
    /\ crashes' = crashes + 1
    /\ pc' = "down"
    /\ position' = committed
    /\ current' = Idle
    /\ outbox' = {}
    /\ stopping' = FALSE
    /\ UNCHANGED <<topics, committed, redis, executed, origins, repeats, errors, stops,
                   sendFaults>>

\* SIGTERM or SIGINT.
Stop ==
    /\ pc # "down"
    /\ ~ stopping
    /\ stops < MaxStops
    /\ stops' = stops + 1
    /\ stopping' = TRUE
    /\ UNCHANGED <<topics, committed, redis, pc, position, current, outbox, executed,
                   origins, repeats, crashes, errors, sendFaults>>

\* The loop notices the signal at the next record, which it has then taken and
\* does not handle; closing the consumer commits the position behind it.
Leave(t) ==
    /\ pc = "idle"
    /\ stopping
    /\ position[t] < Len(candidates[t])
    /\ position' = [position EXCEPT ![t] = @ + 1]
    /\ committed' = position'
    /\ pc' = "down"
    /\ stopping' = FALSE
    /\ UNCHANGED <<topics, redis, current, outbox, executed, bounds>>

Restart ==
    /\ pc = "down"
    /\ pc' = "idle"
    /\ UNCHANGED <<topics, committed, redis, position, current, outbox, stopping,
                   executed, bounds>>

Next ==
    \/ \E t \in Tx : Fail(t) \/ Take(t) \/ Leave(t)
    \/ \E t \in Tx : \E n \in 1..failures[t] : Detect(t, n)
    \/ \E a \in Action \cup {"none"} : Assess(a)
    \/ \E r \in outbox : Deliver(r) \/ GiveUp(r)
    \/ Poll \/ SkipDuplicate \/ StoreCandidate \/ RememberEvent
    \/ SendFollowups \/ SendAck \/ Flush
    \/ Error \/ Reconnect \/ Crash \/ Stop \/ Restart

Spec == Init /\ [][Next]_vars

\* The loop runs on, the producer's thread delivers, every partition is read
\* and the container is started again (restart: unless-stopped).
Fairness ==
    /\ WF_vars(SkipDuplicate \/ StoreCandidate \/ RememberEvent \/ SendFollowups
               \/ SendAck \/ Flush \/ Reconnect \/ Restart)
    /\ WF_vars(\E a \in Action \cup {"none"} : Assess(a))
    /\ WF_vars(\E r \in outbox : Deliver(r))
    /\ \A t \in Tx : WF_vars(Take(t)) /\ WF_vars(Leave(t))

FairSpec == Spec /\ Fairness

-----------------------------------------------------------------------------
(* Properties *)

TypeOK ==
    /\ failures \in [Tx -> Nat]
    /\ captures \in [Tx -> SUBSET Nat]
    /\ candidates \in [Tx -> Seq(Nat)]
    /\ acks \subseteq [kind : {"ack"}, tx : Tx, event : Nat, version : Nat, recovered : BOOLEAN]
    /\ committed \in [Tx -> Nat] /\ position \in [Tx -> Nat]
    /\ state \in [Tx -> State]
    /\ event_ids \in [Tx -> SUBSET Nat]
    /\ pc \in {"down", "idle", "received", "stored", "registered", "assessed", "sent", "flush",
                "closing"}
    /\ IF pc \in {"down", "idle", "closing"} THEN current = Idle ELSE current \in Tx \X Nat
    /\ stopping \in BOOLEAN
    /\ executed \in [Tx -> Seq(Nat)]

Read(t, k) == {candidates[t][i] : i \in 1..k[t]}
Ends == [t \in Tx |-> Len(candidates[t])]
EventIds == 1..MaxFailures + MaxAttempts
Answered(t) == {a.event : a \in {b \in acks : b.tx = t}}

\* "Ordinary duplicate-candidate replay skips repeated follow-up execution"
\* (README.md:140): no candidate's follow-ups are produced twice, through
\* redelivery, repeated detection, crashes and exceptions at any step.
ExecutedOnce ==
    \A t \in Tx : \A i, j \in 1..Len(executed[t]) :
        executed[t][i] = executed[t][j] => i = j

\* Every execution was counted before its effects, so a transaction never gets
\* more than maximum_recovery_attempts of them, whatever is lost in between.
AttemptsCounted ==
    \A t \in Tx :
        /\ Len(executed[t]) <= state[t].attempts
        /\ state[t].attempts <= MaxAttempts

\* The state version of an acknowledgement names one candidate
\* (tests: "versions deterministically", test_recovery.py:18); a consequence of
\* the case book below, stated for those who read the acknowledgements alone.
VersionNamesCandidate ==
    \A a, b \in acks : a.tx = b.tx /\ a.version = b.version => a.event = b.event

\* An acknowledgement never denies a capture its follow-ups made.
AckTellsCaptures ==
    \A a \in acks : a.event \in captures[a.tx] => a.recovered

\* Every candidate the group has committed was registered, but for at most one
\* per exception or stop: a kill alone makes no candidate disappear.
SkippedBound ==
    Cardinality(UNION {{t} \X (Read(t, committed) \ event_ids[t]) : t \in Tx})
        <= errors + stops

\* When the service is at rest, every registered candidate was acknowledged, but
\* for at most one per kill, exception or record given up.
UnansweredBound ==
    pc = "idle" /\ outbox = {} =>
        Cardinality(UNION {{t} \X (event_ids[t] \ Answered(t)) : t \in Tx})
            <= crashes + errors + sendFaults

\* Those who offer candidates and those who read the acknowledgements see a case book,
\* whatever is killed, repeated or lost in between.
Book == INSTANCE CaseBook WITH
    offered <- [t \in Tx |-> Read(t, Ends)], registered <- event_ids,
    acted <- executed, captured <- captures, answers <- acks
ImplementsCaseBook == Book!Spec

\* "Block already successful or recovered transactions" (README.md:132): once a
\* follow-up has captured the payment, no other action is executed on it.
RecoveredLeftAlone ==
    [][\A t \in Tx : captures[t] # {} => executed'[t] = executed[t]]_vars

\* Kills alone delay a candidate but never lose it: it is registered at last.
CandidatesRegistered ==
    \A t \in Tx : \A n \in EventIds :
        (n \in Read(t, Ends)) ~> (n \in event_ids[t] \/ errors + stops > 0)

\* Without faults every candidate is acknowledged at last.
CandidatesAnswered ==
    \A t \in Tx : \A n \in EventIds :
        (n \in Read(t, Ends))
            ~> (n \in Answered(t) \/ crashes + errors + stops + sendFaults > 0)
=============================================================================
