----------------------------- MODULE Detection ------------------------------
(***************************************************************************)
(* The detection service (detection/consumer/main.py) between the          *)
(* lifecycles it reads and the two topics it writes.                       *)
(*                                                                         *)
(* An event is named by its transaction and its number among that          *)
(* transaction's events (event_id).  A topic per stage is keyed by         *)
(* transaction_id, so a log per stage and transaction stands for them; the *)
(* partitions are read in any order.  The consumer's iterator advances a   *)
(* position before it yields the record and commits positions when it      *)
(* polls again.  What the service has seen, its failure statistics and its *)
(* moving averages are in memory and start anew in every life.             *)
(*                                                                         *)
(* All events have payment_method UPI.  The customer intent scores and the *)
(* regression's probability are carried in a record and decide nothing     *)
(* here; they are left out.                                                *)
(***************************************************************************)
EXTENDS Lifecycle, Integers, FiniteSets

CONSTANTS
    Tx,              \* transaction ids
    Provider,        \* gateways, as numbers in the order of their names
    Drafts,          \* lifecycles the mock pipeline tries to publish
    Followups,       \* what the recovery service may publish for a candidate
    MaxEvents,       \* bound: events of a transaction
    MaxTotal,        \* bound: events of all transactions together, or of one that
                     \* meets a fault; a longer lifecycle is alone and undisturbed
    MaxRepeats,      \* bound: source events that reach their topic twice
    MaxCopies,       \* bound: detection records that reach their topic twice
    MaxCrashes,      \* bound: process kills
    MaxErrors,       \* bound: exceptions raised by publish
    MaxSendFaults,   \* bound: records given up by a producer
    MaxFaults        \* bound: all of these together

\* Events as the mock pipeline and the recovery service build them: both give
\* every event a status, success or failure, and a payment of its own.
SourceEvent == [type : EventType, status : {"success", "failure"}, attempt : Nat,
                payment : STRING \ {None}, provider : Provider, followup : BOOLEAN]

ASSUME ProviderAssumption == Provider \subseteq Nat \ {0} /\ IsFiniteSet(Provider)
\* The mock pipeline gives another attempt its number only after a failure.
ASSUME DraftAssumption ==
    /\ Drafts \cup Followups \subseteq Seq(SourceEvent)
    /\ \A s \in Followups : \A i \in 1..Len(s) : s[i].followup
    /\ \A s \in Drafts : \A i \in 1..Len(s) :
           /\ ~ s[i].followup
           /\ i > 1 /\ s[i - 1].status # "failure" => s[i].attempt = s[i - 1].attempt
ASSUME BoundAssumption ==
    {MaxEvents, MaxTotal, MaxRepeats, MaxCopies, MaxCrashes, MaxErrors, MaxSendFaults,
     MaxFaults} \subseteq Nat

VARIABLES
    \* The producers and their topics.
    script,       \* the lifecycle of t, with the follow-ups appended to it
    log,          \* stage topics: log[s][t] has the numbers of t's events
    \* The consumer's group and the topics of the service.
    committed,
    published,    \* published[p][t]: the records of t on topic p
    \* The process.
    pc,           \* where main stands; "down" when it does not run
    position,
    seen,         \* SEEN_SOURCE_EVENTS
    stats,        \* RCAEngine.provider_observations
    ewma,         \* DegradationStore.states
    current,      \* the record being published
    outbox,       \* what the producer has accepted and not yet delivered
    \* History: events whose record was lost by a send or an exception.
    excused,
    \* Counters of the bounds.
    repeats, copies, crashes, errors, sendFaults

source  == <<script, log>>
memory  == <<seen, stats, ewma>>
bounds  == <<repeats, copies, crashes, errors, sendFaults>>
vars    == <<script, log, committed, published, pc, position, seen, stats, ewma,
             current, outbox, excused, repeats, copies, crashes, errors, sendFaults>>

Topic == {"detection.events", "recovery.events"}
Key   == Stage \X Provider
Idle  == [tx |-> None]

Events(t)   == 1..Len(script[t])
Sources     == Tx \X (1..MaxEvents)
KeyOf(e)    == <<StageOf[e.type], e.provider>>
IsFailure(e) == e.status = "failure" /\ IsFailureType(e.type)

-----------------------------------------------------------------------------
(* The decisions of the code, each beside the ways it could go wrong. *)

\* ingestion_event_validation_error: a status the type cannot have.  A clicked
\* payment link is a success that is neither a start nor a completion.
Valid(e) ==
    /\ e.type \in EventType /\ e.status \in Status
    /\ e.status = "success" => \E s \in Stage : e.type \in {Started[s], Completed[s]}
    /\ e.status = "failure" => IsFailureType(e.type)

\* Mutant: a repeated event is noticed by its transaction only.
SeenTransaction(t, n) == \E m \in Events(t) : <<t, m>> \in seen
\* Mutant: nothing is remembered.
NeverSeen(t, n) == FALSE
SeenBefore(t, n) == <<t, n>> \in seen

\* RCAEngine.observe
Observed(e) ==
    [stats EXCEPT ![KeyOf(e)] = [total    |-> @.total + 1,
                                 failures |-> IF e.status = "failure" THEN @.failures + 1
                                              ELSE @.failures]]

\* Averages are in millionths.
Unit == 100
One  == 10000 * Unit

\* Mutants: the shares of old and new are not shares of one; an average starts
\* at zero.
Overweighted(average, metric) ==
    [initialized |-> TRUE,
     value |-> IF average.initialized THEN (10 * metric + 7 * average.value) \div 10
               ELSE metric]
FromZero(average, metric) ==
    [initialized |-> TRUE, value |-> (3 * metric + 7 * average.value) \div 10]
\* EwmaState.update with alpha 0.3: the first metric is the average.
Averaged(average, metric) ==
    [initialized |-> TRUE,
     value |-> IF average.initialized THEN (3 * metric + 7 * average.value) \div 10
               ELSE metric]
Tracked(e) ==
    [ewma EXCEPT ![KeyOf(e)] = Averaged(@, IF e.status = "success" THEN One ELSE 0)]
\* DegradationStore.update: the threshold is 0.45.
Degraded(average) == average.initialized /\ average.value < 4500 * Unit

\* RCAEngine.explain: the provider with most failures of the stage, then most
\* events, then the last name.
Suspects(st, s) == {p \in Provider : st[<<s, p>>].failures > 0}
Worse(x, y, p, q) ==
    \/ x.failures > y.failures
    \/ x.failures = y.failures /\ x.total > y.total
    \/ x.failures = y.failures /\ x.total = y.total /\ p >= q
Worst(st, s) ==
    CHOOSE p \in Suspects(st, s) :
        \A q \in Suspects(st, s) : Worse(st[<<s, p>>], st[<<s, q>>], p, q)
\* All failures of a stage.
StageFailures(st, s) ==
    LET count == [p \in Provider |-> st[<<s, p>>].failures]
        f[ps \in SUBSET Provider] ==
            IF ps = {} THEN 0
            ELSE LET p == CHOOSE p \in ps : TRUE IN count[p] + f[ps \ {p}]
    IN  f[Provider]

\* Mutant: the share alone decides.
BlamedByShare(st, s) ==
    IF st[<<s, Worst(st, s)>>].failures * 100 >= 20 * StageFailures(st, s) THEN Worst(st, s)
    ELSE 0
\* Two failures at least, and 0.45 + 0.45 * share + 0.05 * min(failures, 3) of
\* confidence against 0.65, in hundredths of the stage's failures.
Blamed(st, s) ==
    LET failures == st[<<s, Worst(st, s)>>].failures
        total    == StageFailures(st, s)
        bonus    == IF failures < 3 THEN 5 * failures ELSE 15
    IN  IF failures >= 2 /\ 45 * failures + bonus * total >= 20 * total THEN Worst(st, s)
        ELSE 0

\* build_detection_event: the source event's identity, the flag of its average
\* and the cause, with the event itself counted in both.
Record(t, n) ==
    LET e == script[t][n]
    IN  [tx |-> t, event |-> n, degraded |-> Degraded(Tracked(e)[KeyOf(e)]),
         cause |-> Blamed(Observed(e), StageOf[e.type])]

-----------------------------------------------------------------------------
NoStats   == [k \in Key |-> [total |-> 0, failures |-> 0]]
NoAverage == [k \in Key |-> [initialized |-> FALSE, value |-> 0]]

Init ==
    /\ script = [t \in Tx |-> <<>>]
    /\ log = [s \in Stage |-> [t \in Tx |-> <<>>]]
    /\ committed = [s \in Stage |-> [t \in Tx |-> 0]]
    /\ published = [p \in Topic |-> [t \in Tx |-> <<>>]]
    /\ pc = "idle"
    /\ position = committed
    /\ seen = {} /\ stats = NoStats /\ ewma = NoAverage
    /\ current = Idle
    /\ outbox = {}
    /\ excused = [p \in Topic |-> {}]
    /\ repeats = 0 /\ copies = 0 /\ crashes = 0 /\ errors = 0 /\ sendFaults = 0

consumer == <<committed, published, pc, position, seen, stats, ewma, current, outbox, excused,
              copies, crashes, errors>>

Scripted == LET length[ts \in SUBSET Tx] ==
                    IF ts = {} THEN 0
                    ELSE LET t == CHOOSE t \in ts : TRUE
                         IN  Len(script[t]) + length[ts \ {t}]
            IN  length[Tx]

Faults == repeats + copies + crashes + errors + sendFaults
FaultAllowed == Faults < MaxFaults /\ Scripted <= MaxTotal

\* How often each of n events reaches its topic: once, but the producer's retries
\* may put one there twice, and a producer gives one up without anybody looking
\* at the future.
Once(n) == [i \in 1..n |-> 1]
Fates(n) ==
    LET more == Faults < MaxFaults /\ Scripted + n <= MaxTotal
        one(allowed, times) == {[Once(n) EXCEPT ![i] = times] : i \in {j \in 1..n : allowed}}
    IN  {Once(n)} \cup one(more /\ repeats < MaxRepeats, 2)
                  \cup one(more /\ sendFaults < MaxSendFaults, 0)

\* The events of s on the topic of stage st, numbered from b + 1.
Arrivals(s, fate, st, b) ==
    LET arrived[i \in 0..Len(s)] ==
            IF i = 0 THEN <<>>
            ELSE arrived[i - 1] \o
                     [k \in 1..(IF StageOf[s[i].type] = st THEN fate[i] ELSE 0) |-> b + i]
    IN  arrived[Len(s)]

\* The events of s are handed to the topics, one after the other; no consumer is
\* ever known to be at the end of a topic, so they may appear there at once.
Publish(t, s) ==
    /\ script' = [script EXCEPT ![t] = @ \o s]
    /\ \E fate \in Fates(Len(s)) :
           /\ log' = [st \in Stage |-> [log[st] EXCEPT
                         ![t] = @ \o Arrivals(s, fate, st, Len(script[t]))]]
           /\ repeats' = IF \E i \in 1..Len(s) : fate[i] = 2 THEN repeats + 1 ELSE repeats
           /\ sendFaults' = IF \E i \in 1..Len(s) : fate[i] = 0 THEN sendFaults + 1
                            ELSE sendFaults
    /\ UNCHANGED <<consumer>>

\* run_once: a lifecycle that the guard takes as a whole is published; one that
\* it rejects ends the feed before anything is.
Publishable == {s \in Drafts : Validated(s)}
RunOnce(t, s) ==
    /\ script[t] = <<>>
    /\ Len(s) <= MaxEvents
    /\ Scripted + Len(s) <= MaxTotal \/ (Scripted = 0 /\ Faults = 0)
    /\ Publish(t, s)

\* The recovery service answers a candidate with events of its own, which no
\* guard sees.
Reattempt(t, s) ==
    /\ published["recovery.events"][t] # <<>>
    /\ Len(script[t]) + Len(s) <= MaxEvents
    /\ Scripted + Len(s) <= MaxTotal
    /\ Publish(t, s)

-----------------------------------------------------------------------------
\* The iterator polls: everything yielded so far is committed.
Poll ==
    /\ pc = "idle"
    /\ committed # position
    /\ committed' = position
    /\ UNCHANGED <<source, published, pc, position, memory, current, outbox, excused, bounds>>

\* The iterator yields event n of t from the topic of stage s.
Yields(s, t, n) ==
    /\ pc = "idle"
    /\ position[s][t] < Len(log[s][t])
    /\ n = log[s][t][position[s][t] + 1]
    /\ position' = [position EXCEPT ![s][t] = @ + 1]

\* process_event returns early: the event is invalid or was seen.
Skip(s, t, n) ==
    /\ Yields(s, t, n)
    /\ ~ Valid(script[t][n]) \/ SeenBefore(t, n)
    /\ UNCHANGED <<source, committed, published, pc, memory, current, outbox, excused, bounds>>

Learn(t, n) ==
    /\ Valid(script[t][n]) /\ ~ SeenBefore(t, n)
    /\ seen' = seen \cup {<<t, n>>}
    /\ stats' = Observed(script[t][n])
    /\ ewma' = Tracked(script[t][n])

\* An event that is no failure is learned from, and that is all.
Observe(s, t, n) ==
    /\ Yields(s, t, n)
    /\ Learn(t, n)
    /\ ~ IsFailure(script[t][n])
    /\ UNCHANGED <<source, committed, published, pc, current, outbox, excused, bounds>>

\* A failure is learned from and made into a record.
Detect(s, t, n) ==
    /\ Yields(s, t, n)
    /\ Learn(t, n)
    /\ IsFailure(script[t][n])
    /\ current' = Record(t, n)
    /\ pc' = "detected"
    /\ UNCHANGED <<source, committed, published, outbox, excused, bounds>>

\* publish, its two sends: detection.events, then recovery.events.
SendDetection ==
    /\ pc = "detected"
    /\ outbox' = outbox \cup {"detection.events"}
    /\ pc' = "offered"
    /\ UNCHANGED <<source, committed, published, position, memory, current, excused, bounds>>

SendCandidate ==
    /\ pc = "offered"
    /\ outbox' = outbox \cup {"recovery.events"}
    /\ pc' = "flush"
    /\ UNCHANGED <<source, committed, published, position, memory, current, excused, bounds>>

\* Mutant: publish does not flush.
NoFlush ==
    /\ pc = "flush"
    /\ pc' = "idle"
    /\ UNCHANGED <<source, committed, published, position, memory, current, outbox, excused,
                   bounds>>
\* publish, flush: it returns when nothing is left to deliver.
Flush ==
    /\ pc = "flush"
    /\ outbox = {}
    /\ pc' = "idle"
    /\ current' = Idle
    /\ UNCHANGED <<source, committed, published, position, memory, outbox, excused, bounds>>

\* The producer's thread delivers the record to topic p, perhaps twice.
Deliver(p, k) ==
    /\ p \in outbox
    /\ k = 1 => copies < MaxCopies /\ FaultAllowed
    /\ outbox' = outbox \ {p}
    /\ published' = [published EXCEPT ![p][current.tx] = @ \o [i \in 1..(1 + k) |-> current]]
    /\ copies' = copies + k
    /\ UNCHANGED <<source, committed, pc, position, memory, current, excused, repeats, crashes,
                   errors, sendFaults>>

\* The producer gives the record up after its retries; nobody looks at the future.
GiveUp(p) ==
    /\ p \in outbox
    /\ sendFaults < MaxSendFaults /\ FaultAllowed
    /\ sendFaults' = sendFaults + 1
    /\ outbox' = outbox \ {p}
    /\ excused' = [excused EXCEPT ![p] = @ \cup {<<current.tx, current.event>>}]
    /\ UNCHANGED <<source, committed, published, pc, position, memory, current, repeats,
                   copies, crashes, errors>>

Forget ==
    /\ pc' = "down"
    /\ current' = Idle
    /\ outbox' = {}
    /\ seen' = {} /\ stats' = NoStats /\ ewma' = NoAverage

\* publish raises: main ends.  Whether the client library commits the positions
\* while the process unwinds is left open.
Raise ==
    /\ pc \in {"detected", "offered", "flush"}
    /\ errors < MaxErrors /\ FaultAllowed
    /\ errors' = errors + 1
    /\ committed' \in {committed, position}
    /\ position' = committed'
    /\ excused' = IF committed' = position
                  THEN [p \in Topic |-> excused[p] \cup {<<current.tx, current.event>>}]
                  ELSE excused
    /\ Forget
    /\ UNCHANGED <<source, published, repeats, copies, crashes, sendFaults>>

\* The process is killed.
Crash ==
    /\ pc # "down"
    /\ crashes < MaxCrashes /\ FaultAllowed
    /\ crashes' = crashes + 1
    /\ position' = committed
    /\ Forget
    /\ UNCHANGED <<source, committed, published, excused, repeats, copies, errors, sendFaults>>

Restart ==
    /\ pc = "down"
    /\ pc' = "idle"
    /\ UNCHANGED <<source, committed, published, position, memory, current, outbox, excused,
                   bounds>>

Next ==
    \/ \E t \in Tx : \/ \E s \in Publishable : RunOnce(t, s)
                     \/ \E s \in Followups : Reattempt(t, s)
    \/ \E s \in Stage, t \in Tx : \E n \in Events(t) :
           Skip(s, t, n) \/ Observe(s, t, n) \/ Detect(s, t, n)
    \/ \E p \in outbox : GiveUp(p) \/ \E k \in {0, 1} : Deliver(p, k)
    \/ Poll \/ SendDetection \/ SendCandidate \/ Flush
    \/ Raise \/ Crash \/ Restart

Spec == Init /\ [][Next]_vars

\* The loop runs on, every partition is read, the producer's thread delivers
\* and the container is started again (restart: unless-stopped).  The feeds owe
\* nothing.
Fairness ==
    /\ WF_vars(SendDetection \/ SendCandidate \/ Flush \/ Restart)
    /\ WF_vars(\E p \in outbox : Deliver(p, 0))
    /\ \A s \in Stage, t \in Tx :
           WF_vars(\E n \in Events(t) : Skip(s, t, n) \/ Observe(s, t, n) \/ Detect(s, t, n))

FairSpec == Spec /\ Fairness

-----------------------------------------------------------------------------
(* Properties *)

Records == [tx : Tx, event : 1..MaxEvents, degraded : BOOLEAN, cause : Provider \cup {0}]

TypeOK ==
    /\ log \in [Stage -> [Tx -> Seq(1..MaxEvents)]]
    /\ committed \in [Stage -> [Tx -> Nat]] /\ position \in [Stage -> [Tx -> Nat]]
    /\ published \in [Topic -> [Tx -> Seq(Records)]]
    /\ pc \in {"down", "idle", "detected", "offered", "flush"}
    /\ seen \subseteq Sources
    /\ stats \in [Key -> [total : Nat, failures : Nat]]
    /\ ewma \in [Key -> [initialized : BOOLEAN, value : 0..One]]
    /\ IF pc \in {"down", "idle"} THEN current = Idle ELSE current \in Records
    /\ outbox \subseteq Topic
    /\ excused \in [Topic -> SUBSET Sources]

\* Event x is a failure that has reached its topic.
HasFailed(x) ==
    /\ x[2] <= Len(script[x[1]])
    /\ LET e == script[x[1]][x[2]]
       IN  /\ IsFailure(e)
           /\ \E i \in 1..Len(log[StageOf[e.type]][x[1]]) : log[StageOf[e.type]][x[1]][i] = x[2]
Failures == {x \in Sources : HasFailed(x)}
HasRead(k, x) == \E s \in Stage : \E i \in 1..k[s][x[1]] : log[s][x[1]][i] = x[2]
Published(p, x) == \E i \in 1..Len(published[p][x[1]]) : published[p][x[1]][i].event = x[2]

\* A failure whose offset the group has committed is on both topics, whatever
\* was killed in between and although SEEN_SOURCE_EVENTS is set before the record
\* is published (main.py:120).  A record given up by the producer is excused, and one
\* whose publication raised and that was committed while the process unwound.
CommittedIsPublished ==
    \A x \in Failures : HasRead(committed, x) =>
        \A p \in Topic : Published(p, x) \/ x \in excused[p]

\* A record that blames a provider rests on two different failures of it at that
\* stage (detection/tests/test_rca.py:33, "insufficient_evidence"), whatever was
\* repeated on the way.
BlameIsSupported ==
    \A p \in Topic, t \in Tx : \A i \in 1..Len(published[p][t]) :
        LET r == published[p][t][i]
            stage == StageOf[script[t][r.event].type]
        IN  r.cause # 0 =>
                \E x, y \in Failures : x # y /\ KeyOf(script[x[1]][x[2]]) = <<stage, r.cause>>
                                             /\ KeyOf(script[y[1]][y[2]]) = <<stage, r.cause>>

\* The two memories of a provider agree: an average below the threshold means
\* that half of its events failed, or three of them.
DegradationIsObserved ==
    \A k \in Key : Degraded(ewma[k]) =>
        stats[k].failures >= 3 \/ 2 * stats[k].failures >= stats[k].total

\* A published lifecycle leaves out no step of the flow, changes its payment
\* nowhere and goes back only with another attempt after a failure, to a step that
\* was reached (runner/mock_pipeline.py:55-103), whatever draft was made; a second
\* checkout_started after a success passes the guard, and what the recovery
\* service adds is not guarded.
LifecycleCausal ==
    \A t \in Tx : \A n \in 0..Len(script[t]) :
        (\A i \in 1..n : ~ script[t][i].followup) => Causal(SubSeq(script[t], 1, n))

\* "A `failure` line is terminal; the producer must not print any later lifecycle
\* event for that transaction" (run.md:151-152).
FailureEndsLifecycle ==
    \A t \in Tx : \A i, j \in Events(t) :
        i < j /\ ~ script[t][j].followup => script[t][i].status # "failure"

\* Failures that wait to become candidates become them at last, through kills and
\* repeated events, unless their record was lost by a send or an exception.
Waiting(x) == HasFailed(x) /\ ~ Published("recovery.events", x)
                           /\ x \notin excused["recovery.events"]
EveryFailureBecomesCandidate ==
    \A t \in Tx : (\E n \in Events(t) : Waiting(<<t, n>>))
                     ~> (\A n \in Events(t) : ~ Waiting(<<t, n>>))

\* The two topics are a feed of assessed failures.
Feed == INSTANCE CandidateFeed WITH
    Source <- Sources,
    failed <- Failures,
    heard  <- [p \in Topic |-> [x \in Sources |->
                  Cardinality({i \in 1..Len(published[p][x[1]]) :
                                  published[p][x[1]][i].event = x[2]})]],
    lives  <- 1 + crashes + errors
ImplementsFeed == Feed!Spec
=============================================================================
