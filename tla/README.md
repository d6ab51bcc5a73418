# RevTrace verification

TLA+ models of RevTrace, the payment-failure detection and revenue-recovery system of this repository, with TLC runs
that check them on small instances and TLAPS proofs of what matters most for every instance. Paths and line numbers refer
to the repository's `src/` tree.

## The system

Seven long-running services and a few scripts, connected by Kafka topics that are all keyed by an id (transaction, batch),
with Redis, a JSON snapshot and Splunk as stores.

    producers ──> transaction / payment / authorization / capture events ──> detection ──> detection.events
        ^                              │                                          └─────> recovery.events
        │ follow-ups                   v                                                       │
        │                     settlement service <─> settlement.events                        v
        └───────────────────────────────────────────────────────────────────── recovery service ──> acknowledgements
    ingestion bridge: every topic ──> snapshot ──> dashboard         forwarder: events ──> Splunk HEC

| Component | State | Operations | What is hard, and what makes it correct |
| --- | --- | --- | --- |
| Settlement service (`services/settlement/main.py`, `SettlementBatcher` in `common/settlement.py`) | queue, batches, sequence, in-flight batches: all in memory; its topic is its only store | consume captures, reconcile its own events, gate on the replay, make, announce and complete batches | rebuild after a crash from two topics in any order, own events that arrive late, lost and repeated sends. A capture settles once, no capture is dropped, outcomes are final, unfinished batches finish |
| Recovery consumer (`recovery/consumer/main.py`) | position, committed offsets, records in the producer | take a candidate, register, assess, produce follow-ups, acknowledge, flush; exceptions, signals | kills between any two writes, redelivery, commit on close. No candidate is acted on twice; a fault costs at most the candidate it interrupts |
| Recovery store (`recovery/state/store.py`, `models/contracts.py`) | Redis: state and seen event ids per transaction | `upsert_candidate` (two writes), `apply_recovery_result` | the two writes are not atomic; a new candidate resets the status. Versions name candidates, attempts are never under-counted |
| Coordinator, pipeline (`coordinator/service.py`, `pipeline.py`) | the validator's memory | gather five beliefs in threads, fall back, align, resolve generic support | agents that fail, fallbacks with repeated ids. The action fits the failure |
| Agents (`recovery/agents/`) | the intent store's counters | a vote from a candidate | thresholds at their boundaries; a combination of votes nobody tested |
| Consensus and policy (`consensus/engine.py`, `policy/engine.py`) | seen ids, bad counts, quarantine | validate, aggregate, decide | a rejected belief changes the total weight; at most one action, never without its quorum |
| Executor (`executor/engine.py`) | none | simulate | always succeeds with detection's candidates |
| Detection (`detection/`) | seen events, failure statistics, moving averages, customer store: all in memory | validate, de-duplicate, observe, explain, publish on two topics | forgets at a restart; remembers an event before it publishes it; two sends that are not atomic. Every failure becomes a candidate once per life; blame and degradation rest on what was observed |
| Lifecycle producer (`runner/mock_pipeline.py`) | the guard's last event, successes, attempt and terminal flag | make a lifecycle, have the guard judge all of it, publish it | another attempt may go back, nothing else may. A published lifecycle takes the flow step by step |
| Payment orchestrator (`services/payment/orchestrator.py`) | retries, links | retry, link, completion | a completed link gives a retry back |
| T+2 settlement (`common/settlement.py` 193-391) | batches, captured set | deadline, failure, escalation | used by scripts and tests only |
| Ingestion bridge (`runner/bridge_ingestion.py`, `runner/store.py`) | snapshot, offsets, bounded history | append, write the snapshot, commit; hold back the first write until everything is read | a kill between snapshot and commit. What is committed is on the snapshot, and everything gets there |
| Splunk forwarder (`consumers/main.py`, `detection/publisher/splunk.py`) | offsets | post with retries, commit | a time-out after the event was indexed, a commit while a post is under way. What is committed is in Splunk |
| Dashboard (`dashboard/server.py`) | none: views of the snapshot and of Splunk | rows, queues, trails, overview, trace | records out of order, twice, or with each other's event id. Outcomes stay, no transaction is settled twice or missing |
| Write-ahead log, API, stubs, scripts | output or views | | |

`PROJECT.json` lists every component with its status, and every hazard at the line where it bites with the property that
covers it, or the reason none does yet.

## Modules

| Module | What it is |
| --- | --- |
| `Settlement` | the settlement service, its topics and its environment |
| `SettlementLedger` | what `settlement.events` promises its readers: a ledger of batches, each posted with captured transactions of its own and closed once. `Settlement` implements it (`ImplementsLedger`) |
| `SettlementProofs`, `SettlementLedgerProofs` | theorems about `Settlement`: transactions that settle once; numbers, sizes, outcomes and the refinement of `SettlementLedger` |
| `Recovery` | the recovery consumer, the Redis store, the producer's outbox and a repeating detection service |
| `CaseBook` | what the recovery service promises those who offer candidates and those who read `recovery.acknowledgements`: a case is registered, acted on and answered once at most. `Recovery` implements it (`ImplementsCaseBook`) |
| `RecoveryProofs`, `RecoveryAnswersProofs` | theorems about `Recovery`: executions and attempts; acknowledgements, what a fault costs and the refinement of `CaseBook` |
| `Assessment` | one assessment: the five votes, alignment, validation with its memory, weighted consensus, resolution, policy; over a sequence of candidates and restarts |
| `AssessmentProofs` | theorems about `Assessment` |
| `Lifecycle` | the scenarios of the mock pipeline and the guard `TransactionStateStore`, as operators on scripts |
| `Detection` | the feeds, the topics and the detection service between them; extends `Lifecycle` |
| `CandidateFeed` | what `detection.events` and `recovery.events` promise their readers: records about failures that happened, one per life of the service and topic. `Detection` implements it (`ImplementsFeed`) |
| `DetectionProofs` | theorems about `Detection` and `Lifecycle` |
| `Topics` | the growing topics as their readers see them |
| `Bridge`, `Forwarder` | the two readers of every topic, each with a specification of its own |
| `Dashboard` | the pages, as operators on the list of events on the snapshot |
| `Readers` | the composition: a history of the topics, the bridge, the forwarder, and what the dashboard shows of them |
| `ReadersProofs` | theorems about `Bridge`, `Forwarder`, `Readers` and the pages of `Dashboard` |
| `IntervalInduction` | two lemmas on induction over numbers that the proofs share |
| `MCSettlement`, `MCRecovery`, `MCAssessment`, `MCDetection`, `MCReaders` | the small instances that TLC checks |

`Recovery` and `Assessment` are two views of one service. `Recovery` has the loop and every place where it can be
interrupted, and takes any action the policy's limits on the transaction leave open (`Assess(a)`). `Assessment` has the
decision in full and treats it as one step, which it is for the validator's memory: nothing but this decision touches it.

### Settlement and the code

A log per transaction stands for `capture.events` and a log per batch for `settlement.events`. Kafka orders the events of
one key, and the keys of a partition somehow; independent positions per key admit every order the service can meet.
`pending` and `ahead` are the list `batcher.pending` as its items and the order they stand in, which is all the code reads
of it. `FinishReplay` is the gate of `main.py:180-188`; `StartReadyBatch`, `PublishReady` and `PublishProcessing` are the
three steps of `start_ready_batch`, so a crash can fall between them; `CompleteBatch` is `complete_due_batches` for one
batch; `AbortOnSize` is the `ValueError` of `process_batch`, which nothing catches. Timers may elapse at any time.
`Publish` may lose an event or put it on the topic twice, because `KafkaPublisher.publish` flushes and never looks at the
result.

Not modelled: the write-ahead log; amounts, manifests and incident records, which follow a batch unchanged; separate
retention of the two topics (a capture that outlives its batch's events would be queued again); a rebalance in the middle
of the replay; a feed so fast that the consumer never stands at the end of every partition. An outcome whose event is lost
for good is invisible until the next restart resumes the batch; `UnfinishedBatchesResume` is therefore checked without
lost sends. `retry_batch` is called by tests only.

### Recovery and the code

A candidate is a transaction and the number of its failure. `position` and `committed` follow kafka-python: the iterator
advances past a record before it yields it, commits when it polls again (`Poll`) and when it is closed (`Error`, `Leave`).
`StoreCandidate` and `RememberEvent` are the two writes of `upsert_candidate`; `Assess(a)` ends in
`apply_recovery_result`; `SendFollowups`, `SendAck` and `Flush` are the rest of the loop's body, with the producer's
delivery (`Deliver`, `GiveUp`) running beside it. `Error` is any exception caught by the loop,
behind which `Reconnect` goes on with new clients, or ends when a signal has come; `Crash` is a kill, `Stop` and
`Leave` a signal and what the loop does about it. A follow-up that fails is one more failure, which detection publishes as
one more candidate: the model closes that loop. `executed` is a history variable.

`CaseBook` hides the loop, Redis, the producer and every fault: what is offered is what stands on the topics, registered is
what is in `event_ids`, and answers are the acknowledgements that arrived. A redelivery, a kill or a lost record is a stutter
there; a redelivered candidate that was answered twice would be no step of it.

Not modelled: malformed and invalid records (logged and skipped); the branches of `upsert_candidate` for a candidate with
a successful status, which detection never publishes; the in-memory store and the ttl. `synthetic_verified` is set nowhere
and the executor always reports `SUCCESS`, so the stored status after a result is always `COMPLETED`. Redis is taken as
durable; the Compose file gives it no volume, and its rollback is left to a later extension.

### Assessment and the code

Confidences are thousandths and weights tenths, so the comparison with 0.67 is exact integer arithmetic. `Candidate` has
the fields the five votes and the policy read. `TransactionVote`, `EconomicsVote`, `RiskVote`, `ProviderVote` are the
scoring functions; the intent agent's vote is any vote its scoring can return, or the local fallback's with any confidence
of the local store. `Answers` picks which of the five agents raise an exception and are missing (`service.py:98-104`), and which of the two
remote ones are replaced by their fallbacks. `Align` is the checkout override,
`Decided` and `Resolved` the aggregation with and without generic support, `Authorized` the policy. `seen`, `bad` and
`quarantined` are the validator. Only fallback beliefs have ids that repeat, because they name the agent and the version
but not the transaction; the others end in a uuid.

Left out: the checks that no belief of the code can fail (unknown agent, stale version, malformed evidence), the kill
switch (off in the only configuration built), the provider allowlist (every alternative gateway is on it). The tie-break
between two actions that both have a quorum is unreachable, which `OneQuorum` in `AssessmentProofs` proves. The risk
agent's alarms come from no producer in the repository; they are kept because its tests keep them.

Things to know about the decision: the comment of `service.py:111-112` calls provider and risk "independent vetoes".
`RiskVetoesLinks` shows it for a risk agent that has voted; one that raised an exception has no veto. The provider agent's `DO_NOTHING` is no veto: the other four can outvote it, and do
when they all support the link and the intent agent's confidence is at least 0.61 (fewer than four, when some are missing). `README.md:119` says as much of single votes. A local intent vote for a link keeps its low
confidence while a local `DO_NOTHING` is raised to 0.75, so a customer's favourable intent can count for less than an
unfavourable one.

### Detection, its feeds, and the code

An event is named by its transaction and its number there, and is a `SourceEvent`: the producers give every event a status,
success or failure. `DraftAssumption` says what is known of any draft: another attempt gets its number only after a failure
(`mock_pipeline.py:177-181`). `RunOnce` is `run_once`: a draft the guard rejects ends the feed
before anything is published, so only drafts that pass as a whole (`Validated`) are published at all. They are published
in one step, because the service may lag behind its topics by any amount and is never known to be at their end; `Fates`
loses an event or puts it there twice, as a producer whose futures nobody reads may. `Reattempt` appends what the recovery
service publishes for a candidate, which no guard sees. `Valid` is `ingestion_event_validation_error`: among others it
rejects the clicked payment link, a success that is neither a start nor a completion.

`Yields`, `Skip`, `Observe` and `Detect` are one turn of the consumer's loop: the iterator advances the position, the
early returns of `process_event`, an event that is learned from, a failure that becomes a record. `Poll` commits what was
yielded and can fall only between records. `SendDetection`, `SendCandidate` and `Flush` are the three lines of
`DetectionKafkaPublisher.publish`, with the producer's thread (`Deliver`, `GiveUp`) beside them. `Raise` is an exception of
`publish`, which nothing catches; whether the client library commits positions while the process unwinds is left open,
and `excused` remembers the records that this costs, and those a producer gave up. `Crash` is a kill. All three of
`SEEN_SOURCE_EVENTS`, the statistics and the averages start anew. Averages are millionths (`One`, of `Unit`s), and the blame's confidence is
compared in whole numbers.

Things to know about it: the average starts with its first metric, so a provider whose first event at a stage fails is
reported as degraded at once, and so is any provider after a restart of the service. `run.md:151-152` says "A `failure` line is
terminal; the producer must not print any later lifecycle event for that transaction"; the scenario `recovery_retry` goes on
after one with another attempt, which the guard allows from any step that had succeeded (finding `lifecycle_terminal`). A
`checkout_started` has no required predecessor, so a lifecycle may start over at any point that is not a failure, also after
its capture; the draft `StartsOver` of the runs does so and is published. `LifecycleCausal` says what the guard does ensure: no step of the flow is left out
or changes the payment, and only another attempt after a failure goes back to a step that was reached. The scenario `settlement_failure` has no branch of its own and is a
normal lifecycle.

Not modelled: the customer intent scores and the regression, which a record carries and nothing here decides by; other
payment methods than UPI; two events with one id (twelve digits of a uuid); `MOCK_TRANSACTION_ID`, which gives every
lifecycle the same transaction.

### The readers, the dashboard, and the code

A record is its partition and its number there, as on the snapshot (`_partition`, `_offset`). A partition of the model has
the records of one key on one topic, so that readers meet keys in any order. `StartBridge` is `main` up to its loop:
the old snapshot, trimmed, written back. `Append1` appends one record of a poll; `EndPoll`, `WriteSnapshot` and `Commit`
are the write and the commit behind it; `PollOn` and `CompleteReplay` the first replay of a bridge that starts with
nothing, which writes only once it stands at the end of every partition. `write_json` replaces the file in one step, so a
kill leaves the old snapshot or the new one. The forwarder's `Poll`, `Yield`, `Accepted`, `Refused` and `Raised` are the
iterator and the attempts of `emit`; a post that is not answered in time may have been indexed.

`Dashboard` has no state. Its operators fold the events as `server.py` does: dictionaries in which the last record of a key
stays (`Latest`) at the place of the first (`KeysInOrder`); a list of events is a function on places, so that one with records left
out keeps the places of the others, the loop of `_settlement_rows` with its two exceptions
(`Late`, `SettledAgain`), pages of captures that no batch names, the trail behind every row. Every transaction has the
amount 1, so that sums of money count transactions. `Readers` runs one history of the topics with one or both readers. Each behaves there as
its own specification allows (`RunsBridge`, `RunsForwarder`), so what is proved of `BridgeSpec` and `ForwarderSpec` holds in
`Readers`; to this end a reader's own specification lets the other process be killed too (`Kill`). `ScenariosAssumption` says
of a history what `Settlement` makes true: all events of a batch name the same transactions, at least one.

Things to know about the pages: until a batch has its outcome, its row may go back from PROCESSING to READY after a kill
of the bridge; a batch that is left out as settled again keeps the status of its ready or processing event for good; the
transactions of an outcome that is left out count as assigned (`server.py:229`) although it makes no row, so a capture can be
on no row at all when an overlapping batch was never announced on the same partition: `EveryCaptureShown` is a property of
histories in which the outcome of an overlapping batch follows an announcement (`OverlapsAnnounced`); two different
acknowledgements of one candidate, or detections of one failure on two topics, show whichever came last, and a repeat of the
first brings it back: `RepeatsAreInvisible` is a property of histories in which such records agree (`Unambiguous`). What counts
or lists the records themselves does show repeats: the `event_rate` of the overview (`server.py:579`), which `Overview` has
and `Figures` leaves out for this property, the lists of the last events and the audit (`server.py:118`, `129-130`, `583-601`),
and the statistics of the providers, which also count detections and candidates as further attempts. The intent page reads
`customer_intent.json` (`server.py:102`), which no process writes. An event that Splunk rejects ends the forwarder
(`splunk.py:114-116`), in every later life again unless it was committed while the process unwound. With a limit, records
leave the snapshot and the pages with them: `CommittedOnSnapshot` exempts a full snapshot, and the properties of the pages are stated for deployments without one, as in the
Compose file.

Not modelled: `INGESTION_STORE_LIMIT=0` (a deque that keeps nothing); records that are no dictionaries; the merchant's
list and the audit list; the searches in Splunk, but for the join of a trace; the HTTP handlers.

## Runs

| Run | Instance | What it shows |
| --- | --- | --- |
| `settlement_safety` | 4 transactions, batches of 1 or 2, the size changed once, 2 crashes, 1 send fault | `NoDoubleSettlement`, `UniqueBatchIndex`, `BatchesAreExact`, `NoCaptureLost`, `MemoryCoversTopic`, `SettledOnce`, `OutcomeSticks`, `ImplementsLedger`, also when a batch outlives the size it was made under; under another size nothing more of it is published |
| `settlement_liveness` | 2 transactions, batches of 1, 1 crash | every batch gets its outcome, the backlog drains |
| `settlement_resize_stuck` | 3 transactions, batch size changed once | violation: an unfinished batch of another size stops every later life of the service |
| `recovery_safety` | 1 transaction, 2 failures of its own and up to 2 from follow-ups, 1 repeated candidate, 1 kill, 1 exception | `ExecutedOnce`, `AttemptsCounted`, `AckTellsCaptures`; `Recovery` implements `CaseBook` (`ImplementsCaseBook`) |
| `recovery_partitions` | 2 transactions, one of which pays and one fails again by its link, one each of a kill, an exception, a signal, a lost send | `SkippedBound`, `UnansweredBound`: a fault costs at most the candidate it interrupts; `CandidatesRegistered`, `CandidatesAnswered`: registered in spite of kills, acknowledged when nothing fails |
| `recovery_blind` | 1 transaction, no faults | violation: a second failure of a transaction that recovery has captured is acted on again |
| `assessment_safety` | 2 transactions, 2 candidates each of 11 kinds, attempt limit 1, 1 restart, any agents missing | `LoneTransactionKeepsVotes`, `AuthorizedMeansSupported`, `ActionFitsFailure`, `RiskVetoesLinks` |
| `assessment_opens` | the same candidates, no restart | violation: a rejected fallback belief opens an action it kept closed |
| `detection` | 2 transactions, 2 providers, scenarios and altered ones, one fault of any kind | `CommittedIsPublished`, `BlameIsSupported`, `DegradationIsObserved`, `LifecycleCausal`, `ImplementsFeed`, `EveryFailureBecomesCandidate` |
| `lifecycle_terminal` | the same instance | violation: `recovery_retry` passes the guard and goes on after its failure |
| `views` | three histories of up to 5 records on 7 partitions, polls of 2, no limit or 2, 1 kill, 2 failed posts | `CommittedOnSnapshot`, `CommittedIsIndexed`, `EveryRecordIsShown`, `OutcomeShownIsFinal`, `SettledRowsDisjoint`, `EveryCaptureShown`, `RepeatsAreInvisible` |
| `trace` | the history of a recovery, both readers, no faults | violation: a trace shows the detection or the acknowledgement in the place of the event that failed |

Each of the five violations is a disagreement between a statement of the repository and its code; `PROJECT.json` quotes
the statement under "findings".

**Why the bounds are enough.** Two batches are needed for a double settlement or a reused number, and two lives to rebuild
either from the topic; `settlement_safety` has three lives, two full batches, and a size that may change between them, so
a batch of one size can be unfinished under another. That a capture event is repeated is left to `settlement_liveness` and
the theorems. One send fault of either kind is enough to
leave a batch half announced, and a crash may fall anywhere beside it. In `recovery_safety` a transaction reaches its
attempt limit with failures to spare, and the repeated candidate can come after any other. Faults in `recovery_partitions`
are one of each kind, so that their effects can add up; the bound counts them. `assessment_safety` enumerates every vote
each agent can give and every set of missing agents; two candidates of two transactions are what it takes for a belief id to
repeat and for an agent to be quarantined by a second repeat. Its eleven candidates have every stage, the fault of a sound and
of a degraded provider or none, and at checkout a failure with and without reason for a link, refused by the risk agent or not.
Amounts lie on both sides of the economics agent's break-even (`55` is above the
attempt's cost, but 0.85 of it is not); `above_median` varies at checkout only and `degradation` only with a provider
fault, because nothing reads them elsewhere. Amounts above the limit are left to the proofs, which take any amount.
In `detection` a scenario that fails and its follow-up are five events: two failures of two gateways, beside another
transaction's, which is what blame needs; the scenario with a second attempt is longer and runs alone and undisturbed
(`MaxTotal`). One fault may be of any kind and fall at any step; two lives are what it takes to forget. The altered drafts
leave out, repeat or exchange one event of a scenario each, or start a normal one over after its capture. In `views` polls of two let a kill fall within, between and
after polls; a page of one capture is full with one, a trail of one transaction leaves one of a batch of two out, and a limit of
two pushes records out. Each history is about one hazard (an outcome among late events, overlapping batches, one event id
on four topics); in `views` one reader runs at a time, because they share nothing but the topics, and in `trace` both.
Transactions and batch ids are symmetric where no constant tells them apart, and symmetry is used in no run with a
liveness property.

**Fairness.** `Settlement!Fairness`, `Recovery!Fairness`, `Detection!Fairness` and `Readers!Fairness` are weak fairness of the services' own steps, partition by
partition: the loops never block for good, every timer is compared with a clock, the consumer polls every partition, the
producer's thread delivers, and `restart: unless-stopped` in the Compose file starts a stopped container. Nothing the
environment may do (captures, failures, kills, lost sends, signals) is ever owed, and a service is not owed a look at a
record when it is not running.

**Deadlock.** The bounds on the environment let a behaviour end when everything is handled, so deadlock is not an error in
any of these runs; that handling does not stop early is what the liveness runs check.

**Mutants.** Every property of a passing run has a mutant of the code that breaks it: a dropped guard, a swapped list, a
missing reset. The operators marked "Mutant" in the modules are these forms; nothing else uses them.

## Proofs

Everything in `SettlementProofs`, `SettlementLedgerProofs`, `RecoveryProofs`, `RecoveryAnswersProofs`, `AssessmentProofs`,
`DetectionProofs`, `ReadersProofs` and `IntervalInduction` is checked by TLAPS to the last leaf, from the named assumptions of
the modules alone: sets of batch sizes are non-empty sets of positive numbers, the outcome pattern is a non-empty sequence,
candidates are candidates, confidences lie between 0 and 1, bounds are naturals, drafts and histories are what the
two sections above say. Of the sets only that of the gateways is taken to be finite: blame sums and compares their failures.

*Settlement.* `NoDoubleSettlement` is not inductive: that a new batch is apart from those on the topic follows only if the
process knows all of them. `IInv` adds what the replay establishes: each event read is reflected in memory; memory, topic
and the batch being announced agree on a batch's transactions; queue and known batches are apart, known batches among
themselves; once the replay is complete nothing on the topic is unknown. `Inductive` proves `IInv`, and
`NoDoubleSettlementHolds` and `TypeCorrect` follow.

*The ledger.* Every step of the service is of one of five kinds as far as batches are concerned: it forgets, makes a batch,
publishes an event of one, reads one, or leaves them alone (`StepKinds`, one lemma for all that follows). `LedgerInv` stands on
`IInv` and has five parts, each proved per kind. `Numbered`: the counter is at least every number in memory, and the replay
has read all there are, so the next number is new. `Exact`: the queue holds final captures only. `Sized`: the batch being
announced has the size in force, because the process that makes it ends before the size changes, and an unfinished one of
another size ends the process (`AbortOnSize`). `Kept`: what was read is kept, and nothing is read beyond a log. `Outcomes`: once the replay is
complete the memory has every outcome of the topic, and what is still announced or under way has none; so an event that follows an outcome could
only come from a batch the service takes for unfinished, and there is none. `ImplementsLedgerHolds` adds that each
publication opens a batch, closes one, or changes nothing that the ledger shows.

*Recovery.* `ExecutedOnce` rests on the order of the writes. `IInv` adds that an executed candidate is in `event_ids`, that
the one in hand is not there before its second write and not executed between that write and its follow-ups, and that the
attempt of an assessment is counted before its follow-ups leave (`CountedAhead`). Steps that touch none of this share
`QuietStep`; the five that do have a lemma each.

*Acknowledgements.* A record counts from the moment the producer has accepted it, so that what is delivered, given up or lost
in a kill only takes from the sets the invariant speaks of. `AcksNameCandidates` says that the latest version belongs to the
last candidate stored, hence a new one to no other. `AcksTellCaptures` says that captures come from executions, and that
the acknowledgement about to be written will not deny one. For the two bounds the candidate in hand is the exception: it may be
unregistered or unanswered while the service works at it, and a fault is what makes that last. `SkippedCounted` and
`UnansweredCounted` say that all others are charged to a fault; a step adds at most one element to the sets they count, and
only together with a counter. They need that offsets stay within the logs and that the producer holds the
acknowledgements of one candidate at most (`OneAckInOutbox`).

*The case book.* The answer is written, flushed and delivered in steps of their own, with kills and follow-ups in between, so
that a delivery is an `Answer` of `CaseBook` rests on what is still in the outbox. `BookInv` has three parts.
`HandledIsOffered`: what is registered or in hand stands on the topics. `RecoveredIsActed`: an answer that reports a recovery
belongs to a candidate that was acted on. `AnswersAhead`: the outbox holds one acknowledgement at most, of a candidate that
has none on the topic, later in version than all that are there. A candidate is not acted on after its answer because the
answer of one in hand is written after its follow-ups and a registered one is never taken up again. Then `Detect` maps to
`Offer`, `RememberEvent` to `Register`, `SendFollowups` to `Act` (or a stutter, when no action was authorized), `Deliver` to
`Capture`, `Answer` or a stutter, and every other step to a stutter.

*Assessment.* `IInv` says what a ballot is: the votes of the code on the current candidate and the action the policy makes
of them, whichever agents are missing. It also says what the validator remembers: every id is of a version some transaction has
reached and is done with (`Used`), so a duplicate, and with it a quarantine, means that two transactions have come (`TwoCame`),
which is `LoneTransactionKeepsVotes`. The others are arithmetic over five weights. `OneQuorum`: two recommendations of 0.67 each would exceed the whole.
`AuthorizedSupported`: the three ways to an authorized action (direct support, direct and generic support, generic support
turned concrete) each leave 0.67 behind it. `RiskOutweighs`: with risk against it, a link at checkout has at most 29.06 of
the 30.15 it needs, or less with agents missing, and another action at most 20.92 of 23.45; no confidence the agents can give
changes that. `QuorumFits`: an action that does not fit the failed stage can be named by the intent agent only, which is 10,
and any quorum has at least 0.67 of 20 (`QuorumWeighs`). The theorems hold for any candidates, amounts, attempt limits, numbers of transactions and restarts.

*Detection.* `CommittedIsPublished` is about two sends that are not atomic, and about a memory that is written before them.
`ReadHandled` and `SeenHandled` say that each failure read, and each remembered, has its record on a topic, or was excused, or is the one in hand with
that send still ahead (`Handled`, `Owed`); `CommittedSettled` says that what is committed is past that. `Blaming` says that the statistics count failures that were
seen, that two different ones stand behind a count of two, and that they reach the record that blames. `DegradationIsObserved` needs to know
how low an average can be: after `n` events without a failure it is 1, and `Floor` gives the least value after one or two
failures for every `n`; the proof is that one more event never goes below it, with integer division as in the model.
`ImplementsFeedHolds` adds `HeardBounded`: a record is on its topic at most once for each kill, exception and copy, and once
more in the present life; `CandidateFeed` may fail any number of transactions in one step, because one lifecycle may hold several. `LifecycleCausalHolds` is an induction over
the events of a lifecycle: what the guard remembers at an event (last success, attempt, terminal flag) is what the events
before it imply, and each accepted event then has its predecessor in the flow.

*Readers.* That committed records are on the snapshot is not inductive, because what the bridge commits is its position and
what it writes is its history. `BridgeInv` adds that a running bridge has every record before its position in its history,
or a history that is full; that its position is never behind what is committed; that before a commit history and snapshot
are the same; and that neither passes the limit. The limit is the hard case: a record that leaves the deque leaves it full, and trimming a full
sequence leaves it full (the lemmas on `Trim`). `ForwarderInv` adds that every record before the position is
indexed or excused, but the one in hand.
These theorems are of the readers' own specifications, whose topics anybody may extend at any time; the composition has them by
`RunsBridge` and `RunsForwarder`.

*The settlement page.* It is a fold over the events on the snapshot, for lists of any length and order. `PartRun` and `BatchesRun` turn
the fold into the sequence of its intermediate states, and an induction along it shows that no two rows share a settled
transaction (`Apart`, from which `SettledRowsDisjointHolds`) and that a row with an outcome is never touched again
(`OutcomesKept`). For `OutcomeShownIsFinal` the snapshot itself must only grow: `ViewInv` says that a running bridge without a limit
continues its snapshot, that records read exist, and that a record that exists has its place in the history and keeps it.
`EveryCaptureShown` has two halves. A capture that no batch event names is pending exactly once (`AscendingLists`: the
places of first captures, in increasing order, without repeats) and a page of the pending list is found by division (`PartOfSequence`,
`CollectedOnce`). A capture that some event names must be on a row (`AssignedIsOnRows`): the induction along the fold carries
that a batch with an event that was taken has a row with its transactions (`Noted`), and that settled transactions are backed by
a row of an outcome (`Backed`). It is false for an outcome that is left out before its batch has a row. Such an outcome overlaps
another batch, so the history has an announcement before it on its partition, and the snapshot keeps the order within a
partition, with repeats (`Ordered`, an invariant of the composition: a record's first copy comes after the first copies of the
records before it; hence `SnapshotAnnounced`).

*Repeats.* A list `F` thins `E` when it has the events of `E` at their places and, of each event, the first copy at least (`Thinned`;
`FirstCopiesThin`). The two folds run side by side, the one over `F` standing still where `F` has no event: their states stay
`Alike`, with the same assigned and settled transactions and the same rows with an outcome (`TakeAlike` for an event that both
take, `RepeatAlike` for one that was taken before). The other views are dictionaries: with repeats left out they have the same
keys, and the events at a key have it in common (`DictThinned`), so the records that `Unambiguous` makes agree give equal rows; what keeps its
order keeps it because first places are places of first copies (`FirstOfKeys`).

Induction over data is done without an operator as a parameter: `LeastNat` and `UpTo` of `IntervalInduction` take the set of
the numbers that have a property, and a fold is reasoned about as the sequence of its states.

| Theorem | Property |
| --- | --- |
| `TypeCorrect` in `SettlementProofs`, `RecoveryProofs`, `AssessmentProofs`, `DetectionProofs`, `ReadersProofs` | `TypeOK` |
| `SettlementProofs!NoDoubleSettlementHolds` | `NoDoubleSettlement` |
| `SettlementLedgerProofs!UniqueBatchIndexHolds` | `UniqueBatchIndex` |
| `SettlementLedgerProofs!BatchesAreExactHolds` | `BatchesAreExact` (action property) |
| `SettlementLedgerProofs!NoCaptureLostHolds` | `NoCaptureLost` |
| `SettlementLedgerProofs!MemoryCoversTopicHolds` | `MemoryCoversTopic` |
| `SettlementLedgerProofs!SettledOnceHolds` | `SettledOnce` (action property) |
| `SettlementLedgerProofs!OutcomeSticksHolds` | `OutcomeSticks` (action property) |
| `SettlementLedgerProofs!ImplementsLedgerHolds` | `ImplementsLedger` (refinement) |
| `RecoveryProofs!ExecutedOnceHolds` | `ExecutedOnce` |
| `RecoveryProofs!AttemptsCountedHolds` | `AttemptsCounted` |
| `RecoveryAnswersProofs!VersionNamesCandidateHolds` | `VersionNamesCandidate` (TLC checks it as part of `ImplementsCaseBook`: answers of a transaction grow in version) |
| `RecoveryAnswersProofs!AckTellsCapturesHolds` | `AckTellsCaptures` |
| `RecoveryAnswersProofs!SkippedBoundHolds` | `SkippedBound` |
| `RecoveryAnswersProofs!UnansweredBoundHolds` | `UnansweredBound` |
| `RecoveryAnswersProofs!ImplementsCaseBookHolds` | `ImplementsCaseBook` (refinement) |
| `AssessmentProofs!LoneTransactionKeepsVotesHolds` | `LoneTransactionKeepsVotes` |
| `AssessmentProofs!AuthorizedMeansSupportedHolds` | `AuthorizedMeansSupported` |
| `AssessmentProofs!ActionFitsFailureHolds` | `ActionFitsFailure` |
| `AssessmentProofs!RiskVetoesLinksHolds` | `RiskVetoesLinks` |
| `DetectionProofs!CommittedIsPublishedHolds` | `CommittedIsPublished` |
| `DetectionProofs!BlameIsSupportedHolds` | `BlameIsSupported` |
| `DetectionProofs!DegradationIsObservedHolds` | `DegradationIsObserved` |
| `DetectionProofs!LifecycleCausalHolds` | `LifecycleCausal` |
| `DetectionProofs!ImplementsFeedHolds` | `ImplementsFeed` (refinement) |
| `ReadersProofs!BridgeTypeCorrect`, `ForwarderTypeCorrect` | `BridgeTypeOK`, `ForwarderTypeOK` |
| `ReadersProofs!RunsBridge`, `RunsForwarder` | `Spec => BridgeSpec`, `Spec => ForwarderSpec` |
| `ReadersProofs!CommittedShown`, `CommittedOnSnapshotHolds` | `CommittedOnSnapshot` (of the bridge, of `Readers`) |
| `ReadersProofs!CommittedForwarded`, `CommittedIsIndexedHolds` | `CommittedIsIndexed` (of the forwarder, of `Readers`) |
| `ReadersProofs!SettledRowsDisjointHolds` | `SettledRowsDisjoint` |
| `ReadersProofs!OutcomeShownIsFinalHolds` | `OutcomeShownIsFinal` (action property) |
| `ReadersProofs!EveryCaptureShownHolds` | `EveryCaptureShown` |
| `ReadersProofs!RepeatsAreInvisibleHolds` | `RepeatsAreInvisible` |

*Model-checked only.* Liveness under fairness and anything about `ENABLED` are outside the prover's reach: the liveness
properties (`UnfinishedBatchesResume`, `BacklogDrains`, `CandidatesRegistered`, `CandidatesAnswered`, `EveryFailureBecomesCandidate`, `EveryRecordIsShown`) stay
with TLC. Every invariant and every action property that a passing run checks is proved.
The five violations are counterexamples and TLC's alone.

## Plan

In this order, the most important behaviour first:

1. The composition of detection and recovery, with `Detect` of `Recovery` replaced by the actions of `Detection`.
2. `Settlement` extended with separate retention of the two topics; `Recovery` with a rollback of Redis.
3. The payment orchestrator and its count of retries against links; the T+2 settlement model. Scripts and tests alone use them.

## Not modelled

The logistic regression, the intent scores and the weights of the causal graph are numeric code whose results enter the
models as inputs or decide nothing. The write-ahead log is written and never read by the program. The recovery API and the
remaining pages of the dashboard are views without state; the protobuf files are generated; stubs, demos, seeds and scripts
have no state. What each modelled component leaves out is listed with it above and in `PROJECT.json`.
