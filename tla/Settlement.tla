----------------------------- MODULE Settlement -----------------------------
(***************************************************************************)
(* The settlement service: services/settlement/main.py and the             *)
(* SettlementBatcher of common/settlement.py.  One process consumes        *)
(* capture.events and settlement.events, queues captured transactions,     *)
(* closes them into batches of exactly batch_size, and publishes each      *)
(* batch's ready, processing and succeeded/failed events to                *)
(* settlement.events, which it consumes again itself.  Its queue and its   *)
(* batches are only in memory: a restart rewinds both topics to their      *)
(* beginning and rebuilds them (main.py:159-163).                          *)
(*                                                                         *)
(* Kafka orders the events of one key only, and the keys of one partition  *)
(* in any order: a log per transaction (capture.events) and a log per      *)
(* batch (settlement.events), each with a read position of its own, admit  *)
(* every order in which the service can meet the partitions' records.      *)
(* Timers (replay grace, batch interval, processing delay) may elapse at   *)
(* any moment, so each step they release may be taken whenever its other   *)
(* conditions hold.                                                        *)
(***************************************************************************)
EXTENDS Integers, Sequences, FiniteSets

CONSTANTS
    Tx,                \* transaction ids
    Uid,               \* the uuid suffixes that make batch ids unique
    BatchSizes,        \* values SETTLEMENT_BATCH_SIZE may be given
    OutcomePattern,    \* SETTLEMENT_OUTCOME_PATTERN, split at its commas
    LuckyIndices,      \* batch indices whose digest modulo 100 is at least 20
    MaxCaptureEvents,  \* bound: capture events per transaction
    MaxCrashes,        \* bound: process crashes
    MaxSendFaults,     \* bound: publications lost or duplicated
    MaxReconfigs       \* bound: changes of SETTLEMENT_BATCH_SIZE

ASSUME SizesAssumption ==
    /\ BatchSizes \subseteq Nat \ {0}
    /\ BatchSizes # {}
ASSUME PatternAssumption ==
    /\ OutcomePattern \in Seq({"success", "failed", "random"})
    /\ Len(OutcomePattern) > 0
ASSUME BoundsAssumption ==
    {MaxCaptureEvents, MaxCrashes, MaxSendFaults, MaxReconfigs} \subseteq Nat

VARIABLES
    \* The topics: what survives the process.
    captureLog,        \* capture.events, per transaction
    batchLog,          \* settlement.events, per batch
    \* The process: lost when it stops.
    pc,                \* where the loop of main stands; "down" when not running
    capturePos,        \* consumer.position on capture.events
    batchPos,          \* consumer.position on settlement.events
    startup_replay_complete,
    pending,           \* batcher.pending: the queued transactions
    ahead,             \* batcher.pending: <<a, b>> when a stands before b
    batches,           \* batcher.batches
    sequence,          \* batcher.sequence
    starting,          \* the batch start_ready_batch is publishing, if any
    in_flight,         \* the batches whose processing delay is running
    \* The environment.
    batch_size,        \* SETTLEMENT_BATCH_SIZE
    crashes, sendFaults, reconfigs

topics    == <<captureLog, batchLog>>
positions == <<capturePos, batchPos>>
batcher   == <<pending, ahead, batches, sequence>>
env       == <<batch_size, crashes, sendFaults, reconfigs>>
vars      == <<captureLog, batchLog, pc, capturePos, batchPos,
               startup_replay_complete, pending, ahead, batches, sequence,
               starting, in_flight, batch_size, crashes, sendFaults, reconfigs>>

Terminal     == {"succeeded", "failed"}
Unfinished   == {"ready", "processing"}
CaptureKinds == {"capture_succeeded", "capture_failed"}

\* A batch: the number in its id, its transactions, its status.  Amounts,
\* manifest and timestamps follow the transactions unchanged.
Batch   == [seq : Nat, txs : SUBSET Tx,
            status : Unfinished \cup Terminal \cup {"absent"}]
NoBatch == [seq |-> 0, txs |-> {}, status |-> "absent"]

Known(u)   == batches[u].status # "absent"
KnownTxs   == UNION {batches[u].txs : u \in Uid}

\* Mutant: the reader takes the event's "status", not its "batch_status".
StatusField(b) ==
    [seq |-> b.seq, txs |-> b.txs,
     status |-> IF b.status \in Terminal THEN b.status ELSE "unknown"]
\* The event a batch publishes carries its id, its transactions and its status.
settlement_event(b) == [seq |-> b.seq, txs |-> b.txs, status |-> b.status]

-----------------------------------------------------------------------------
(* batcher.pending is a list.  It is kept as its items and the order in which *)
(* they stand, which is all that the code reads of it.                        *)

OrderOf(S)  == ahead \cap (S \X S)
FirstOf(S)  == \A a \in S, b \in pending \ S : <<a, b>> \in ahead

\* Mutant: the slice that is left starts one item too late.
KeepOneLess(S) ==
    LET rest == pending \ S
    IN  {t \in rest : \E r \in rest : <<r, t>> \in ahead}
\* The queue once the transactions of a batch have left it.
Remaining(S) == pending \ S

\* Mutants: the duplicate test looks only at the queue; any capture event counts.
OnlyQueueIsChecked(t, kind) == kind = "capture_succeeded" /\ t \notin pending
AnyCaptureEvent(t, kind)    == t \notin pending /\ t \notin KnownTxs
\* enqueue_capture queues a successful capture that is neither queued nor in a
\* known batch.
Accepts(t, kind) ==
    /\ kind = "capture_succeeded"
    /\ t \notin pending
    /\ t \notin KnownTxs

\* Mutant: a short batch is closed as soon as anything waits.
AnythingWaits(S) == S # {} /\ S \subseteq pending /\ FirstOf(S)
\* Mutant: a full batch waits for one capture more.
WaitsForOneMore(S) ==
    /\ S \subseteq pending
    /\ Cardinality(S) = batch_size
    /\ S # pending
    /\ FirstOf(S)
\* create_batch takes exactly the first batch_size items.
NextItems(S) ==
    /\ S \subseteq pending
    /\ Cardinality(S) = batch_size
    /\ FirstOf(S)

\* Mutant: the replayed batches do not advance the sequence.
SequenceKept(n) == sequence
SequenceAfter(n) == IF n > sequence THEN n ELSE sequence

\* Mutant: any event replaces the batch in memory.
AlwaysReplaces(u, e) == TRUE
\* A finished batch is not replaced by an unfinished one.
Replaces(u, e) == ~ (batches[u].status \in Terminal /\ e.status \notin Terminal)

outcome_for_index(i) ==
    LET last       == Len(OutcomePattern)
        configured == OutcomePattern[IF i < last THEN i ELSE last]
    IN  CASE configured = "random" -> IF i \in LuckyIndices THEN "succeeded" ELSE "failed"
          [] configured = "success" -> "succeeded"
          [] OTHER -> "failed"

\* Mutants: the gate is open from the start, or watches capture.events alone.
NeverWaits == TRUE
CapturesRead == \A t \in Tx : capturePos[t] = Len(captureLog[t])
replay_caught_up ==
    /\ \A t \in Tx : capturePos[t] = Len(captureLog[t])
    /\ \A u \in Uid : batchPos[u] = Len(batchLog[u])

\* Mutants: every known batch is resumed; none is.
AllKnown == {u \in Uid : Known(u)}
NoneResumed == {}
Resumable == {u \in Uid : batches[u].status \in Unfinished}

-----------------------------------------------------------------------------
Init ==
    /\ captureLog = [t \in Tx |-> <<>>]
    /\ batchLog = [u \in Uid |-> <<>>]
    /\ pc = "down"
    /\ capturePos = [t \in Tx |-> 0]
    /\ batchPos = [u \in Uid |-> 0]
    /\ startup_replay_complete = FALSE
    /\ pending = {}
    /\ ahead = {}
    /\ batches = [u \in Uid |-> NoBatch]
    /\ sequence = 0
    /\ starting = {}
    /\ in_flight = {}
    /\ batch_size \in BatchSizes
    /\ crashes = 0
    /\ sendFaults = 0
    /\ reconfigs = 0

\* A producer or the recovery service publishes a capture outcome of t, for the
\* first time or again.
Capture(t, kind) ==
    /\ Len(captureLog[t]) < MaxCaptureEvents
    /\ captureLog' = [captureLog EXCEPT ![t] = Append(@, kind)]
    /\ UNCHANGED <<batchLog, pc, positions, startup_replay_complete, batcher,
                   starting, in_flight, env>>

\* The container is started again: the positions are those of
\* seek_to_beginning, the batcher is a new one.
Restart ==
    /\ pc = "down"
    /\ pc' = "poll"
    /\ UNCHANGED <<topics, positions, startup_replay_complete, batcher,
                   starting, in_flight, env>>

\* handle_message, for a record of capture.events.
HandleCapture(t) ==
    /\ pc = "poll"
    /\ capturePos[t] < Len(captureLog[t])
    /\ capturePos' = [capturePos EXCEPT ![t] = @ + 1]
    /\ IF Accepts(t, captureLog[t][capturePos[t] + 1])
       THEN /\ pending' = pending \cup {t}
            /\ ahead' = ahead \cup (pending \X {t})
       ELSE UNCHANGED <<pending, ahead>>
    /\ UNCHANGED <<topics, pc, batchPos, startup_replay_complete, batches,
                   sequence, starting, in_flight, env>>

\* handle_message, for a record of settlement.events, the service's own or one
\* of an earlier life: reconcile_settlement_event.
ReconcileSettlementEvent(u) ==
    /\ pc = "poll"
    /\ batchPos[u] < Len(batchLog[u])
    /\ batchPos' = [batchPos EXCEPT ![u] = @ + 1]
    /\ LET e == batchLog[u][batchPos[u] + 1]
       IN  /\ sequence' = SequenceAfter(e.seq)
           /\ pending' = Remaining(e.txs)
           /\ ahead' = OrderOf(pending')
           /\ batches' = IF Replaces(u, e) THEN [batches EXCEPT ![u] = e] ELSE batches
    /\ UNCHANGED <<topics, pc, capturePos, startup_replay_complete, starting,
                   in_flight, env>>

\* The grace period is over and the consumer stands at the end of every
\* partition: batches may be made, and the unfinished ones are resumed.
FinishReplay ==
    /\ pc = "poll"
    /\ ~ startup_replay_complete
    /\ replay_caught_up
    /\ startup_replay_complete' = TRUE
    /\ in_flight' = Resumable
    /\ UNCHANGED <<topics, pc, positions, batcher, starting, env>>

\* KafkaPublisher.publish: send and flush, without a look at the result.  A send
\* that fails for good leaves nothing on the topic; one whose acknowledgement is
\* lost is repeated and leaves the event twice.
Publish(u, b) ==
    \E copies \in 0..2 :
        /\ copies # 1 => sendFaults < MaxSendFaults
        /\ sendFaults' = IF copies = 1 THEN sendFaults ELSE sendFaults + 1
        /\ batchLog' = [batchLog EXCEPT ![u] = @ \o [i \in 1..copies |-> settlement_event(b)]]

\* start_ready_batch, up to its first publication: create_batch.  The id's
\* uuid is one no other batch carries.
StartReadyBatch(u) ==
    /\ pc = "poll"
    /\ startup_replay_complete
    /\ ~ Known(u) /\ batchLog[u] = <<>>
    /\ \E S \in SUBSET pending :
        /\ NextItems(S)
        /\ sequence' = sequence + 1
        /\ pending' = Remaining(S)
        /\ ahead' = OrderOf(pending')
        /\ batches' = [batches EXCEPT ![u] =
                           [seq |-> sequence + 1, txs |-> S, status |-> "ready"]]
    /\ starting' = {u}
    /\ pc' = "ready"
    /\ UNCHANGED <<topics, positions, startup_replay_complete, in_flight, env>>

\* start_ready_batch: publish the ready event, then set the status.
PublishReady(u) ==
    /\ pc = "ready"
    /\ u \in starting
    /\ Publish(u, batches[u])
    /\ batches' = [batches EXCEPT ![u].status = "processing"]
    /\ pc' = "processing"
    /\ UNCHANGED <<captureLog, positions, startup_replay_complete, pending, ahead,
                   sequence, starting, in_flight, batch_size, crashes, reconfigs>>

\* start_ready_batch: publish the processing event, then start the delay.
PublishProcessing(u) ==
    /\ pc = "processing"
    /\ u \in starting
    /\ Publish(u, batches[u])
    /\ in_flight' = in_flight \cup {u}
    /\ starting' = {}
    /\ pc' = "poll"
    /\ UNCHANGED <<captureLog, positions, startup_replay_complete, batcher,
                   batch_size, crashes, reconfigs>>

\* complete_due_batches, for one due batch: process_batch and its publication.
CompleteBatch(u) ==
    /\ pc = "poll"
    /\ u \in in_flight
    /\ Cardinality(batches[u].txs) = batch_size
    /\ LET done == [batches[u] EXCEPT !.status = outcome_for_index(batches[u].seq)]
       IN  /\ batches' = [batches EXCEPT ![u] = done]
           /\ Publish(u, done)
    /\ in_flight' = in_flight \ {u}
    /\ UNCHANGED <<captureLog, pc, positions, startup_replay_complete, pending, ahead,
                   sequence, starting, batch_size, crashes, reconfigs>>

\* What the process held in memory is gone; the next one starts over.
LoseMemory ==
    /\ pc' = "down"
    /\ capturePos' = [t \in Tx |-> 0]
    /\ batchPos' = [u \in Uid |-> 0]
    /\ startup_replay_complete' = FALSE
    /\ pending' = {}
    /\ ahead' = {}
    /\ batches' = [u \in Uid |-> NoBatch]
    /\ sequence' = 0
    /\ starting' = {}
    /\ in_flight' = {}

\* process_batch raises ValueError on a batch of another size than the present
\* batch_size; nothing catches it and the process ends.
AbortOnSize(u) ==
    /\ pc = "poll"
    /\ u \in in_flight
    /\ Cardinality(batches[u].txs) # batch_size
    /\ LoseMemory
    /\ UNCHANGED <<topics, env>>

Crash ==
    /\ pc # "down"
    /\ crashes < MaxCrashes
    /\ crashes' = crashes + 1
    /\ LoseMemory
    /\ UNCHANGED <<topics, batch_size, sendFaults, reconfigs>>

\* The operator deploys the stopped service with another SETTLEMENT_BATCH_SIZE.
Reconfigure ==
    /\ pc = "down"
    /\ reconfigs < MaxReconfigs
    /\ reconfigs' = reconfigs + 1
    /\ batch_size' \in BatchSizes \ {batch_size}
    /\ UNCHANGED <<topics, pc, positions, startup_replay_complete, batcher,
                   starting, in_flight, crashes, sendFaults>>

Service ==
    \/ \E t \in Tx : HandleCapture(t)
    \/ \E u \in Uid :
        \/ ReconcileSettlementEvent(u)
        \/ StartReadyBatch(u)
        \/ PublishReady(u)
        \/ PublishProcessing(u)
        \/ CompleteBatch(u)
        \/ AbortOnSize(u)
    \/ FinishReplay

Next ==
    \/ \E t \in Tx, kind \in CaptureKinds : Capture(t, kind)
    \/ Service
    \/ Restart
    \/ Crash
    \/ Reconfigure

Spec == Init /\ [][Next]_vars

\* The loop of main keeps running, its consumer keeps polling every partition
\* and every timer it compares with the clock elapses; a stopped container is
\* started again (restart: unless-stopped).  Crashes, lost publications and new
\* captures are never owed.
Fairness ==
    /\ WF_vars(Restart)
    /\ WF_vars(FinishReplay)
    /\ \A t \in Tx : WF_vars(HandleCapture(t))
    /\ \A u \in Uid :
        /\ WF_vars(ReconcileSettlementEvent(u))
        /\ WF_vars(StartReadyBatch(u))
        /\ WF_vars(PublishReady(u))
        /\ WF_vars(PublishProcessing(u))
        /\ WF_vars(CompleteBatch(u))
        /\ WF_vars(AbortOnSize(u))

FairSpec == Spec /\ Fairness

-----------------------------------------------------------------------------
(* Properties *)

TypeOK ==
    /\ captureLog \in [Tx -> Seq(CaptureKinds)]
    /\ batchLog \in [Uid -> Seq(Batch)]
    /\ pc \in {"down", "poll", "ready", "processing"}
    /\ capturePos \in [Tx -> Nat]
    /\ batchPos \in [Uid -> Nat]
    /\ startup_replay_complete \in BOOLEAN
    /\ pending \subseteq Tx
    /\ ahead \subseteq Tx \X Tx
    /\ batches \in [Uid -> Batch]
    /\ sequence \in Nat
    /\ starting \subseteq Uid
    /\ in_flight \subseteq Uid
    /\ batch_size \in BatchSizes
    /\ crashes \in Nat /\ sendFaults \in Nat /\ reconfigs \in Nat

OnTopic(u)  == batchLog[u] # <<>>
Events(u)   == {batchLog[u][i] : i \in 1..Len(batchLog[u])}
Captured    == {t \in Tx : \E i \in 1..Len(captureLog[t]) :
                               captureLog[t][i] = "capture_succeeded"}
HasOutcome(u) == \E e \in Events(u) : e.status \in Terminal

\* No transaction is on the topic in two batches, whatever was lost, repeated
\* or replayed (the purpose of the startup replay, main.py:159).
NoDoubleSettlement ==
    \A u, v \in Uid : u # v =>
        \A d \in Events(u), e \in Events(v) : d.txs \cap e.txs = {}

\* Two batches on the topic never carry the same number: outcomes are looked up
\* and the dashboard sorts by it (main.py:37, 76).
UniqueBatchIndex ==
    \A u, v \in Uid : u # v => \A d \in Events(u), e \in Events(v) : d.seq # e.seq

\* A final capture that the service has read is queued or in a batch it knows:
\* no order of captures, batch events and batch starts drops one.
NoCaptureLost ==
    \A t \in Tx :
        (\E i \in 1..capturePos[t] : captureLog[t][i] = "capture_succeeded")
            => t \in pending \cup KnownTxs

\* Once the replay is complete the memory holds every batch of the topic.
MemoryCoversTopic ==
    startup_replay_complete =>
        \A u \in Uid : \A e \in Events(u) :
            batches[u].txs = e.txs /\ batches[u].seq = e.seq

\* Every event that is published is about a batch of exactly batch_size finally
\* captured transactions, batch_size being the one in force
\* (common/settlement.py:86-124): a batch of another size, made before a
\* redeployment, is never completed under it.
BatchesAreExact ==
    [][\A u \in Uid : batchLog'[u] # batchLog[u] =>
          LET e == batchLog'[u][Len(batchLog'[u])]
          IN  Cardinality(e.txs) = batch_size /\ e.txs \subseteq Captured]_vars

\* After an outcome of a batch is on the topic nothing more about that batch is
\* published, in this life of the process or a later one.
SettledOnce ==
    [][\A u \in Uid : HasOutcome(u) => batchLog'[u] = batchLog[u]]_vars

\* A finished batch stays finished in memory until the process ends, though its
\* own older events are still to be consumed (main.py:42).
OutcomeSticks ==
    [][\A u \in Uid : batches[u].status \in Terminal =>
          batches'[u].status \in {batches[u].status, "absent"}]_vars

\* "On restart the service ... resume[s] unfinished batches" (README.md:150): a
\* batch on the topic gets its outcome.
UnfinishedBatchesResume == \A u \in Uid : OnTopic(u) ~> HasOutcome(u)

\* Captures do not wait for ever: in the end fewer than batch_size of them are
\* in no batch.
BacklogDrains ==
    <>[](Cardinality({t \in Captured : \A u \in Uid : \A e \in Events(u) : t \notin e.txs})
            < batch_size)

\* The topic as the ledger its readers take it for.
Posted == [u \in Uid |->
    [txs |-> UNION {e.txs : e \in Events(u)},
     state |-> IF ~ OnTopic(u) THEN "none"
               ELSE IF ~ HasOutcome(u) THEN "open"
               ELSE batchLog[u][Len(batchLog[u])].status]]

Ledger == INSTANCE SettlementLedger
            WITH Sizes <- BatchSizes, captured <- Captured, ledger <- Posted

\* The service implements SettlementLedger.
ImplementsLedger == Ledger!Spec
=============================================================================
