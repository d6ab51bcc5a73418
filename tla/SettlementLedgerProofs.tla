----------------------- MODULE SettlementLedgerProofs ------------------------
(***************************************************************************)
(* Settlement: batch numbers, batch sizes, captures and outcomes, and that *)
(* the service implements SettlementLedger, for any number of              *)
(* transactions, batches, crashes and lost or repeated publications.       *)
(*                                                                         *)
(* The arguments build on the invariant of SettlementProofs.  A step of    *)
(* the service is one of five kinds for all of them: it forgets, makes a   *)
(* batch, publishes an event of a batch, reads one, or leaves the batches  *)
(* alone.                                                                  *)
(***************************************************************************)
EXTENDS SettlementProofs

\* The kinds of steps, as far as the batches and their topic are concerned.
Forgets == LoseMemory /\ UNCHANGED topics
Makes(u, S) ==
    /\ startup_replay_complete /\ ~ Known(u) /\ batchLog[u] = <<>>
    /\ NextItems(S)
    /\ sequence' = sequence + 1
    /\ pending' = pending \ S
    /\ batches' = [batches EXCEPT ![u] = [seq |-> sequence + 1, txs |-> S, status |-> "ready"]]
    /\ pc = "poll" /\ starting' = {u} /\ pc' = "ready"
    /\ UNCHANGED <<topics, positions, startup_replay_complete, in_flight>>
Publishes(u, b) ==
    /\ Publish(u, b)
    /\ startup_replay_complete /\ Known(u)
    /\ u \in starting \cup in_flight
    /\ b \in Batch /\ b.txs = batches[u].txs /\ b.seq = batches[u].seq
    /\ b.status # "absent"
    /\ batches'[u].txs = b.txs /\ batches'[u].seq = b.seq /\ Known(u)'
    /\ \A v \in Uid : v # u => batches'[v] = batches[v]
    /\ \/ /\ b.status = batches[u].status /\ batches'[u].status \in {b.status, "processing"}
          /\ starting' \cup in_flight' \subseteq starting \cup in_flight
          /\ starting' # {} => pc' = "processing"
       \/ /\ b.status \in Terminal /\ batches'[u] = b /\ pc = "poll" /\ pc' = pc
          /\ starting' = starting /\ in_flight' = in_flight \ {u}
    /\ UNCHANGED <<captureLog, positions, startup_replay_complete, pending, sequence>>
Rests ==
    /\ UNCHANGED <<batchLog, batchPos, batches, sequence, starting>>
    /\ \/ \E t \in Tx : HandleCapture(t)
       \/ UNCHANGED <<capturePos, pending>>
    /\ \/ UNCHANGED <<startup_replay_complete, in_flight>>
       \/ FinishReplay
    /\ pc' = pc \/ (pc = "down" /\ pc' = "poll")

\* Every step is of one of the five kinds.
LEMMA StepKinds ==
    ASSUME IInv, TypeOK', [Next]_vars
    PROVE  \/ Forgets
           \/ \E u \in Uid : \E S \in SUBSET pending : Makes(u, S)
           \/ \E u \in Uid, b \in Batch : Publishes(u, b)
           \/ \E u \in Uid : ReconcileSettlementEvent(u)
           \/ Rests
<1> USE DEF IInv
<1>1. CASE UNCHANGED vars
  BY <1>1 DEF vars, Rests
<1>2. ASSUME NEW t \in Tx, NEW kind \in CaptureKinds, Capture(t, kind)
      PROVE  Rests
  BY <1>2 DEF Capture, Rests, positions, batcher
<1>3. ASSUME NEW t \in Tx, HandleCapture(t) PROVE Rests
  <2>1. UNCHANGED <<batchLog, batchPos, batches, sequence, starting, pc,
                    startup_replay_complete, in_flight>>
    BY <1>3 DEF HandleCapture, topics
  <2> QED BY <1>3, <2>1 DEF Rests
<1>4. ASSUME NEW u \in Uid, StartReadyBatch(u)
      PROVE  \E S \in SUBSET pending : Makes(u, S)
  <2>1. PICK S \in SUBSET pending :
          /\ NextItems(S)
          /\ sequence' = sequence + 1
          /\ pending' = pending \ S
          /\ batches' = [batches EXCEPT ![u] =
                             [seq |-> sequence + 1, txs |-> S, status |-> "ready"]]
    BY <1>4 DEF StartReadyBatch, Remaining
  <2> QED BY <1>4, <2>1 DEF StartReadyBatch, Makes
<1>5. ASSUME NEW u \in Uid, PublishReady(u)
      PROVE  Publishes(u, batches[u]) /\ batches[u] \in Batch
  <2>1. /\ Publish(u, batches[u]) /\ startup_replay_complete /\ Known(u)
        /\ batches[u] \in Batch /\ u \in starting
        /\ batches' = [batches EXCEPT ![u].status = "processing"] /\ pc' = "processing"
        /\ UNCHANGED <<captureLog, positions, startup_replay_complete, pending, sequence,
                       starting, in_flight>>
    BY <1>5 DEF PublishReady, Control, TypeOK
  <2>2. /\ batches'[u] = [batches[u] EXCEPT !.status = "processing"]
        /\ \A v \in Uid : v # u => batches'[v] = batches[v]
    BY <2>1 DEF TypeOK
  <2>3. /\ batches'[u].status = "processing"
        /\ batches'[u].txs = batches[u].txs /\ batches'[u].seq = batches[u].seq
    BY <2>1, <2>2 DEF Batch
  <2>4. Known(u)' /\ batches[u].status # "absent"
    BY <2>1, <2>3 DEF Known
  <2> QED BY <2>1, <2>2, <2>3, <2>4 DEF Publishes
<1>6. ASSUME NEW u \in Uid, PublishProcessing(u)
      PROVE  Publishes(u, batches[u]) /\ batches[u] \in Batch
  <2>1. /\ Publish(u, batches[u]) /\ startup_replay_complete /\ Known(u)
        /\ batches[u] \in Batch /\ u \in starting
        /\ batches' = batches /\ starting' = {} /\ in_flight' = in_flight \cup {u}
        /\ UNCHANGED <<captureLog, positions, startup_replay_complete, pending, sequence>>
    BY <1>6 DEF PublishProcessing, Control, TypeOK, batcher
  <2>2. Known(u)' /\ batches[u].status # "absent"
    BY <2>1 DEF Known
  <2> QED BY <2>1, <2>2 DEF Publishes
<1>7. ASSUME NEW u \in Uid, CompleteBatch(u)
      PROVE  \E b \in Batch : Publishes(u, b)
  <2> DEFINE done == [batches[u] EXCEPT !.status = outcome_for_index(batches[u].seq)]
  <2>1. /\ Publish(u, done) /\ startup_replay_complete /\ Known(u)
        /\ batches' = [batches EXCEPT ![u] = done] /\ u \in in_flight
        /\ starting' = starting /\ in_flight' = in_flight \ {u}
        /\ pc = "poll" /\ pc' = pc
        /\ UNCHANGED <<captureLog, positions, startup_replay_complete, pending, sequence>>
    BY <1>7 DEF CompleteBatch, Control, TypeOK
  <2>2. /\ done \in Batch /\ done.txs = batches[u].txs /\ done.seq = batches[u].seq
        /\ done.status \in Terminal /\ done.status # "absent"
    <3>1. batches[u] \in Batch
      BY DEF TypeOK
    <3>2. outcome_for_index(batches[u].seq) \in Terminal
      BY OutcomeIsTerminal
    <3> QED BY <3>1, <3>2 DEF Batch, Terminal
  <2>3. batches'[u] = done /\ \A v \in Uid : v # u => batches'[v] = batches[v]
    BY <2>1 DEF TypeOK
  <2>4. Known(u)'
    BY <2>2, <2>3 DEF Known
  <2>5. Publishes(u, done)
    BY <2>1, <2>2, <2>3, <2>4 DEF Publishes
  <2> QED BY <2>2, <2>5
<1>8. ASSUME NEW u \in Uid, AbortOnSize(u) PROVE Forgets
  BY <1>8 DEF AbortOnSize, Forgets
<1>9. CASE Crash
  BY <1>9 DEF Crash, Forgets
<1>10. CASE FinishReplay
  BY <1>10 DEF FinishReplay, Rests, topics, positions, batcher
<1>11. CASE Restart
  BY <1>11 DEF Restart, Rests, topics, positions, batcher
<1>12. CASE Reconfigure
  BY <1>12 DEF Reconfigure, Rests, topics, positions, batcher
<1> QED
  BY <1>1, <1>2, <1>3, <1>4, <1>5, <1>6, <1>7, <1>8, <1>9, <1>10, <1>11, <1>12
  DEF Next, Service
-----------------------------------------------------------------------------
(* The invariants, each inductive over IInv. *)

\* A batch has one number, the counter has passed it, no other batch has it.
Numbered ==
    /\ \A u \in Uid : \A d, e \in Events(u) : d.seq = e.seq
    /\ \A u \in Uid : Known(u) => \A e \in Events(u) : e.seq = batches[u].seq
    /\ \A u \in Uid : Known(u) => batches[u].seq <= sequence
    /\ \A u, v \in Uid : u # v /\ Known(u) /\ Known(v) => batches[u].seq # batches[v].seq
    /\ UniqueBatchIndex

\* A batch on the topic has a permitted size, and final captures only.
SizesAllowed ==
    \A u \in Uid : \A e \in Events(u) :
        Cardinality(e.txs) \in BatchSizes /\ e.txs \subseteq Captured

\* So have the batches in memory, and the queue.
Exact ==
    /\ pending \subseteq Captured
    /\ \A u \in Uid : Known(u) => /\ batches[u].txs \subseteq Captured
                                  /\ Cardinality(batches[u].txs) \in BatchSizes
    /\ SizesAllowed

\* Nothing is read beyond the end of a log, and nothing read is forgotten.
Kept ==
    /\ \A t \in Tx : capturePos[t] <= Len(captureLog[t])
    /\ NoCaptureLost

\* The memory has the outcomes it has read, after the replay all of the topic's;
\* a batch that is still published has none.
Outcomes ==
    /\ \A u \in Uid : batchPos[u] <= Len(batchLog[u])
    /\ \A u \in Uid : \A i \in 1..batchPos[u] :
           batchLog[u][i].status \in Terminal => batches[u].status \in Terminal
    /\ startup_replay_complete =>
           \A u \in Uid : HasOutcome(u) => batches[u].status \in Terminal
    /\ \A u \in starting \cup in_flight : batches[u].status \in Unfinished
    /\ starting # {} => pc \in {"ready", "processing"}
    /\ \A u \in Uid : batches[u].status \in Terminal =>
           \A e \in Events(u) : e.status \in Terminal => e.status = batches[u].status
    /\ \A u \in Uid : \A d, e \in Events(u) :
           d.status \in Terminal /\ e.status \in Terminal => d.status = e.status
    /\ \A u \in Uid : HasOutcome(u) => batchLog[u][Len(batchLog[u])].status \in Terminal

\* A batch is announced under the size it was made under: the process that makes
\* it ends before the size changes.
Sized == \A u \in starting : Cardinality(batches[u].txs) = batch_size

LedgerInv == Numbered /\ Exact /\ Kept /\ Outcomes /\ Sized

-----------------------------------------------------------------------------
(* What the kinds of steps do. *)

\* Publishing b repeats nothing, or leaves b at the end; what was on the topic
\* stays in its place.
LEMMA PublishedLast ==
    ASSUME NEW u \in Uid, NEW b \in Batch, TypeOK, Publish(u, b)
    PROVE  /\ batchLog'[u] = batchLog[u]
              \/ /\ batchLog'[u][Len(batchLog'[u])] = b
                 /\ b \in Events(u)'
           /\ \A i \in 1..Len(batchLog[u]) : batchLog'[u][i] = batchLog[u][i]
<1>1. PICK n \in 0..2 :
        batchLog' = [batchLog EXCEPT ![u] = @ \o [i \in 1..n |-> b]]
  BY EventIsBatch DEF Publish
<1> DEFINE c == [i \in 1..n |-> b]
           s == batchLog[u]
<1>2. c \in Seq(Batch) /\ Len(c) = n /\ n \in Nat
  BY CopiesProperties
<1>3. s \in Seq(Batch) /\ Len(s) \in Nat
  BY DEF TypeOK
<1>4. /\ s \o c \in Seq(Batch)
      /\ Len(s \o c) = Len(s) + n
      /\ \A i \in 1..Len(s) + n : (s \o c)[i] = IF i <= Len(s) THEN s[i] ELSE c[i - Len(s)]
  BY <1>2, <1>3, ConcatProperties
<1>5. batchLog'[u] = s \o c
  BY <1>1 DEF TypeOK
<1>6. \A i \in 1..Len(s) : batchLog'[u][i] = s[i]
  BY <1>2, <1>3, <1>4, <1>5
<1>7. CASE n = 0
  <2>1. c = << >>
    BY <1>2, <1>7, EmptySeq
  <2>2. s \o c = s
    BY <1>3, <2>1, ConcatEmptySeq
  <2> QED BY <1>5, <1>6, <2>2
<1>8. CASE n > 0
  <2>1. /\ Len(s) + n \in 1..Len(s) + n /\ ~ (Len(s) + n <= Len(s))
        /\ (Len(s) + n) - Len(s) = n /\ n \in 1..n
    BY <1>2, <1>3, <1>8
  <2>2. c[n] = b
    BY <2>1
  <2>3. (s \o c)[Len(s) + n] = b
    BY <1>4, <2>1, <2>2
  <2> QED BY <1>4, <1>5, <1>6, <2>1, <2>3 DEF Events
<1> QED BY <1>2, <1>7, <1>8

\* Reading an event of a batch: it names what the memory has, or is new to it.
LEMMA ReadProperties ==
    ASSUME IInv, NEW u \in Uid, ReconcileSettlementEvent(u)
    PROVE  LET e == batchLog[u][batchPos[u] + 1]
           IN  /\ e \in Events(u) /\ e \in Batch /\ e.status # "absent" /\ OnTopic(u)
               /\ Known(u) => batches[u].txs = e.txs
               /\ Known(u)' /\ batches'[u].txs = e.txs /\ batches'[u].seq \in Nat
               /\ \/ batches'[u] = e /\ (e.status \notin Terminal => batches[u].status \notin Terminal)
                  \/ batches'[u] = batches[u] /\ Known(u) /\ e.status \notin Terminal
               /\ \A v \in Uid : v # u => batches'[v] = batches[v] /\ Known(v)' = Known(v)
               /\ \A v \in Uid : Events(v)' = Events(v)
               /\ pending' = pending \ e.txs
               /\ sequence' = SequenceAfter(e.seq)
               /\ batchPos' = [batchPos EXCEPT ![u] = @ + 1]
               /\ batchPos[u] + 1 \in 1..Len(batchLog[u])
               /\ UNCHANGED <<captureLog, batchLog, pc, capturePos, startup_replay_complete,
                              starting, in_flight>>
<1> DEFINE e == batchLog[u][batchPos[u] + 1]
<1>1. /\ batchLog' = batchLog
      /\ batchPos' = [batchPos EXCEPT ![u] = @ + 1]
      /\ pending' = pending \ e.txs
      /\ sequence' = SequenceAfter(e.seq)
      /\ batches' = IF Replaces(u, e) THEN [batches EXCEPT ![u] = e] ELSE batches
      /\ UNCHANGED <<captureLog, pc, capturePos, startup_replay_complete, starting, in_flight>>
  BY DEF ReconcileSettlementEvent, Remaining, topics
<1>2. TypeOK
  BY DEF IInv
<1>3. batchPos[u] + 1 \in 1..Len(batchLog[u]) /\ e \in Batch
  <2>1. batchLog[u] \in Seq(Batch) /\ Len(batchLog[u]) \in Nat /\ batchPos[u] \in Nat
    BY <1>2 DEF TypeOK
  <2> QED BY <2>1, ElementOfSeq DEF ReconcileSettlementEvent
<1>4. e \in Events(u)
  BY <1>3 DEF Events
<1>5. OnTopic(u)
  BY <1>2, <1>4, OnTopicIffEvents
<1>6. e.status # "absent" /\ (Known(u) => batches[u].txs = e.txs)
  BY <1>4 DEF IInv, Agreement
<1>7. \A v \in Uid : v # u => batches'[v] = batches[v]
  BY <1>1, <1>2 DEF TypeOK
<1>8. \A v \in Uid : v # u => Known(v)' = Known(v)
  BY <1>7 DEF Known
<1>9. CASE Replaces(u, e)
  <2>1. batches'[u] = e
    BY <1>1, <1>2, <1>9 DEF TypeOK
  <2>2. e.status \notin Terminal => batches[u].status \notin Terminal
    BY <1>9 DEF Replaces
  <2>3. e.seq \in Nat
    BY <1>3 DEF Batch
  <2> QED BY <1>1, <1>3, <1>4, <1>5, <1>6, <1>7, <1>8, <2>1, <2>2, <2>3 DEF Known, Events
<1>10. CASE ~ Replaces(u, e)
  <2>1. batches' = batches /\ Known(u) /\ e.status \notin Terminal
    BY <1>1, <1>10 DEF Replaces, Known, Terminal
  <2>2. batches[u].seq \in Nat
    BY <1>2 DEF TypeOK, Batch
  <2> QED BY <1>1, <1>3, <1>4, <1>5, <1>6, <1>7, <1>8, <2>1, <2>2 DEF Known, Events
<1> QED BY <1>9, <1>10

\* Publishing b as an event of u: the other logs stand still, and after the
\* replay every batch of the topic is in memory.
LEMMA PublishedEvents ==
    ASSUME IInv, NEW u \in Uid, NEW b \in Batch, Publishes(u, b)
    PROVE  /\ \A v \in Uid : v # u => /\ batchLog'[v] = batchLog[v]
                                      /\ Events(v)' = Events(v)
                                      /\ Known(v)' = Known(v)
           /\ \A e \in Events(u)' : e \in Events(u) \/ e = b
           /\ Events(u) \subseteq Events(u)'
           /\ \A v \in Uid : \A e \in Events(v) : Known(v) /\ OnTopic(v)
           /\ Len(batchLog'[u]) >= Len(batchLog[u])
<1>1. /\ \A v \in Uid : v # u => batchLog'[v] = batchLog[v]
      /\ \A e \in Events(u)' : e \in Events(u) \/ e = b
      /\ Events(u) \subseteq Events(u)'
      /\ Len(batchLog'[u]) >= Len(batchLog[u])
  BY PublishProperties DEF IInv, Publishes
<1>2. \A v \in Uid : v # u => Known(v)' = Known(v)
  BY DEF Publishes, Known
<1>3. \A v \in Uid : \A e \in Events(v) : OnTopic(v)
  BY OnTopicIffEvents DEF IInv
<1>4. \A v \in Uid : OnTopic(v) => Known(v)
  BY DEF IInv, Coverage, Publishes
<1> QED BY <1>1, <1>2, <1>3, <1>4 DEF Events

\* A process that stops knows no batch; the topic is what it was.
LEMMA ForgottenEvents ==
    ASSUME Forgets
    PROVE  /\ \A u \in Uid : /\ ~ Known(u)' /\ batches'[u] = NoBatch
                             /\ Events(u)' = Events(u) /\ batchPos'[u] = 0
                             /\ batches'[u].status \notin Unfinished \cup Terminal
           /\ \A t \in Tx : capturePos'[t] = 0
           /\ pending' = {} /\ starting' = {} /\ in_flight' = {}
           /\ ~ startup_replay_complete'
           /\ UNCHANGED topics
BY DEF Forgets, LoseMemory, Known, NoBatch, Events, topics, Unfinished, Terminal

\* A new batch is on no topic yet; its number is the next one.
LEMMA MadeEvents ==
    ASSUME IInv, NEW u \in Uid, NEW S, Makes(u, S)
    PROVE  /\ \A v \in Uid : Events(v)' = Events(v)
           /\ Events(u) = {}
           /\ Known(u)' /\ ~ Known(u)
           /\ batches'[u].seq = sequence + 1 /\ batches'[u].txs = S
           /\ batches'[u].status = "ready"
           /\ \A v \in Uid : v # u => batches'[v] = batches[v] /\ Known(v)' = Known(v)
           /\ sequence' = sequence + 1 /\ pending' = pending \ S /\ NextItems(S)
           /\ starting' = {u} /\ pc' = "ready" /\ pc = "poll" /\ startup_replay_complete
           /\ UNCHANGED <<captureLog, batchLog, capturePos, batchPos,
                          startup_replay_complete, in_flight>>
<1>1. TypeOK
  BY DEF IInv
<1>2. /\ batches'[u] = [seq |-> sequence + 1, txs |-> S, status |-> "ready"]
      /\ \A v \in Uid : v # u => batches'[v] = batches[v]
  BY <1>1 DEF Makes, TypeOK
<1>3. Events(u) = {}
  BY <1>1, OnTopicIffEvents DEF Makes, OnTopic
<1>4. /\ batches'[u].seq = sequence + 1 /\ batches'[u].txs = S
      /\ batches'[u].status = "ready"
  BY <1>2
<1> QED BY <1>2, <1>3, <1>4 DEF Makes, Known, Events, topics, positions

-----------------------------------------------------------------------------
(* Batch numbers. *)

LEMMA StepNumbered ==
    ASSUME IInv, TypeOK', [Next]_vars, Numbered
    PROVE  Numbered'
<1>0. TypeOK /\ \A u \in Uid : batches[u].seq \in Nat /\ sequence \in Nat
  BY DEF IInv, TypeOK, Batch
<1>1. CASE Forgets
  BY <1>1, ForgottenEvents DEF Numbered, UniqueBatchIndex
<1>2. ASSUME NEW u \in Uid, NEW S \in SUBSET pending, Makes(u, S)
      PROVE  Numbered'
  <2>1. /\ \A v \in Uid : Events(v)' = Events(v)
        /\ Events(u) = {} /\ Known(u)' /\ batches'[u].seq = sequence + 1
        /\ \A v \in Uid : v # u => batches'[v] = batches[v] /\ Known(v)' = Known(v)
        /\ sequence' = sequence + 1
    BY <1>2, MadeEvents
  <2>2. \A v \in Uid : v # u /\ Known(v) => batches[v].seq < sequence + 1
    BY <1>0 DEF Numbered
  <2>3. \A v \in Uid : Known(v)' => batches'[v].seq <= sequence'
    BY <1>0, <2>1, <2>2
  <2>4. \A v, w \in Uid : v # w /\ Known(v)' /\ Known(w)' => batches'[v].seq # batches'[w].seq
    BY <1>0, <2>1, <2>2 DEF Numbered
  <2> QED BY <2>1, <2>3, <2>4 DEF Numbered, UniqueBatchIndex
<1>3. ASSUME NEW u \in Uid, NEW b \in Batch, Publishes(u, b)
      PROVE  Numbered'
  <2>1. /\ \A v \in Uid : batches'[v].seq = batches[v].seq /\ Known(v)' = Known(v)
        /\ b.seq = batches[u].seq /\ sequence' = sequence
    BY <1>3 DEF Publishes, Known
  <2>2. \A v \in Uid : \A e \in Events(v)' : e.seq = batches[v].seq /\ Known(v)
    BY <1>3, <2>1, PublishedEvents DEF Numbered, Publishes
  <2> QED BY <2>1, <2>2 DEF Numbered, UniqueBatchIndex
<1>4. ASSUME NEW u \in Uid, ReconcileSettlementEvent(u)
      PROVE  Numbered'
  <2> DEFINE e == batchLog[u][batchPos[u] + 1]
  <2>1. /\ e \in Events(u) /\ e \in Batch /\ OnTopic(u)
        /\ Known(u)' /\ (batches'[u] = e \/ (batches'[u] = batches[u] /\ Known(u)))
        /\ \A v \in Uid : v # u => batches'[v] = batches[v] /\ Known(v)' = Known(v)
        /\ \A v \in Uid : Events(v)' = Events(v)
        /\ sequence' = SequenceAfter(e.seq)
    BY <1>4, ReadProperties
  <2>2. batches'[u].seq = e.seq /\ \A d \in Events(u) : d.seq = e.seq
    BY <2>1 DEF Numbered
  <2>3. e.seq \in Nat /\ sequence' >= sequence /\ sequence' >= e.seq
    BY <1>0, <2>1 DEF SequenceAfter, Batch
  <2>4. ASSUME NEW v \in Uid, Known(v)'
        PROVE  batches'[v].seq <= sequence'
    <3>1. batches[v].seq \in Nat /\ sequence \in Nat /\ sequence' \in Nat
      BY <1>0 DEF TypeOK
    <3>2. CASE v = u
      BY <2>2, <2>3, <3>2
    <3>3. CASE v # u
      <4>1. Known(v) /\ batches'[v] = batches[v]
        BY <2>1, <2>4, <3>3
      <4>2. batches[v].seq <= sequence
        BY <4>1 DEF Numbered
      <4> HIDE DEF e
      <4> QED BY <2>3, <3>1, <4>1, <4>2
    <3> QED BY <3>2, <3>3
  <2>5. \A v \in Uid : v # u /\ Known(v) => batches[v].seq # e.seq
    <3> SUFFICES ASSUME NEW v \in Uid, v # u, Known(v) PROVE batches[v].seq # e.seq
      OBVIOUS
    <3>1. CASE Known(u)
      BY <2>1, <3>1 DEF Numbered
    <3>2. CASE ~ Known(u)
      <4>1. OnTopic(v)
        BY <2>1, <3>2 DEF IInv, Coverage
      <4>2. PICK d \in Events(v) : d.seq = batches[v].seq
        BY <1>0, <4>1, OnTopicIffEvents DEF Numbered
      <4> QED BY <2>1, <4>2 DEF Numbered, UniqueBatchIndex
    <3> QED BY <3>1, <3>2
  <2>6. \A v, w \in Uid : v # w /\ Known(v)' /\ Known(w)' => batches'[v].seq # batches'[w].seq
    BY <2>1, <2>2, <2>5 DEF Numbered
  <2>7. \A v \in Uid : Known(v)' => \A d \in Events(v) : d.seq = batches'[v].seq
    BY <2>1, <2>2 DEF Numbered
  <2> QED BY <2>1, <2>4, <2>6, <2>7 DEF Numbered, UniqueBatchIndex
<1>5. CASE Rests
  <2>1. \A u \in Uid : Events(u)' = Events(u) /\ Known(u)' = Known(u)
    BY <1>5 DEF Rests, Events, Known
  <2> QED BY <1>5, <2>1 DEF Rests, Numbered, UniqueBatchIndex
<1> QED BY <1>1, <1>2, <1>3, <1>4, <1>5, StepKinds

-----------------------------------------------------------------------------
(* Batch sizes. *)

\* The final captures only become more, and each log only longer.
LEMMA CaptureProperties ==
    ASSUME TypeOK, [Next]_vars
    PROVE  /\ Captured \subseteq Captured'
           /\ \A t \in Tx : /\ Len(captureLog[t]) \in Nat
                            /\ Len(captureLog[t]) <= Len(captureLog'[t])
                            /\ \A i \in 1..Len(captureLog[t]) :
                                  captureLog'[t][i] = captureLog[t][i]
<1>1. \A t \in Tx : captureLog[t] \in Seq(CaptureKinds) /\ Len(captureLog[t]) \in Nat
  BY DEF TypeOK
<1>2. \A t \in Tx : /\ Len(captureLog[t]) <= Len(captureLog'[t])
                    /\ \A i \in 1..Len(captureLog[t]) : captureLog'[t][i] = captureLog[t][i]
                    /\ Len(captureLog'[t]) \in Nat
  <2>1. CASE captureLog' = captureLog
    BY <1>1, <2>1
  <2>2. ASSUME NEW t \in Tx, NEW kind \in CaptureKinds, Capture(t, kind)
        PROVE  \A r \in Tx : /\ Len(captureLog[r]) <= Len(captureLog'[r])
                             /\ \A i \in 1..Len(captureLog[r]) :
                                   captureLog'[r][i] = captureLog[r][i]
                             /\ Len(captureLog'[r]) \in Nat
    <3>1. /\ captureLog'[t] = Append(captureLog[t], kind)
          /\ \A r \in Tx : r # t => captureLog'[r] = captureLog[r]
      BY <2>2 DEF Capture, TypeOK
    <3>2. /\ Len(Append(captureLog[t], kind)) = Len(captureLog[t]) + 1
          /\ \A i \in 1..Len(captureLog[t]) :
                Append(captureLog[t], kind)[i] = captureLog[t][i]
      BY <1>1, AppendProperties
    <3> QED BY <1>1, <3>1, <3>2
  <2> QED
    BY <2>1, <2>2 DEF Next, Service, vars, HandleCapture, ReconcileSettlementEvent,
       StartReadyBatch, PublishReady, PublishProcessing, CompleteBatch, AbortOnSize,
       FinishReplay, Restart, Crash, Reconfigure, topics
<1>3. Captured \subseteq Captured'
  <2> SUFFICES ASSUME NEW t \in Captured PROVE t \in Captured'
    OBVIOUS
  <2>1. t \in Tx /\ \E i \in 1..Len(captureLog[t]) : captureLog[t][i] = "capture_succeeded"
    BY DEF Captured
  <2>2. PICK i \in 1..Len(captureLog[t]) : captureLog[t][i] = "capture_succeeded"
    BY <2>1
  <2>3. i \in 1..Len(captureLog'[t]) /\ captureLog'[t][i] = "capture_succeeded"
    BY <1>1, <1>2, <2>1, <2>2
  <2> QED BY <2>1, <2>3 DEF Captured
<1> QED BY <1>1, <1>2, <1>3

LEMMA StepExact ==
    ASSUME IInv, TypeOK', [Next]_vars, Exact
    PROVE  Exact'
<1>0. TypeOK /\ Captured \subseteq Captured'
  BY CaptureProperties DEF IInv
<1>1. CASE Forgets
  BY <1>0, <1>1, ForgottenEvents DEF Exact, SizesAllowed
<1>2. ASSUME NEW u \in Uid, NEW S \in SUBSET pending, Makes(u, S)
      PROVE  Exact'
  <2>1. Cardinality(S) \in BatchSizes /\ S \subseteq Captured
    BY <1>0, <1>2, MadeEvents DEF NextItems, TypeOK, Exact
  <2>2. /\ \A v \in Uid : Events(v)' = Events(v)
        /\ batches'[u].txs = S /\ pending' = pending \ S
        /\ \A v \in Uid : v # u => batches'[v] = batches[v] /\ Known(v)' = Known(v)
    BY <1>2, MadeEvents
  <2> QED BY <1>0, <2>1, <2>2 DEF Exact, SizesAllowed
<1>3. ASSUME NEW u \in Uid, NEW b \in Batch, Publishes(u, b)
      PROVE  Exact'
  <2>1. /\ \A v \in Uid : batches'[v].txs = batches[v].txs /\ Known(v)' = Known(v)
        /\ b.txs = batches[u].txs /\ Known(u) /\ pending' = pending
    BY <1>3 DEF Publishes, Known
  <2>2. \A v \in Uid : \A e \in Events(v)' : e \in Events(v) \/ e.txs = b.txs
    BY <1>3, PublishedEvents
  <2> QED BY <1>0, <2>1, <2>2 DEF Exact, SizesAllowed
<1>4. ASSUME NEW u \in Uid, ReconcileSettlementEvent(u)
      PROVE  Exact'
  <2> DEFINE e == batchLog[u][batchPos[u] + 1]
  <2>1. /\ e \in Events(u) /\ batches'[u].txs = e.txs /\ pending' = pending \ e.txs
        /\ \A v \in Uid : v # u => batches'[v] = batches[v] /\ Known(v)' = Known(v)
        /\ \A v \in Uid : Events(v)' = Events(v)
    BY <1>4, ReadProperties
  <2> QED BY <1>0, <2>1 DEF Exact, SizesAllowed
<1>5. CASE Rests
  <2>1. \A u \in Uid : Events(u)' = Events(u) /\ Known(u)' = Known(u)
    BY <1>5 DEF Rests, Events, Known
  <2>2. ASSUME NEW t \in Tx, HandleCapture(t) PROVE pending' \subseteq Captured
    <3>1. CASE Accepts(t, captureLog[t][capturePos[t] + 1])
      <4>1. capturePos[t] + 1 \in 1..Len(captureLog[t])
        BY <1>0, <2>2 DEF HandleCapture, TypeOK
      <4>2. t \in Captured
        BY <3>1, <4>1 DEF Accepts, Captured
      <4> QED BY <2>2, <3>1, <4>2 DEF HandleCapture, Exact
    <3> QED BY <2>2, <3>1 DEF HandleCapture, Exact
  <2>3. pending' \subseteq Captured
    BY <1>5, <2>2 DEF Rests, Exact
  <2> QED BY <1>0, <1>5, <2>1, <2>3 DEF Rests, Exact, SizesAllowed
<1> QED BY <1>1, <1>2, <1>3, <1>4, <1>5, StepKinds

LEMMA StepSized ==
    ASSUME IInv, TypeOK', [Next]_vars, Outcomes, Sized
    PROVE  Sized'
<1>0. TypeOK /\ (starting # {} => pc \in {"ready", "processing"})
  BY DEF IInv, Outcomes
<1>1. CASE UNCHANGED <<starting, batches, batch_size>>
  BY <1>1 DEF Sized
<1>2. CASE starting' = {}
  BY <1>2 DEF Sized
<1>3. CASE pc \in {"down", "poll"} /\ UNCHANGED starting
  BY <1>0, <1>2, <1>3
<1>4. ASSUME NEW u \in Uid, StartReadyBatch(u) PROVE Sized'
  <2>1. PICK S \in SUBSET pending :
          /\ Cardinality(S) = batch_size
          /\ batches' = [batches EXCEPT ![u] =
                             [seq |-> sequence + 1, txs |-> S, status |-> "ready"]]
    BY <1>4 DEF StartReadyBatch, NextItems
  <2>2. starting' = {u} /\ batch_size' = batch_size
    BY <1>4 DEF StartReadyBatch, env
  <2>3. batches'[u].txs = S
    BY <1>0, <2>1 DEF TypeOK
  <2> QED BY <2>1, <2>2, <2>3 DEF Sized
<1>5. ASSUME NEW u \in Uid, PublishReady(u) PROVE Sized'
  <2>1. /\ batches' = [batches EXCEPT ![u].status = "processing"]
        /\ starting' = starting /\ batch_size' = batch_size
    BY <1>5 DEF PublishReady
  <2>2. \A v \in Uid : batches'[v].txs = batches[v].txs
    BY <1>0, <2>1 DEF TypeOK, Batch
  <2> QED BY <1>0, <2>1, <2>2 DEF Sized, TypeOK
<1>6. ASSUME NEW u \in Uid, PublishProcessing(u) PROVE starting' = {}
  BY <1>6 DEF PublishProcessing
<1>7. ASSUME NEW t \in Tx, NEW kind \in CaptureKinds, Capture(t, kind)
      PROVE  UNCHANGED <<starting, batches, batch_size>>
  BY <1>7 DEF Capture, batcher, env
<1>8. ASSUME NEW t \in Tx, HandleCapture(t) PROVE UNCHANGED <<starting, batches, batch_size>>
  BY <1>8 DEF HandleCapture, env
<1>9. ASSUME NEW u \in Uid, ReconcileSettlementEvent(u) \/ CompleteBatch(u)
      PROVE  pc \in {"down", "poll"} /\ UNCHANGED starting
  BY <1>9 DEF ReconcileSettlementEvent, CompleteBatch
<1>10. ASSUME NEW u \in Uid, AbortOnSize(u) PROVE starting' = {}
  BY <1>10 DEF AbortOnSize, LoseMemory
<1>11. CASE FinishReplay
  BY <1>1, <1>11 DEF FinishReplay, batcher, env
<1>12. CASE Restart
  BY <1>1, <1>12 DEF Restart, batcher, env
<1>13. CASE Crash
  BY <1>2, <1>13 DEF Crash, LoseMemory
<1>14. CASE Reconfigure
  BY <1>3, <1>14 DEF Reconfigure
<1>15. CASE UNCHANGED vars
  BY <1>1, <1>15 DEF vars
<1> QED
  BY <1>1, <1>2, <1>3, <1>4, <1>5, <1>6, <1>7, <1>8, <1>9, <1>10, <1>11, <1>12, <1>13,
     <1>14, <1>15
  DEF Next, Service

-----------------------------------------------------------------------------
(* Captures. *)

LEMMA StepKept ==
    ASSUME IInv, TypeOK', [Next]_vars, Kept
    PROVE  Kept'
<1>0. /\ TypeOK
      /\ \A t \in Tx : /\ Len(captureLog[t]) \in Nat /\ capturePos[t] \in Nat
                       /\ Len(captureLog[t]) <= Len(captureLog'[t])
                       /\ Len(captureLog'[t]) \in Nat
                       /\ \A i \in 1..Len(captureLog[t]) : captureLog'[t][i] = captureLog[t][i]
  <2>1. TypeOK /\ TypeOK'
    BY DEF IInv
  <2>2. \A t \in Tx : Len(captureLog'[t]) \in Nat /\ capturePos[t] \in Nat
    BY <2>1 DEF TypeOK
  <2> QED BY <2>1, <2>2, CaptureProperties
\* While the positions stand, the queue and the batches must only not lose.
<1>1. ASSUME capturePos' = capturePos, pending \cup KnownTxs \subseteq (pending \cup KnownTxs)'
      PROVE  Kept'
  <2>1. \A t \in Tx : capturePos'[t] <= Len(captureLog'[t])
    BY <1>0, <1>1 DEF Kept
  <2>2. ASSUME NEW t \in Tx, NEW i \in 1..capturePos'[t],
               captureLog'[t][i] = "capture_succeeded"
        PROVE  t \in (pending \cup KnownTxs)'
    <3>1. i \in 1..capturePos[t] /\ i \in 1..Len(captureLog[t])
      BY <1>0, <1>1 DEF Kept
    <3> QED BY <1>0, <1>1, <2>2, <3>1 DEF Kept, NoCaptureLost
  <2> QED BY <2>1, <2>2 DEF Kept, NoCaptureLost
<1>2. CASE Forgets
  BY <1>0, <1>2, ForgottenEvents DEF Kept, NoCaptureLost
<1>3. ASSUME NEW u \in Uid, NEW S \in SUBSET pending, Makes(u, S)
      PROVE  Kept'
  <2>1. /\ batches'[u].txs = S /\ pending' = pending \ S /\ capturePos' = capturePos
        /\ \A v \in Uid : v # u => batches'[v] = batches[v]
        /\ ~ Known(u)
    BY <1>3, MadeEvents
  <2>2. batches[u].txs = {}
    BY <2>1 DEF IInv, Agreement, NoBatch
  <2>3. pending \cup KnownTxs \subseteq (pending \cup KnownTxs)'
    BY <2>1, <2>2 DEF KnownTxs
  <2> QED BY <1>1, <2>1, <2>3
<1>4. ASSUME NEW u \in Uid, NEW b \in Batch, Publishes(u, b)
      PROVE  Kept'
  <2>1. /\ \A v \in Uid : batches'[v].txs = batches[v].txs
        /\ pending' = pending /\ capturePos' = capturePos
    BY <1>4 DEF Publishes, positions
  <2>2. pending \cup KnownTxs \subseteq (pending \cup KnownTxs)'
    BY <2>1 DEF KnownTxs
  <2> QED BY <1>1, <2>1, <2>2
<1>5. ASSUME NEW u \in Uid, ReconcileSettlementEvent(u)
      PROVE  Kept'
  <2> DEFINE e == batchLog[u][batchPos[u] + 1]
  <2>1. /\ batches'[u].txs = e.txs /\ pending' = pending \ e.txs
        /\ Known(u) => batches[u].txs = e.txs
        /\ \A v \in Uid : v # u => batches'[v] = batches[v]
        /\ capturePos' = capturePos
    BY <1>5, ReadProperties
  <2>2. batches[u].txs \subseteq e.txs
    BY <2>1 DEF IInv, Agreement, NoBatch
  <2>3. pending \cup KnownTxs \subseteq (pending \cup KnownTxs)'
    <3> HIDE DEF e
    <3> QED BY <2>1, <2>2 DEF KnownTxs
  <2> QED BY <1>1, <2>1, <2>3
<1>6. CASE Rests
  <2>1. KnownTxs' = KnownTxs
    BY <1>6 DEF Rests, KnownTxs
  <2>2. CASE UNCHANGED <<capturePos, pending>>
    BY <1>1, <2>1, <2>2
  <2>3. ASSUME NEW t \in Tx, HandleCapture(t) PROVE Kept'
    <3>1. /\ capturePos' = [capturePos EXCEPT ![t] = @ + 1]
          /\ capturePos[t] < Len(captureLog[t]) /\ captureLog' = captureLog
          /\ pending \subseteq pending'
          /\ captureLog[t][capturePos[t] + 1] = "capture_succeeded"
                => t \in pending' \cup KnownTxs
      BY <2>3 DEF HandleCapture, Accepts, topics
    <3>2. \A r \in Tx : capturePos'[r] <= Len(captureLog'[r])
      BY <1>0, <3>1 DEF Kept, TypeOK
    <3>3. ASSUME NEW r \in Tx, NEW i \in 1..capturePos'[r],
                 captureLog[r][i] = "capture_succeeded"
          PROVE  r \in pending' \cup KnownTxs
      <4>1. CASE r = t /\ i = capturePos[t] + 1
        BY <3>1, <3>3, <4>1
      <4>2. CASE ~ (r = t /\ i = capturePos[t] + 1)
        <5>1. i \in 1..capturePos[r]
          BY <1>0, <3>1, <4>2 DEF TypeOK
        <5> QED BY <3>1, <3>3, <5>1 DEF Kept, NoCaptureLost
      <4> QED BY <4>1, <4>2
    <3> QED BY <2>1, <3>1, <3>2, <3>3 DEF Kept, NoCaptureLost
  <2> QED BY <1>6, <2>2, <2>3 DEF Rests
<1> QED BY <1>2, <1>3, <1>4, <1>5, <1>6, StepKinds

-----------------------------------------------------------------------------
(* Outcomes. *)

\* A batch that is still published is unfinished and has no outcome.
LEMMA PublishedIsOpen ==
    ASSUME IInv, Outcomes, NEW u \in starting \cup in_flight
    PROVE  u \in Uid /\ batches[u].status \in Unfinished /\ ~ HasOutcome(u)
<1>1. u \in Uid /\ batches[u].status \in Unfinished
  BY DEF Outcomes, IInv, TypeOK
<1>2. startup_replay_complete
  BY DEF IInv, Control, Outcomes
<1>3. batches[u].status \notin Terminal
  BY <1>1 DEF Unfinished, Terminal
<1> QED BY <1>1, <1>2, <1>3 DEF Outcomes

LEMMA PublishKeepsOutcomes ==
    ASSUME IInv, TypeOK', Outcomes, NEW u \in Uid, NEW b \in Batch, Publishes(u, b)
    PROVE  Outcomes'
<1>1. u \in starting \cup in_flight /\ Publish(u, b)
  BY DEF Publishes
<1>2. batches[u].status \in Unfinished /\ ~ HasOutcome(u)
  BY <1>1, PublishedIsOpen
<1>3. /\ \A v \in Uid : v # u => /\ batchLog'[v] = batchLog[v]
                                 /\ Events(v)' = Events(v)
                                 /\ HasOutcome(v)' = HasOutcome(v)
                                 /\ batches'[v] = batches[v]
      /\ batchPos' = batchPos
      /\ startup_replay_complete' = startup_replay_complete
  BY PublishedEvents DEF Publishes, HasOutcome, positions
<1>4. /\ \A e \in Events(u)' : e \in Events(u) \/ e = b
      /\ Len(batchLog'[u]) >= Len(batchLog[u])
  BY PublishedEvents
<1>5. /\ batchLog'[u] = batchLog[u] \/ batchLog'[u][Len(batchLog'[u])] = b
      /\ \A i \in 1..Len(batchLog[u]) : batchLog'[u][i] = batchLog[u][i]
  BY <1>1, PublishedLast DEF IInv
<1>6. \A e \in Events(u)' : e.status \in Terminal => e = b
  BY <1>2, <1>4 DEF HasOutcome
<1>7. \/ b.status \notin Terminal /\ batches'[u].status \in Unfinished
      \/ b.status \in Terminal /\ batches'[u] = b
  BY <1>2 DEF Publishes, Unfinished, Terminal
<1>8. \A v \in Uid : Len(batchLog[v]) \in Nat /\ batchPos[v] \in Nat /\ Len(batchLog'[v]) \in Nat
  BY DEF IInv, TypeOK
<1>9. \A v \in Uid : batchPos'[v] <= Len(batchLog'[v])
  BY <1>3, <1>4, <1>8 DEF Outcomes
<1>10. \A v \in Uid : \A i \in 1..batchPos'[v] :
          batchLog'[v][i].status \in Terminal => batches'[v].status \in Terminal
  <2>1. \A i \in 1..batchPos[u] : i \in 1..Len(batchLog[u]) /\ batchLog[u][i] \in Events(u)
    BY <1>8 DEF Outcomes, Events
  <2>2. \A i \in 1..batchPos[u] : batchLog'[u][i].status \notin Terminal
    BY <1>2, <1>5, <2>1 DEF HasOutcome
  <2> QED BY <1>3, <2>2 DEF Outcomes
<1>11. startup_replay_complete' =>
          \A v \in Uid : HasOutcome(v)' => batches'[v].status \in Terminal
  BY <1>3, <1>6, <1>7 DEF Outcomes, HasOutcome
<1>12. /\ \A v \in starting' \cup in_flight' : batches'[v].status \in Unfinished
       /\ starting' # {} => pc' \in {"ready", "processing"}
  <2>1. CASE b.status \in Terminal
    <3>1. /\ pc = "poll" /\ starting' = starting /\ in_flight' = in_flight \ {u} /\ pc' = pc
      BY <1>2, <2>1 DEF Publishes, Unfinished, Terminal
    <3>2. starting' = {}
      BY <3>1 DEF Outcomes
    <3> QED BY <1>3, <3>1, <3>2 DEF Outcomes, IInv, TypeOK
  <2>2. CASE b.status \notin Terminal
    <3>1. /\ starting' \cup in_flight' \subseteq starting \cup in_flight
          /\ starting' # {} => pc' = "processing"
          /\ batches'[u].status \in Unfinished
      BY <1>7, <2>2 DEF Publishes
    <3>2. \A v \in starting \cup in_flight : v \in Uid
      BY DEF IInv, TypeOK
    <3> QED BY <1>3, <3>1, <3>2 DEF Outcomes
  <2> QED BY <2>1, <2>2
<1>13. \A v \in Uid : batches'[v].status \in Terminal =>
          \A e \in Events(v)' : e.status \in Terminal => e.status = batches'[v].status
  <2>1. batches'[u].status \in Terminal => batches'[u] = b
    BY <1>7 DEF Unfinished, Terminal
  <2> QED BY <1>3, <1>6, <2>1 DEF Outcomes
<1>14. \A v \in Uid : \A d, e \in Events(v)' :
          d.status \in Terminal /\ e.status \in Terminal => d.status = e.status
  BY <1>3, <1>6 DEF Outcomes
<1>15. \A v \in Uid : HasOutcome(v)' => batchLog'[v][Len(batchLog'[v])].status \in Terminal
  <2>1. HasOutcome(u)' => b.status \in Terminal /\ batchLog'[u] # batchLog[u]
    BY <1>2, <1>6 DEF HasOutcome, Events
  <2> QED BY <1>3, <1>5, <2>1 DEF Outcomes
<1> QED BY <1>9, <1>10, <1>11, <1>12, <1>13, <1>14, <1>15 DEF Outcomes

LEMMA ReadKeepsOutcomes ==
    ASSUME IInv, TypeOK', Outcomes, NEW u \in Uid, ReconcileSettlementEvent(u)
    PROVE  Outcomes'
<1> DEFINE e == batchLog[u][batchPos[u] + 1]
<1>1. /\ e \in Events(u) /\ e \in Batch /\ e.status # "absent"
      /\ \/ batches'[u] = e /\ (e.status \notin Terminal => batches[u].status \notin Terminal)
         \/ batches'[u] = batches[u] /\ e.status \notin Terminal
      /\ \A v \in Uid : v # u => batches'[v] = batches[v]
      /\ \A v \in Uid : Events(v)' = Events(v)
      /\ batchPos' = [batchPos EXCEPT ![u] = @ + 1]
      /\ batchPos[u] + 1 \in 1..Len(batchLog[u])
      /\ UNCHANGED <<batchLog, pc, startup_replay_complete, starting, in_flight>>
  BY ReadProperties
<1>2. pc = "poll"
  BY DEF ReconcileSettlementEvent
<1>3. \A v \in Uid : HasOutcome(v)' = HasOutcome(v)
  BY <1>1 DEF HasOutcome
<1>4. \A v \in Uid : Len(batchLog[v]) \in Nat /\ batchPos[v] \in Nat
  BY DEF IInv, TypeOK
<1>5. /\ batchPos'[u] = batchPos[u] + 1
      /\ \A v \in Uid : v # u => batchPos'[v] = batchPos[v]
  BY <1>1 DEF IInv, TypeOK
<1>6. /\ e.status \in Terminal => batches'[u].status \in Terminal
      /\ \A v \in Uid : batches[v].status \in Terminal => batches'[v].status \in Terminal
  BY <1>1
<1>7. \A v \in Uid : batchPos'[v] <= Len(batchLog'[v])
  BY <1>1, <1>4, <1>5 DEF Outcomes
<1>8. \A v \in Uid : \A i \in 1..batchPos'[v] :
         batchLog[v][i].status \in Terminal => batches'[v].status \in Terminal
  <2> SUFFICES ASSUME NEW v \in Uid, NEW i \in 1..batchPos'[v],
                      batchLog[v][i].status \in Terminal
               PROVE  batches'[v].status \in Terminal
    OBVIOUS
  <2>1. CASE v = u /\ i = batchPos[u] + 1
    BY <1>6, <2>1
  <2>2. CASE ~ (v = u /\ i = batchPos[u] + 1)
    <3>1. i \in 1..batchPos[v]
      BY <1>4, <1>5, <2>2
    <3> QED BY <1>6, <3>1 DEF Outcomes
  <2> QED BY <2>1, <2>2
<1>9. startup_replay_complete' =>
          \A v \in Uid : HasOutcome(v)' => batches'[v].status \in Terminal
  BY <1>1, <1>3, <1>6 DEF Outcomes
<1>10. /\ \A v \in starting' \cup in_flight' : batches'[v].status \in Unfinished
       /\ starting' = {}
  <2>1. starting = {}
    BY <1>2 DEF Outcomes
  <2>2. ASSUME u \in in_flight PROVE batches'[u].status \in Unfinished
    <3>1. batches[u].status \in Unfinished /\ ~ HasOutcome(u)
      BY <2>2, PublishedIsOpen
    <3>2. e.status \notin Terminal
      BY <1>1, <3>1 DEF HasOutcome
    <3>3. e.status \in Unfinished
      BY <1>1, <3>2 DEF Batch
    <3> QED BY <1>1, <3>1, <3>3
  <2>3. in_flight \subseteq Uid
    BY DEF IInv, TypeOK
  <2> QED BY <1>1, <2>1, <2>2, <2>3 DEF Outcomes
<1>11. \A v \in Uid : batches'[v].status \in Terminal =>
          \A d \in Events(v) : d.status \in Terminal => d.status = batches'[v].status
  BY <1>1 DEF Outcomes
<1> QED BY <1>1, <1>3, <1>7, <1>8, <1>9, <1>10, <1>11 DEF Outcomes

LEMMA StepOutcomes ==
    ASSUME IInv, TypeOK', [Next]_vars, Outcomes
    PROVE  Outcomes'
<1>1. CASE Forgets
  <2>1. /\ \A u \in Uid : /\ batchPos'[u] = 0 /\ Events(u)' = Events(u)
                          /\ batches'[u].status \notin Unfinished \cup Terminal
        /\ starting' = {} /\ in_flight' = {} /\ ~ startup_replay_complete'
        /\ batchLog' = batchLog
    BY <1>1, ForgottenEvents DEF topics
  <2>2. \A u \in Uid : HasOutcome(u)' = HasOutcome(u)
    BY <2>1 DEF HasOutcome
  <2>3. \A u \in Uid : 0 <= Len(batchLog[u])
    BY DEF IInv, TypeOK
  <2> QED BY <2>1, <2>2, <2>3 DEF Outcomes
<1>2. ASSUME NEW u \in Uid, NEW S \in SUBSET pending, Makes(u, S)
      PROVE  Outcomes'
  <2>1. /\ \A v \in Uid : Events(v)' = Events(v)
        /\ Events(u) = {} /\ batches'[u].status = "ready" /\ ~ Known(u)
        /\ \A v \in Uid : v # u => batches'[v] = batches[v]
        /\ starting' = {u} /\ pc' = "ready" /\ pc = "poll"
        /\ UNCHANGED <<batchLog, batchPos, startup_replay_complete, in_flight>>
    BY <1>2, MadeEvents
  <2>2. /\ \A v \in Uid : HasOutcome(v)' = HasOutcome(v)
        /\ ~ HasOutcome(u)
    BY <2>1 DEF HasOutcome
  <2>3. "ready" \in Unfinished /\ "ready" \notin Terminal
    BY DEF Unfinished, Terminal
  <2>4. batchPos[u] = 0
    BY <2>1 DEF IInv, Coverage, TypeOK
  <2>5. in_flight \subseteq Uid
    BY DEF IInv, TypeOK
  <2> QED BY <2>1, <2>2, <2>3, <2>4, <2>5 DEF Outcomes
<1>3. ASSUME NEW u \in Uid, NEW b \in Batch, Publishes(u, b)
      PROVE  Outcomes'
  BY <1>3, PublishKeepsOutcomes
<1>4. ASSUME NEW u \in Uid, ReconcileSettlementEvent(u)
      PROVE  Outcomes'
  BY <1>4, ReadKeepsOutcomes
<1>5. CASE Rests
  <2>1. /\ UNCHANGED <<batchLog, batchPos, batches, starting>>
        /\ \A u \in Uid : Events(u)' = Events(u) /\ HasOutcome(u)' = HasOutcome(u)
        /\ pc' = pc \/ pc = "down"
    BY <1>5 DEF Rests, Events, HasOutcome
  <2>2. CASE UNCHANGED <<startup_replay_complete, in_flight>>
    BY <2>1, <2>2 DEF Outcomes
  <2>3. CASE FinishReplay
    <3>1. in_flight' = Resumable /\ \A u \in Uid : batchPos[u] = Len(batchLog[u])
      BY <2>3 DEF FinishReplay, replay_caught_up
    <3>2. \A u \in Uid : HasOutcome(u) => batches[u].status \in Terminal
      BY <3>1 DEF HasOutcome, Events, Outcomes
    <3>3. \A u \in Resumable : batches[u].status \in Unfinished
      BY DEF Resumable
    <3> QED BY <2>1, <3>1, <3>2, <3>3 DEF Outcomes
  <2> QED BY <1>5, <2>2, <2>3 DEF Rests
<1> QED BY <1>1, <1>2, <1>3, <1>4, <1>5, StepKinds

-----------------------------------------------------------------------------
(* The theorems. *)

LEMMA InitLedgerInv == Init => LedgerInv
<1> SUFFICES ASSUME Init PROVE LedgerInv
  OBVIOUS
<1>1. TypeOK /\ IInv
  BY InitTypeOK, InitIInv
<1>2. /\ \A u \in Uid : batchLog[u] = <<>> /\ batches[u] = NoBatch /\ batchPos[u] = 0
      /\ \A t \in Tx : capturePos[t] = 0
      /\ pending = {} /\ starting = {} /\ in_flight = {} /\ ~ startup_replay_complete
  BY DEF Init
<1>3. \A u \in Uid : Events(u) = {} /\ ~ Known(u) /\ batches[u].status = "absent"
  BY <1>1, <1>2, OnTopicIffEvents DEF OnTopic, Known, NoBatch
<1>4. \A u \in Uid : 0 <= Len(batchLog[u])
  BY <1>1 DEF TypeOK
<1>5. \A t \in Tx : 0 <= Len(captureLog[t])
  BY <1>1 DEF TypeOK
<1>6. Numbered
  BY <1>3 DEF Numbered, UniqueBatchIndex
<1>7. Exact
  BY <1>2, <1>3 DEF Exact, SizesAllowed
<1>8. Kept
  BY <1>2, <1>5 DEF Kept, NoCaptureLost
<1>9. Outcomes
  BY <1>2, <1>3, <1>4 DEF Outcomes, HasOutcome, Terminal
<1>10. Sized
  BY <1>2 DEF Sized
<1> QED BY <1>6, <1>7, <1>8, <1>9, <1>10 DEF LedgerInv

\* The inductive invariant holds in every reachable state: batches in memory, on settlement.events and between the two have
\* one number each, transactions of a batch size that were captured, and at most one outcome (SettlementBatcher, main.py).
THEOREM LedgerInductive == Spec => [](IInv /\ LedgerInv)
<1>1. IInv /\ LedgerInv /\ [Next]_vars => (IInv /\ LedgerInv)'
  <2> SUFFICES ASSUME IInv, LedgerInv, [Next]_vars PROVE IInv' /\ LedgerInv'
    OBVIOUS
  <2>1. IInv' /\ TypeOK'
    BY StepIInv DEF IInv
  <2> QED BY <2>1, StepNumbered, StepExact, StepKept, StepOutcomes, StepSized DEF LedgerInv
<1> QED BY <1>1, InitIInv, InitLedgerInv, PTL DEF Spec

\* Two batches on settlement.events never carry the same number: the replay
\* gives back the counter that a restart loses (main.py:37, settlement.py:137).
THEOREM UniqueBatchIndexHolds == Spec => []UniqueBatchIndex
<1>1. LedgerInv => UniqueBatchIndex
  BY DEF LedgerInv, Numbered
<1> QED BY <1>1, LedgerInductive, PTL

\* A final capture that was read is queued or in a batch in memory.
THEOREM NoCaptureLostHolds == Spec => []NoCaptureLost
<1>1. LedgerInv => NoCaptureLost
  BY DEF LedgerInv, Kept
<1> QED BY <1>1, LedgerInductive, PTL

\* Once the replay is complete the memory holds every batch of the topic.
THEOREM MemoryCoversTopicHolds == Spec => []MemoryCoversTopic
<1>1. IInv /\ LedgerInv => MemoryCoversTopic
  BY OnTopicIffEvents
  DEF IInv, Agreement, Coverage, LedgerInv, Numbered, MemoryCoversTopic
<1> QED BY <1>1, LedgerInductive, PTL

\* A record that is published is the batch in memory of the present size.
LEMMA StepExactRecord ==
    ASSUME IInv, TypeOK', LedgerInv, [Next]_vars, NEW u \in Uid, batchLog'[u] # batchLog[u]
    PROVE  LET e == batchLog'[u][Len(batchLog'[u])]
           IN  Cardinality(e.txs) = batch_size /\ e.txs \subseteq Captured
<1>0. TypeOK
  BY DEF IInv
<1>1. ASSUME NEW v \in Uid, NEW b \in Batch, Publish(v, b), b.txs = batches[v].txs,
             Known(v), Cardinality(batches[v].txs) = batch_size
      PROVE  LET e == batchLog'[u][Len(batchLog'[u])]
             IN  Cardinality(e.txs) = batch_size /\ e.txs \subseteq Captured
  <2>1. u = v
    BY <1>0, <1>1, PublishProperties
  <2>2. batchLog'[v][Len(batchLog'[v])] = b
    BY <1>0, <1>1, <2>1, PublishedLast
  <2> QED BY <1>1, <2>1, <2>2 DEF LedgerInv, Exact
<1>2. ASSUME NEW v \in Uid, PublishReady(v) \/ PublishProcessing(v)
      PROVE  /\ Publish(v, batches[v]) /\ batches[v] \in Batch /\ Known(v)
             /\ Cardinality(batches[v].txs) = batch_size
  BY <1>0, <1>2 DEF PublishReady, PublishProcessing, TypeOK, IInv, Control, LedgerInv, Sized
<1>3. ASSUME NEW v \in Uid, CompleteBatch(v)
      PROVE  \E b \in Batch : /\ Publish(v, b) /\ b.txs = batches[v].txs /\ Known(v)
                             /\ Cardinality(batches[v].txs) = batch_size
  <2> DEFINE done == [batches[v] EXCEPT !.status = outcome_for_index(batches[v].seq)]
  <2>1. /\ Publish(v, done) /\ Known(v) /\ Cardinality(batches[v].txs) = batch_size
    BY <1>3 DEF CompleteBatch, IInv, Control
  <2>2. done \in Batch /\ done.txs = batches[v].txs
    <3>1. batches[v] \in Batch /\ outcome_for_index(batches[v].seq) \in Terminal
      BY <1>0, OutcomeIsTerminal DEF TypeOK
    <3> QED BY <3>1 DEF Batch, Terminal
  <2> QED BY <2>1, <2>2
<1>4. \E v \in Uid : PublishReady(v) \/ PublishProcessing(v) \/ CompleteBatch(v)
  BY DEF Next, Service, Capture, HandleCapture, ReconcileSettlementEvent, StartReadyBatch,
         AbortOnSize, FinishReplay, Restart, Crash, Reconfigure, topics, vars
<1> QED BY <1>1, <1>2, <1>3, <1>4

\* Every event published is about a batch of the size in force, all of it finally
\* captured (common/settlement.py:86-124).
THEOREM BatchesAreExactHolds == Spec => BatchesAreExact
<1>1. IInv /\ IInv' /\ LedgerInv /\ [Next]_vars
        => [\A u \in Uid : batchLog'[u] # batchLog[u] =>
               LET e == batchLog'[u][Len(batchLog'[u])]
               IN  Cardinality(e.txs) = batch_size /\ e.txs \subseteq Captured]_vars
  BY StepExactRecord DEF IInv
<1> QED BY <1>1, LedgerInductive, PTL DEF Spec, BatchesAreExact

\* Nothing about a batch is published after its outcome.
LEMMA StepSettledOnce ==
    ASSUME IInv, TypeOK', LedgerInv, [Next]_vars, NEW u \in Uid, HasOutcome(u)
    PROVE  batchLog'[u] = batchLog[u]
<1>1. ASSUME NEW v \in Uid, NEW b \in Batch, Publishes(v, b)
      PROVE  batchLog'[u] = batchLog[u]
  <2>1. ~ HasOutcome(v)
    BY <1>1, PublishedIsOpen DEF Publishes, LedgerInv
  <2> QED BY <1>1, <2>1, PublishedEvents
<1>2. ASSUME NEW v \in Uid, NEW S \in SUBSET pending, Makes(v, S)
      PROVE  batchLog'[u] = batchLog[u]
  BY <1>2 DEF Makes, topics
<1>3. ASSUME NEW v \in Uid, ReconcileSettlementEvent(v)
      PROVE  batchLog'[u] = batchLog[u]
  BY <1>3 DEF ReconcileSettlementEvent, topics
<1>4. Forgets \/ Rests => batchLog'[u] = batchLog[u]
  BY DEF Forgets, Rests, topics
<1> QED BY <1>1, <1>2, <1>3, <1>4, StepKinds

\* After an outcome of a batch is on the topic nothing more about that batch is
\* published, in this life of the process or a later one (main.py:165-182).
THEOREM SettledOnceHolds == Spec => SettledOnce
<1>1. IInv /\ IInv' /\ LedgerInv /\ [Next]_vars
        => [\A u \in Uid : HasOutcome(u) => batchLog'[u] = batchLog[u]]_vars
  BY StepSettledOnce DEF IInv
<1> QED BY <1>1, LedgerInductive, PTL DEF Spec, SettledOnce

\* A finished batch in memory is replaced by nothing but the same outcome.
LEMMA StepOutcomeSticks ==
    ASSUME IInv, TypeOK', LedgerInv, [Next]_vars, NEW u \in Uid,
           batches[u].status \in Terminal
    PROVE  batches'[u].status \in {batches[u].status, "absent"}
<1>1. CASE Forgets
  BY <1>1 DEF Forgets, LoseMemory, NoBatch
<1>2. ASSUME NEW v \in Uid, NEW S \in SUBSET pending, Makes(v, S)
      PROVE  batches'[u] = batches[u]
  <2>1. ~ Known(v) /\ \A w \in Uid : w # v => batches'[w] = batches[w]
    BY <1>2, MadeEvents
  <2>2. Known(u)
    BY DEF Known, Terminal
  <2> QED BY <2>1, <2>2
<1>3. ASSUME NEW v \in Uid, NEW b \in Batch, Publishes(v, b)
      PROVE  batches'[u] = batches[u]
  <2>1. batches[v].status \in Unfinished
    BY <1>3, PublishedIsOpen DEF Publishes, LedgerInv
  <2>2. u # v
    BY <2>1 DEF Unfinished, Terminal
  <2> QED BY <1>3, <2>2 DEF Publishes
<1>4. ASSUME NEW v \in Uid, ReconcileSettlementEvent(v)
      PROVE  batches'[u].status = batches[u].status
  <2> DEFINE e == batchLog[v][batchPos[v] + 1]
  <2>1. /\ e \in Events(v)
        /\ \/ batches'[v] = e /\ (e.status \notin Terminal => batches[v].status \notin Terminal)
           \/ batches'[v] = batches[v]
        /\ \A w \in Uid : w # v => batches'[w] = batches[w]
    BY <1>4, ReadProperties
  <2> QED BY <2>1 DEF LedgerInv, Outcomes
<1>5. CASE Rests
  BY <1>5 DEF Rests
<1> QED BY <1>1, <1>2, <1>3, <1>4, <1>5, StepKinds

\* A finished batch stays finished in memory until the process ends, though its
\* own older events are still to be consumed (main.py:42).
THEOREM OutcomeSticksHolds == Spec => OutcomeSticks
<1>1. IInv /\ IInv' /\ LedgerInv /\ [Next]_vars
        => [\A u \in Uid : batches[u].status \in Terminal =>
               batches'[u].status \in {batches[u].status, "absent"}]_vars
  BY StepOutcomeSticks DEF IInv
<1> QED BY <1>1, LedgerInductive, PTL DEF Spec, OutcomeSticks

-----------------------------------------------------------------------------
(* The service implements SettlementLedger: publishing the first event of a  *)
(* batch posts it, publishing its outcome after that closes it, a successful *)
(* capture captures, and every other step stutters.                          *)

\* The postings depend on the topic alone.
LEMMA PostedStutters ==
    ASSUME batchLog' = batchLog
    PROVE  Posted' = Posted
BY DEF Posted, OnTopic, HasOutcome, Events

LEMMA CapturedStutters ==
    ASSUME captureLog' = captureLog
    PROVE  Captured' = Captured
BY DEF Captured

LEMMA CaptureImplements ==
    ASSUME TypeOK, NEW t \in Tx, NEW kind \in CaptureKinds, Capture(t, kind)
    PROVE  Ledger!Capture(t) \/ (Captured' = Captured /\ Posted' = Posted)
<1>1. /\ captureLog[t] \in Seq(CaptureKinds)
      /\ captureLog'[t] = Append(captureLog[t], kind)
      /\ \A r \in Tx : r # t => captureLog'[r] = captureLog[r]
      /\ batchLog' = batchLog
  BY DEF Capture, TypeOK
<1>2. Posted' = Posted
  BY <1>1, PostedStutters
<1>3. \A r \in Tx : r # t => (r \in Captured' <=> r \in Captured)
  BY <1>1 DEF Captured
<1> DEFINE n == Len(captureLog[t])
<1>4. /\ n \in Nat /\ Len(captureLog'[t]) = n + 1
      /\ captureLog'[t][n + 1] = kind
      /\ \A i \in 1..n : captureLog'[t][i] = captureLog[t][i]
  BY <1>1, AppendProperties
<1>5. t \in Captured' <=> t \in Captured \/ kind = "capture_succeeded"
  <2>1. 1..n + 1 = (1..n) \cup {n + 1}
    BY <1>4
  <2>2. (\E i \in 1..n + 1 : captureLog'[t][i] = "capture_succeeded")
          <=> (\E i \in 1..n : captureLog[t][i] = "capture_succeeded")
              \/ kind = "capture_succeeded"
    BY <1>4, <2>1
  <2> QED BY <1>4, <2>2 DEF Captured
<1>6. Captured \subseteq Tx /\ Captured' \subseteq Tx
  BY DEF Captured
<1>7. CASE kind = "capture_succeeded"
  <2>1. Captured' = Captured \cup {t}
    BY <1>3, <1>5, <1>6, <1>7
  <2> QED BY <1>2, <2>1 DEF Ledger!Capture
<1>8. CASE kind # "capture_succeeded"
  <2>1. Captured' = Captured
    BY <1>3, <1>5, <1>6, <1>8
  <2> QED BY <1>2, <2>1
<1> QED BY <1>7, <1>8

LEMMA PublishImplements ==
    ASSUME IInv, TypeOK', LedgerInv, NEW u \in Uid, NEW b \in Batch, Publishes(u, b)
    PROVE  \/ \E S \in SUBSET Tx, state \in {"open"} \cup Ledger!Closed : Ledger!Post(u, S, state)
           \/ \E outcome \in Ledger!Closed : Ledger!Close(u, outcome)
           \/ Captured' = Captured /\ Posted' = Posted
<1>1. /\ \A v \in Uid : v # u => batchLog'[v] = batchLog[v] /\ Events(v)' = Events(v)
      /\ \A e \in Events(u)' : e \in Events(u) \/ e = b
      /\ Events(u) \subseteq Events(u)'
  BY PublishedEvents
<1>2. /\ Publish(u, b) /\ b.txs = batches[u].txs /\ Known(u) /\ captureLog' = captureLog
      /\ u \in starting \cup in_flight /\ startup_replay_complete /\ b.status # "absent"
  BY DEF Publishes
<1>3. TypeOK
  BY DEF IInv
<1>4. Captured' = Captured
  BY <1>2, CapturedStutters
<1>5. ~ HasOutcome(u)
  BY <1>2, PublishedIsOpen DEF LedgerInv
<1>6. CASE batchLog'[u] = batchLog[u]
  <2>1. batchLog' = batchLog
    BY <1>1, <1>3, <1>6 DEF TypeOK
  <2> QED BY <1>4, <2>1, PostedStutters
<1>7. CASE batchLog'[u] # batchLog[u]
  <2>1. b \in Events(u)' /\ batchLog'[u][Len(batchLog'[u])] = b
    BY <1>2, <1>3, <1>7, PublishedLast
  <2>2. OnTopic(u)'
    <3>1. batchLog'[u] \in Seq(Batch) /\ b \in {batchLog'[u][i] : i \in 1..Len(batchLog'[u])}
      BY <2>1 DEF TypeOK, Events
    <3> QED BY <3>1, EmptySeq DEF OnTopic
  <2>3. \A e \in Events(u) : e.txs = b.txs
    BY <1>2 DEF IInv, Agreement
  <2>4. Posted'[u].txs = b.txs
    <3>1. UNION {e.txs : e \in Events(u)'} = b.txs
      BY <1>1, <2>1, <2>3
    <3> QED BY <3>1 DEF Posted
  <2>5. Posted'[u].state = IF b.status \in Terminal THEN b.status ELSE "open"
    <3>1. HasOutcome(u)' <=> b.status \in Terminal
      BY <1>1, <1>5, <2>1 DEF HasOutcome
    <3> QED BY <2>1, <2>2, <3>1 DEF Posted
  <2>6. /\ Posted = [v \in Uid |-> Posted[v]]
        /\ Posted' = [v \in Uid |-> Posted'[v]]
        /\ Posted'[u] = [txs |-> Posted'[u].txs, state |-> Posted'[u].state]
        /\ \A v \in Uid : v # u => Posted'[v] = Posted[v]
    <3>1. \A v \in Uid : v # u => Posted'[v] = Posted[v]
      BY <1>1 DEF Posted, OnTopic, HasOutcome
    <3>2. Posted = [v \in Uid |-> Posted[v]] /\ Posted' = [v \in Uid |-> Posted'[v]]
      BY DEF Posted
    <3>3. Posted'[u] = [txs |-> Posted'[u].txs, state |-> Posted'[u].state]
      BY DEF Posted
    <3> QED BY <3>1, <3>2, <3>3
  <2>7. CASE OnTopic(u)
    <3>1. PICK e \in Events(u) : TRUE
      BY <1>3, <2>7, OnTopicIffEvents
    <3>2. UNION {d.txs : d \in Events(u)} = b.txs
      BY <2>3, <3>1
    <3>3. Posted[u] = [txs |-> b.txs, state |-> "open"]
      BY <1>5, <2>7, <3>2 DEF Posted
    <3>4. CASE b.status \in Terminal
      <4>1. Posted'[u] = [Posted[u] EXCEPT !.state = b.status]
        BY <2>4, <2>5, <2>6, <3>3, <3>4
      <4>2. Posted' = [Posted EXCEPT ![u].state = b.status]
        BY <2>6, <4>1
      <4>3. Ledger!Close(u, b.status)
        BY <1>4, <3>3, <4>2 DEF Ledger!Close
      <4> QED BY <3>4, <4>3 DEF Ledger!Closed, Terminal
    <3>5. CASE b.status \notin Terminal
      <4>1. Posted'[u] = Posted[u]
        BY <2>4, <2>5, <2>6, <3>3, <3>5
      <4>2. Posted' = Posted
        BY <2>6, <4>1
      <4> QED BY <1>4, <4>2
    <3> QED BY <3>4, <3>5
  <2>8. CASE ~ OnTopic(u)
    <3>1. Posted[u].state = "none" /\ Posted[u].txs = {}
      <4>1. Events(u) = {}
        BY <1>3, <2>8, OnTopicIffEvents
      <4>2. UNION {e.txs : e \in Events(u)} = {}
        BY <4>1
      <4> QED BY <2>8, <4>2 DEF Posted
    <3>2. b.txs \subseteq Captured /\ Cardinality(b.txs) \in BatchSizes
      BY <1>2 DEF LedgerInv, Exact
    <3>3. \A v \in Uid : Posted[v].txs \cap b.txs = {}
      <4> SUFFICES ASSUME NEW v \in Uid, v # u PROVE Posted[v].txs \cap b.txs = {}
        BY <3>1
      <4>1. \A e \in Events(v) : e.txs \cap b.txs = {}
        <5>1. \A e \in Events(v) : Known(v)
          BY PublishedEvents
        <5>2. \A e \in Events(v) : e.txs = batches[v].txs
          BY <5>1 DEF IInv, Agreement
        <5> QED BY <1>2, <5>2 DEF IInv, Apart
      <4> QED BY <4>1 DEF Posted
    <3>4. b.txs \subseteq Captured \ Ledger!Claimed
      BY <3>2, <3>3 DEF Ledger!Claimed
    <3>5. Posted' = [Posted EXCEPT ![u] = [txs |-> b.txs, state |-> Posted'[u].state]]
      BY <2>4, <2>6
    <3>6. Ledger!Post(u, b.txs, Posted'[u].state)
      <4>1. Ledger!Cardinality(b.txs) = Cardinality(b.txs)
        BY DEF Ledger!Cardinality, Cardinality
      <4> QED BY <1>4, <3>1, <3>2, <3>4, <3>5, <4>1 DEF Ledger!Post
    <3>7. Posted'[u].state \in {"open"} \cup Ledger!Closed /\ b.txs \in SUBSET Tx
      BY <2>5 DEF Ledger!Closed, Terminal, Batch
    <3> QED BY <3>6, <3>7
  <2> QED BY <2>7, <2>8
<1> QED BY <1>6, <1>7

LEMMA StepImplements ==
    ASSUME IInv, TypeOK', LedgerInv, [Next]_vars
    PROVE  [Ledger!Next]_(Ledger!vars)
<1>1. ASSUME NEW t \in Tx, NEW kind \in CaptureKinds, Capture(t, kind)
      PROVE  [Ledger!Next]_(Ledger!vars)
  <2>1. Ledger!Capture(t) \/ (Captured' = Captured /\ Posted' = Posted)
    BY <1>1, CaptureImplements DEF IInv
  <2> QED BY <2>1 DEF Ledger!Next, Ledger!vars
<1>2. ASSUME NEW u \in Uid, NEW b \in Batch, Publishes(u, b)
      PROVE  [Ledger!Next]_(Ledger!vars)
  <2>1. \/ \E S \in SUBSET Tx, state \in {"open"} \cup Ledger!Closed : Ledger!Post(u, S, state)
        \/ \E outcome \in Ledger!Closed : Ledger!Close(u, outcome)
        \/ Captured' = Captured /\ Posted' = Posted
    BY <1>2, PublishImplements
  <2> QED BY <2>1 DEF Ledger!Next, Ledger!vars
<1>3. ASSUME captureLog' = captureLog, batchLog' = batchLog
      PROVE  [Ledger!Next]_(Ledger!vars)
  BY <1>3, CapturedStutters, PostedStutters DEF Ledger!vars
<1>4. ASSUME NEW u \in Uid, NEW S \in SUBSET pending, Makes(u, S)
      PROVE  [Ledger!Next]_(Ledger!vars)
  BY <1>3, <1>4 DEF Makes, topics
<1>5. ASSUME NEW u \in Uid, ReconcileSettlementEvent(u)
      PROVE  [Ledger!Next]_(Ledger!vars)
  BY <1>3, <1>5 DEF ReconcileSettlementEvent, topics
<1>6. CASE Forgets
  BY <1>3, <1>6 DEF Forgets, topics
<1>7. CASE Rests
  <2>1. batchLog' = batchLog
    BY <1>7 DEF Rests
  <2>2. captureLog' = captureLog \/ \E t \in Tx, kind \in CaptureKinds : Capture(t, kind)
    BY DEF Next, Service, vars, HandleCapture, ReconcileSettlementEvent,
       StartReadyBatch, PublishReady, PublishProcessing, CompleteBatch, AbortOnSize,
       FinishReplay, Restart, Crash, Reconfigure, topics
  <2> QED BY <1>1, <1>3, <2>1, <2>2
<1> QED BY <1>2, <1>4, <1>5, <1>6, <1>7, StepKinds

LEMMA InitImplements == Init => Ledger!Init
<1> SUFFICES ASSUME Init PROVE Ledger!Init
  OBVIOUS
<1>1. TypeOK /\ \A u \in Uid : batchLog[u] = <<>>
  BY InitTypeOK DEF Init
<1>2. \A u \in Uid : Events(u) = {} /\ ~ OnTopic(u)
  BY <1>1, OnTopicIffEvents DEF OnTopic
<1>3. Posted = [u \in Uid |-> [txs |-> {}, state |-> "none"]]
  <2>1. \A u \in Uid : UNION {e.txs : e \in Events(u)} = {}
    BY <1>2
  <2> QED BY <1>2, <2>1 DEF Posted
<1>4. Captured = {}
  <2>1. \A t \in Tx : captureLog[t] = <<>>
    BY DEF Init
  <2>2. \A t \in Tx : Len(captureLog[t]) = 0
    BY <2>1
  <2>3. \A t \in Tx : ~ \E i \in 1..Len(captureLog[t]) : captureLog[t][i] = "capture_succeeded"
    BY <2>2
  <2> QED BY <2>3 DEF Captured
<1> QED BY <1>3, <1>4 DEF Ledger!Init, Ledger!None

\* The service implements SettlementLedger: a reader of settlement.events may
\* take it for a ledger in which batches are posted with captured transactions
\* of no other batch and closed once.
THEOREM ImplementsLedgerHolds == Spec => ImplementsLedger
<1>1. IInv /\ IInv' /\ LedgerInv /\ [Next]_vars => [Ledger!Next]_(Ledger!vars)
  BY StepImplements DEF IInv
<1> QED BY <1>1, InitImplements, LedgerInductive, PTL DEF Spec, ImplementsLedger, Ledger!Spec
=============================================================================
