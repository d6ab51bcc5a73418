-------------------------- MODULE SettlementProofs --------------------------
(***************************************************************************)
(* Settlement: no transaction is settled twice, for any number of          *)
(* transactions, batches, crashes and lost or repeated publications.       *)
(*                                                                         *)
(* The argument.  A batch's transactions never change, in memory or on the *)
(* topic.  While the replay runs, the memory holds only batches of the     *)
(* topic; once it is complete, it holds all of them.  So a new batch,      *)
(* taken from a queue that shares no transaction with the batches in       *)
(* memory, shares none with the batches on the topic either.               *)
(***************************************************************************)
EXTENDS Settlement, SequenceTheorems, TLAPS

\* The events of a batch agree on its transactions and its number, and so does
\* the batch in memory.
Agreement ==
    /\ \A u \in Uid : \A d, e \in Events(u) : d.txs = e.txs
    /\ \A u \in Uid : Known(u) => \A e \in Events(u) : e.txs = batches[u].txs
    /\ \A u \in Uid : \A e \in Events(u) : e.status # "absent"
    /\ \A u \in Uid : ~ Known(u) => batches[u] = NoBatch

\* What the memory knows of the topic, during the replay and after it.
Coverage ==
    /\ \A u \in Uid : batchPos[u] > 0 => Known(u)
    /\ ~ startup_replay_complete => \A u \in Uid : Known(u) => OnTopic(u)
    /\ startup_replay_complete => \A u \in Uid : OnTopic(u) => Known(u)

\* Batches share no transaction with each other or with the queue.
Apart ==
    /\ \A u, v \in Uid : u # v => batches[u].txs \cap batches[v].txs = {}
    /\ \A u \in Uid : batches[u].txs \cap pending = {}

\* Batches are published only after the replay, and only known ones.
Control ==
    /\ pc \in {"ready", "processing"} => startup_replay_complete
    /\ in_flight # {} => startup_replay_complete
    /\ \A u \in starting \cup in_flight : Known(u)

IInv ==
    /\ TypeOK
    /\ Agreement
    /\ Coverage
    /\ Apart
    /\ Control
    /\ NoDoubleSettlement

-----------------------------------------------------------------------------
(* What a publication does to the topic. *)

\* settlement_event carries a batch unchanged (common/settlement.py:144-174).
LEMMA EventIsBatch ==
    ASSUME NEW b \in Batch
    PROVE  settlement_event(b) = b
BY DEF settlement_event, Batch

\* A sequence of equal elements.
LEMMA CopiesProperties ==
    ASSUME NEW S, NEW e \in S, NEW n \in Nat
    PROVE  /\ [i \in 1..n |-> e] \in Seq(S)
           /\ Len([i \in 1..n |-> e]) = n
<1>1. [i \in 1..n |-> e] \in [1..n -> S]
  OBVIOUS
<1>2. [i \in 1..n |-> e] \in Seq(S)
  BY <1>1, SeqDef
<1>3. DOMAIN [i \in 1..n |-> e] = 1..n
  OBVIOUS
<1> QED BY <1>2, <1>3, LenProperties

\* Publishing b as an event of u appends nothing but b to the log of u and
\* leaves the other logs alone.
LEMMA PublishProperties ==
    ASSUME NEW u \in Uid, NEW b \in Batch, TypeOK, Publish(u, b)
    PROVE  /\ batchLog' \in [Uid -> Seq(Batch)]
           /\ sendFaults' \in Nat
           /\ \A v \in Uid : v # u => batchLog'[v] = batchLog[v]
           /\ Len(batchLog'[u]) >= Len(batchLog[u])
           /\ \A e \in Events(u)' : e \in Events(u) \/ e = b
           /\ Events(u) \subseteq Events(u)'
<1>1. PICK n \in 0..2 :
        /\ sendFaults' = IF n = 1 THEN sendFaults ELSE sendFaults + 1
        /\ batchLog' = [batchLog EXCEPT ![u] = @ \o [i \in 1..n |-> b]]
  BY EventIsBatch DEF Publish
<1> DEFINE c == [i \in 1..n |-> b]
           s == batchLog[u]
<1>2. c \in Seq(Batch) /\ Len(c) = n /\ n \in Nat
  BY CopiesProperties
<1>3. s \in Seq(Batch) /\ Len(s) \in Nat
  BY DEF TypeOK
<1>4. /\ s \o c \in Seq(Batch)
      /\ Len(s \o c) = Len(s) + n
      /\ \A i \in 1..Len(s) + n : (s \o c)[i] = IF i <= Len(s) THEN s[i] ELSE c[i - Len(s)]
  BY <1>2, <1>3, ConcatProperties
<1>5. batchLog'[u] = s \o c /\ \A v \in Uid : v # u => batchLog'[v] = batchLog[v]
  BY <1>1 DEF TypeOK
<1>6. batchLog' \in [Uid -> Seq(Batch)]
  BY <1>1, <1>4 DEF TypeOK
<1>7. sendFaults' \in Nat
  BY <1>1 DEF TypeOK
<1>8. ASSUME NEW i \in 1..Len(s) + n
      PROVE  (s \o c)[i] = b \/ \E j \in 1..Len(s) : (s \o c)[i] = s[j]
  <2>1. CASE i <= Len(s)
    <3>1. i \in 1..Len(s) /\ (s \o c)[i] = s[i]
      BY <1>2, <1>3, <1>4, <2>1
    <3> QED BY <3>1
  <2>2. CASE i > Len(s)
    <3>1. i - Len(s) \in 1..n
      BY <1>2, <1>3, <2>2
    <3>2. c[i - Len(s)] = b
      BY <3>1
    <3> QED BY <1>2, <1>3, <1>4, <2>2, <3>2
  <2> QED BY <1>2, <1>3, <2>1, <2>2
<1>9. \A e \in Events(u)' : e \in Events(u) \/ e = b
  BY <1>4, <1>5, <1>8 DEF Events
<1>10. \A i \in 1..Len(s) : i \in 1..Len(s) + n /\ (s \o c)[i] = s[i]
  BY <1>2, <1>3, <1>4
<1>11. Events(u) \subseteq Events(u)'
  BY <1>4, <1>5, <1>10 DEF Events
<1> QED BY <1>2, <1>3, <1>4, <1>5, <1>6, <1>7, <1>9, <1>11

\* The topic of a batch is empty exactly when it has no event.
LEMMA OnTopicIffEvents ==
    ASSUME TypeOK, NEW u \in Uid
    PROVE  /\ OnTopic(u) <=> Events(u) # {}
           /\ OnTopic(u) <=> Len(batchLog[u]) > 0
<1>1. batchLog[u] \in Seq(Batch) /\ Len(batchLog[u]) \in Nat
  BY DEF TypeOK
<1>2. OnTopic(u) <=> Len(batchLog[u]) > 0
  BY <1>1, EmptySeq DEF OnTopic
<1>3. Len(batchLog[u]) > 0 => batchLog[u][1] \in Events(u)
  BY <1>1 DEF Events
<1>4. Events(u) # {} => Len(batchLog[u]) > 0
  BY <1>1 DEF Events
<1> QED BY <1>2, <1>3, <1>4

\* Every batch index has one outcome (main.py:76-86).
LEMMA OutcomeIsTerminal ==
    ASSUME NEW i
    PROVE  outcome_for_index(i) \in Terminal
BY DEF outcome_for_index, Terminal

-----------------------------------------------------------------------------
(* Type correctness. *)

LEMMA InitTypeOK == Init => TypeOK
<1> SUFFICES ASSUME Init PROVE TypeOK
  OBVIOUS
<1>1. captureLog \in [Tx -> Seq(CaptureKinds)]
  <2>1. <<>> \in Seq(CaptureKinds)
    BY EmptySeq
  <2> QED BY <2>1 DEF Init
<1>2. batchLog \in [Uid -> Seq(Batch)]
  <2>1. <<>> \in Seq(Batch)
    BY EmptySeq
  <2> QED BY <2>1 DEF Init
<1>3. batches \in [Uid -> Batch]
  <2>1. NoBatch \in Batch
    BY DEF NoBatch, Batch
  <2> QED BY <2>1 DEF Init
<1>4. capturePos \in [Tx -> Nat] /\ batchPos \in [Uid -> Nat]
  BY DEF Init
<1> QED BY <1>1, <1>2, <1>3, <1>4 DEF Init, TypeOK

LEMMA TypeStep == TypeOK /\ [Next]_vars => TypeOK'
<1> SUFFICES ASSUME TypeOK, [Next]_vars PROVE TypeOK'
  OBVIOUS
<1> USE DEF TypeOK
<1>1. CASE UNCHANGED vars
  BY <1>1 DEF vars
<1>2. ASSUME NEW t \in Tx, NEW kind \in CaptureKinds, Capture(t, kind)
      PROVE  TypeOK'
  <2>1. Append(captureLog[t], kind) \in Seq(CaptureKinds)
    BY AppendProperties
  <2> QED BY <1>2, <2>1 DEF Capture, positions, batcher, env
<1>3. ASSUME NEW t \in Tx, HandleCapture(t) PROVE TypeOK'
  BY <1>3 DEF HandleCapture, topics, env
<1>4. ASSUME NEW u \in Uid, ReconcileSettlementEvent(u) PROVE TypeOK'
  <2> DEFINE e == batchLog[u][batchPos[u] + 1]
  <2>1. e \in Batch
    BY <1>4, ElementOfSeq DEF ReconcileSettlementEvent
  <2>2. e.seq \in Nat /\ e.txs \subseteq Tx
    BY <2>1 DEF Batch
  <2>3. /\ sequence' \in Nat
        /\ pending' \subseteq Tx
        /\ ahead' \subseteq Tx \X Tx
    BY <1>4, <2>2 DEF ReconcileSettlementEvent, SequenceAfter, Remaining, OrderOf
  <2>4. batches' \in [Uid -> Batch]
    BY <1>4, <2>1 DEF ReconcileSettlementEvent
  <2>5. batchPos' \in [Uid -> Nat]
    BY <1>4 DEF ReconcileSettlementEvent
  <2> QED BY <1>4, <2>3, <2>4, <2>5 DEF ReconcileSettlementEvent, topics, env
<1>5. ASSUME NEW u \in Uid, StartReadyBatch(u) PROVE TypeOK'
  <2>1. PICK S \in SUBSET pending :
          /\ sequence' = sequence + 1
          /\ pending' = pending \ S
          /\ ahead' = OrderOf(pending')
          /\ batches' = [batches EXCEPT ![u] =
                             [seq |-> sequence + 1, txs |-> S, status |-> "ready"]]
    BY <1>5 DEF StartReadyBatch, Remaining
  <2>2. [seq |-> sequence + 1, txs |-> S, status |-> "ready"] \in Batch
    BY <2>1 DEF Batch, Unfinished
  <2>3. batches' \in [Uid -> Batch]
    BY <2>1, <2>2
  <2> QED BY <1>5, <2>1, <2>3 DEF StartReadyBatch, OrderOf, topics, positions, env
<1>6. ASSUME NEW u \in Uid, PublishReady(u) PROVE TypeOK'
  <2>1. batches[u] \in Batch /\ Publish(u, batches[u])
    BY <1>6 DEF PublishReady
  <2>2. batchLog' \in [Uid -> Seq(Batch)] /\ sendFaults' \in Nat
    BY <2>1, PublishProperties
  <2>3. batches' \in [Uid -> Batch]
    BY <1>6, <2>1 DEF PublishReady, Batch, Unfinished
  <2> QED BY <1>6, <2>2, <2>3 DEF PublishReady, positions
<1>7. ASSUME NEW u \in Uid, PublishProcessing(u) PROVE TypeOK'
  <2>1. batches[u] \in Batch /\ Publish(u, batches[u])
    BY <1>7 DEF PublishProcessing
  <2>2. batchLog' \in [Uid -> Seq(Batch)] /\ sendFaults' \in Nat
    BY <2>1, PublishProperties
  <2> QED BY <1>7, <2>2 DEF PublishProcessing, positions, batcher
<1>8. ASSUME NEW u \in Uid, CompleteBatch(u) PROVE TypeOK'
  <2> DEFINE done == [batches[u] EXCEPT !.status = outcome_for_index(batches[u].seq)]
  <2>1. done \in Batch
    BY OutcomeIsTerminal DEF Batch
  <2>2. Publish(u, done) /\ batches' = [batches EXCEPT ![u] = done]
    BY <1>8 DEF CompleteBatch
  <2>3. batchLog' \in [Uid -> Seq(Batch)] /\ sendFaults' \in Nat
    BY <2>1, <2>2, PublishProperties
  <2>4. batches' \in [Uid -> Batch]
    BY <2>1, <2>2
  <2> QED BY <1>8, <2>3, <2>4 DEF CompleteBatch, positions
<1>9. ASSUME LoseMemory, UNCHANGED topics, batch_size' \in BatchSizes,
             crashes' \in Nat, sendFaults' \in Nat, reconfigs' \in Nat
      PROVE  TypeOK'
  <2>1. NoBatch \in Batch
    BY DEF NoBatch, Batch
  <2> QED BY <1>9, <2>1 DEF LoseMemory, topics
<1>10. ASSUME NEW u \in Uid, AbortOnSize(u) PROVE TypeOK'
  BY <1>9, <1>10 DEF AbortOnSize, env
<1>11. CASE Crash
  BY <1>9, <1>11 DEF Crash
<1>12. CASE FinishReplay
  BY <1>12 DEF FinishReplay, Resumable, topics, positions, batcher, env
<1>13. CASE Restart
  BY <1>13 DEF Restart, topics, positions, batcher, env
<1>14. CASE Reconfigure
  BY <1>14 DEF Reconfigure, topics, positions, batcher
<1> QED
  BY <1>1, <1>2, <1>3, <1>4, <1>5, <1>6, <1>7, <1>8, <1>10, <1>11, <1>12, <1>13, <1>14
  DEF Next, Service

\* Every reachable state of the service is well typed.
THEOREM TypeCorrect == Spec => []TypeOK
<1> QED BY InitTypeOK, TypeStep, PTL DEF Spec

-----------------------------------------------------------------------------
(* The inductive invariant. *)

LEMMA InitIInv == Init => IInv
<1> SUFFICES ASSUME Init PROVE IInv
  OBVIOUS
<1>1. TypeOK
  BY InitTypeOK
<1>2. \A u \in Uid : /\ batchLog[u] = <<>>
                     /\ batches[u] = NoBatch
                     /\ batchPos[u] = 0
  BY DEF Init
<1>3. \A u \in Uid : ~ Known(u) /\ batches[u].txs = {}
  BY <1>2 DEF Known, NoBatch
<1>4. \A u \in Uid : Events(u) = {} /\ ~ OnTopic(u)
  BY <1>1, <1>2, OnTopicIffEvents DEF OnTopic
<1>5. Agreement
  BY <1>2, <1>3, <1>4 DEF Agreement
<1>6. Coverage
  BY <1>2, <1>3, <1>4 DEF Coverage, Init
<1>7. Apart
  BY <1>3 DEF Apart
<1>8. Control
  BY DEF Control, Init
<1>9. NoDoubleSettlement
  BY <1>4 DEF NoDoubleSettlement
<1> QED BY <1>1, <1>5, <1>6, <1>7, <1>8, <1>9 DEF IInv

\* Publishing a known batch after the replay keeps the invariant: the memory
\* covers the topic, and in memory the batches are apart.
LEMMA PublishKeepsIInv ==
    ASSUME IInv, TypeOK', NEW u \in Uid, NEW b \in Batch, Publish(u, b),
           startup_replay_complete, Known(u),
           b.txs = batches[u].txs, b.status # "absent",
           \A v \in Uid : /\ batches'[v].txs = batches[v].txs
                          /\ Known(v)' = Known(v)
                          /\ ~ Known(v) => batches'[v] = batches[v],
           startup_replay_complete' = startup_replay_complete,
           pending' = pending, batchPos' = batchPos
    PROVE  (Agreement /\ Coverage /\ Apart /\ NoDoubleSettlement)'
<1>1. /\ \A v \in Uid \ {u} : Events(v)' = Events(v) /\ OnTopic(v)' = OnTopic(v)
      /\ \A e \in Events(u)' : e \in Events(u) \/ e = b
  <2>1. /\ \A v \in Uid : v # u => batchLog'[v] = batchLog[v]
        /\ \A e \in Events(u)' : e \in Events(u) \/ e = b
    BY PublishProperties DEF IInv
  <2> QED BY <2>1 DEF Events, OnTopic
<1>2. \A v \in Uid : \A e \in Events(v)' : e.txs = batches[v].txs /\ e.status # "absent"
  <2>1. \A v \in Uid : \A e \in Events(v) : Known(v) /\ e.txs = batches[v].txs
                                             /\ e.status # "absent"
    BY OnTopicIffEvents DEF IInv, Agreement, Coverage
  <2> QED BY <1>1, <2>1
<1>3. Agreement'
  BY <1>2 DEF IInv, Agreement
<1>4. Coverage'
  BY <1>1 DEF IInv, Coverage
<1>5. Apart'
  BY DEF IInv, Apart
<1>6. NoDoubleSettlement'
  BY <1>2 DEF IInv, Apart, NoDoubleSettlement
<1> QED BY <1>3, <1>4, <1>5, <1>6

\* Reading a batch event keeps the invariant: the event names the transactions
\* that the batch in memory has, or those of a batch new to the memory, which
\* are apart from all others because the topic's batches are.
LEMMA ReconcileKeepsIInv ==
    ASSUME IInv, TypeOK', NEW u \in Uid, ReconcileSettlementEvent(u)
    PROVE  IInv'
<1> DEFINE e == batchLog[u][batchPos[u] + 1]
<1> USE DEF IInv
<1>1. /\ batchLog' = batchLog
      /\ batchPos' = [batchPos EXCEPT ![u] = @ + 1]
      /\ pending' = pending \ e.txs
      /\ batches' = IF Replaces(u, e) THEN [batches EXCEPT ![u] = e] ELSE batches
      /\ UNCHANGED <<pc, startup_replay_complete, starting, in_flight>>
  BY DEF ReconcileSettlementEvent, Remaining, topics
<1>2. e \in Events(u)
  <2>1. Len(batchLog[u]) \in Nat /\ batchPos[u] \in Nat
    BY DEF TypeOK
  <2>2. batchPos[u] + 1 \in 1..Len(batchLog[u])
    BY <2>1 DEF ReconcileSettlementEvent
  <2> QED BY <2>2 DEF Events
<1>3. \A v \in Uid : Events(v)' = Events(v) /\ OnTopic(v)' = OnTopic(v)
  BY <1>1 DEF Events, OnTopic
<1>4. OnTopic(u)
  BY <1>2, OnTopicIffEvents
<1>5. /\ e.status # "absent"
      /\ \A d \in Events(u) : d.txs = e.txs
      /\ Known(u) => batches[u].txs = e.txs
  BY <1>2 DEF Agreement
<1>6. /\ Known(u)'
      /\ batches'[u].txs = e.txs
      /\ \A v \in Uid : v # u => batches'[v] = batches[v]
  <2>1. CASE Replaces(u, e)
    BY <1>1, <1>5, <2>1 DEF Known, TypeOK
  <2>2. CASE ~ Replaces(u, e)
    <3>1. Known(u)
      BY <2>2 DEF Replaces, Known, Terminal
    <3> QED BY <1>1, <1>5, <2>2, <3>1 DEF Known
  <2> QED BY <2>1, <2>2
<1>7. \A v \in Uid : v # u => (Known(v)' = Known(v))
  BY <1>6 DEF Known
<1>8. Agreement'
  BY <1>3, <1>5, <1>6, <1>7 DEF Agreement
<1>9. Coverage'
  BY <1>1, <1>3, <1>4, <1>6, <1>7 DEF Coverage, TypeOK
<1>10. \A v \in Uid : v # u => batches[v].txs \cap e.txs = {}
  <2> SUFFICES ASSUME NEW v \in Uid, v # u PROVE batches[v].txs \cap e.txs = {}
    OBVIOUS
  <2>1. CASE Known(u)
    BY <1>5, <2>1 DEF Apart
  <2>2. CASE ~ Known(u)
    <3>1. ~ startup_replay_complete
      BY <1>4, <2>2 DEF Coverage
    <3>2. CASE Known(v)
      <4>1. PICK d \in Events(v) : d.txs = batches[v].txs
        BY <3>1, <3>2, OnTopicIffEvents DEF Coverage, Agreement
      <4> QED BY <1>2, <4>1 DEF NoDoubleSettlement
    <3>3. CASE ~ Known(v)
      BY <3>3 DEF Agreement, NoBatch
    <3> QED BY <3>2, <3>3
  <2> QED BY <2>1, <2>2
<1>11. Apart'
  BY <1>1, <1>6, <1>10 DEF Apart
<1>12. Control'
  BY <1>1, <1>6, <1>7 DEF Control, TypeOK
<1>13. NoDoubleSettlement'
  BY <1>3 DEF NoDoubleSettlement
<1> QED BY <1>8, <1>9, <1>11, <1>12, <1>13

\* A new batch takes its transactions from the queue.
LEMMA StartKeepsIInv ==
    ASSUME IInv, TypeOK', NEW u \in Uid, StartReadyBatch(u)
    PROVE  IInv'
<1> USE DEF IInv
<1>1. PICK S \in SUBSET pending :
        /\ pending' = pending \ S
        /\ batches' = [batches EXCEPT ![u] =
                           [seq |-> sequence + 1, txs |-> S, status |-> "ready"]]
  BY DEF StartReadyBatch, Remaining
<1>2. /\ startup_replay_complete /\ ~ Known(u) /\ ~ OnTopic(u)
      /\ UNCHANGED <<batchLog, batchPos, startup_replay_complete, in_flight>>
      /\ starting' = {u}
  BY DEF StartReadyBatch, OnTopic, topics, positions
<1>3. /\ batches'[u].txs = S /\ Known(u)'
      /\ \A v \in Uid : v # u => batches'[v] = batches[v] /\ Known(v)' = Known(v)
  BY <1>1 DEF Known, TypeOK
<1>4. /\ \A v \in Uid : Events(v)' = Events(v) /\ OnTopic(v)' = OnTopic(v)
      /\ Events(u) = {}
  BY <1>2, OnTopicIffEvents DEF Events, OnTopic
<1>5. Agreement'
  BY <1>3, <1>4 DEF Agreement
<1>6. Coverage'
  BY <1>2, <1>3, <1>4 DEF Coverage
<1>7. Apart'
  BY <1>1, <1>3 DEF Apart
<1>8. Control'
  BY <1>2, <1>3 DEF Control, TypeOK
<1>9. NoDoubleSettlement'
  BY <1>4 DEF NoDoubleSettlement
<1> QED BY <1>5, <1>6, <1>7, <1>8, <1>9

\* A process that stops forgets everything: the empty memory agrees with any topic.
LEMMA LoseMemoryKeepsIInv ==
    ASSUME IInv, TypeOK', LoseMemory, UNCHANGED topics
    PROVE  IInv'
<1> USE DEF IInv
<1>1. /\ batchLog' = batchLog
      /\ \A u \in Uid : batches'[u] = NoBatch /\ batchPos'[u] = 0
      /\ pc' = "down" /\ ~ startup_replay_complete'
      /\ pending' = {} /\ starting' = {} /\ in_flight' = {}
  BY DEF LoseMemory, topics
<1>2. \A u \in Uid : ~ Known(u)' /\ batches'[u].txs = {}
  BY <1>1 DEF Known, NoBatch
<1>3. \A u \in Uid : Events(u)' = Events(u)
  BY <1>1 DEF Events
<1>4. Agreement'
  BY <1>1, <1>2, <1>3 DEF Agreement
<1>5. Coverage' /\ Apart' /\ Control'
  BY <1>1, <1>2 DEF Coverage, Apart, Control
<1>6. NoDoubleSettlement'
  BY <1>3 DEF NoDoubleSettlement
<1> QED BY <1>4, <1>5, <1>6

\* A step that touches neither the batches nor the queue keeps the invariant.
LEMMA FrameKeepsIInv ==
    ASSUME IInv, TypeOK', pc' = pc \/ pc' = "poll",
           UNCHANGED <<batchLog, batchPos, startup_replay_complete, pending,
                       batches, starting, in_flight>>
    PROVE  IInv'
<1>1. \A u \in Uid : /\ Events(u)' = Events(u)
                     /\ OnTopic(u)' = OnTopic(u)
                     /\ Known(u)' = Known(u)
  BY DEF Events, OnTopic, Known
<1>2. Agreement'
  BY <1>1 DEF IInv, Agreement
<1>3. Coverage' /\ Apart'
  BY <1>1 DEF IInv, Coverage, Apart
<1>4. Control'
  BY <1>1 DEF IInv, Control, TypeOK
<1>5. NoDoubleSettlement'
  BY <1>1 DEF IInv, NoDoubleSettlement
<1> QED BY <1>2, <1>3, <1>4, <1>5 DEF IInv

LEMMA StepIInv == IInv /\ [Next]_vars => IInv'
<1> SUFFICES ASSUME IInv, [Next]_vars PROVE IInv'
  OBVIOUS
<1>0. TypeOK /\ TypeOK'
  BY TypeStep DEF IInv
<1>1. CASE UNCHANGED vars
  BY <1>0, <1>1, FrameKeepsIInv DEF vars
<1>2. ASSUME NEW t \in Tx, NEW kind \in CaptureKinds, Capture(t, kind)
      PROVE  IInv'
  BY <1>0, <1>2, FrameKeepsIInv DEF Capture, positions, batcher
<1>3. ASSUME NEW t \in Tx, HandleCapture(t) PROVE IInv'
  <2>1. CASE UNCHANGED pending
    BY <1>0, <1>3, <2>1, FrameKeepsIInv DEF HandleCapture, topics
  <2>2. CASE pending' = pending \cup {t} /\ t \notin KnownTxs
    <3>1. UNCHANGED <<batchLog, batchPos, startup_replay_complete, batches,
                      starting, in_flight, pc>>
      BY <1>3 DEF HandleCapture, topics
    <3>2. \A u \in Uid : /\ Events(u)' = Events(u)
                         /\ OnTopic(u)' = OnTopic(u)
                         /\ Known(u)' = Known(u)
      BY <3>1 DEF Events, OnTopic, Known
    <3>3. Apart'
      BY <2>2, <3>1 DEF IInv, Apart, KnownTxs
    <3>4. Agreement' /\ Coverage'
      BY <3>1, <3>2 DEF IInv, Agreement, Coverage
    <3>5. Control'
      BY <3>1, <3>2 DEF IInv, Control, TypeOK
    <3>6. NoDoubleSettlement'
      BY <3>2 DEF IInv, NoDoubleSettlement
    <3> QED BY <1>0, <3>3, <3>4, <3>5, <3>6 DEF IInv
  <2> QED BY <1>3, <2>1, <2>2 DEF HandleCapture, Accepts
<1>4. ASSUME NEW u \in Uid, ReconcileSettlementEvent(u) PROVE IInv'
  BY <1>0, <1>4, ReconcileKeepsIInv
<1>5. ASSUME NEW u \in Uid, StartReadyBatch(u) PROVE IInv'
  BY <1>0, <1>5, StartKeepsIInv
<1>6. ASSUME NEW u \in Uid, PublishReady(u) PROVE IInv'
  <2>1. /\ Publish(u, batches[u]) /\ startup_replay_complete /\ Known(u)
        /\ batches[u] \in Batch
        /\ batches' = [batches EXCEPT ![u].status = "processing"]
        /\ UNCHANGED <<startup_replay_complete, pending, batchPos, starting, in_flight>>
        /\ pc' = "processing"
    BY <1>0, <1>6 DEF PublishReady, IInv, Control, TypeOK, positions
  <2>2. \A v \in Uid : /\ batches'[v].txs = batches[v].txs
                       /\ Known(v)' = Known(v)
                       /\ ~ Known(v) => batches'[v] = batches[v]
    BY <1>0, <2>1 DEF Known, TypeOK, Batch
  <2>3. (Agreement /\ Coverage /\ Apart /\ NoDoubleSettlement)'
    BY <1>0, <2>1, <2>2, PublishKeepsIInv DEF Known
  <2>4. Control'
    BY <1>0, <2>1, <2>2 DEF IInv, Control, TypeOK
  <2> QED BY <1>0, <2>3, <2>4 DEF IInv
<1>7. ASSUME NEW u \in Uid, PublishProcessing(u) PROVE IInv'
  <2>1. /\ Publish(u, batches[u]) /\ startup_replay_complete /\ Known(u)
        /\ batches[u] \in Batch
        /\ UNCHANGED <<batches, startup_replay_complete, pending, batchPos>>
        /\ pc' = "poll" /\ starting' = {} /\ in_flight' = in_flight \cup {u}
    BY <1>0, <1>7 DEF PublishProcessing, IInv, Control, TypeOK, positions, batcher
  <2>2. \A v \in Uid : Known(v)' = Known(v)
    BY <2>1 DEF Known
  <2>3. (Agreement /\ Coverage /\ Apart /\ NoDoubleSettlement)'
    BY <1>0, <2>1, <2>2, PublishKeepsIInv DEF Known
  <2>4. Control'
    BY <1>0, <2>1, <2>2 DEF IInv, Control, TypeOK
  <2> QED BY <1>0, <2>3, <2>4 DEF IInv
<1>8. ASSUME NEW u \in Uid, CompleteBatch(u) PROVE IInv'
  <2> DEFINE done == [batches[u] EXCEPT !.status = outcome_for_index(batches[u].seq)]
  <2>1. /\ Publish(u, done) /\ startup_replay_complete /\ Known(u)
        /\ batches' = [batches EXCEPT ![u] = done]
        /\ UNCHANGED <<startup_replay_complete, pending, batchPos, starting, pc>>
        /\ in_flight' = in_flight \ {u}
    BY <1>0, <1>8 DEF CompleteBatch, IInv, Control, TypeOK, positions
  <2>2. /\ done \in Batch /\ done.txs = batches[u].txs /\ done.status # "absent"
        /\ batches[u] \in Batch
    BY <1>0, OutcomeIsTerminal DEF TypeOK, Batch, Terminal
  <2>3. \A v \in Uid : /\ batches'[v].txs = batches[v].txs
                       /\ Known(v)' = Known(v)
                       /\ ~ Known(v) => batches'[v] = batches[v]
    BY <1>0, <2>1, <2>2 DEF Known, TypeOK
  <2>4. (Agreement /\ Coverage /\ Apart /\ NoDoubleSettlement)'
    BY <1>0, <2>1, <2>2, <2>3, PublishKeepsIInv
  <2>5. Control'
    BY <1>0, <2>1, <2>3 DEF IInv, Control, TypeOK
  <2> QED BY <1>0, <2>4, <2>5 DEF IInv
<1>9. ASSUME NEW u \in Uid, AbortOnSize(u) PROVE IInv'
  BY <1>0, <1>9, LoseMemoryKeepsIInv DEF AbortOnSize
<1>10. CASE Crash
  BY <1>0, <1>10, LoseMemoryKeepsIInv DEF Crash
<1>11. CASE FinishReplay
  <2>1. /\ UNCHANGED <<batchLog, batchPos, pending, batches, starting, pc>>
        /\ startup_replay_complete'
        /\ in_flight' = Resumable
        /\ \A u \in Uid : batchPos[u] = Len(batchLog[u])
    BY <1>11 DEF FinishReplay, replay_caught_up, topics, positions, batcher
  <2>2. \A u \in Uid : OnTopic(u) => Known(u)
    BY <1>0, <2>1, OnTopicIffEvents DEF IInv, Coverage
  <2>3. \A u \in Uid : /\ Events(u)' = Events(u)
                       /\ OnTopic(u)' = OnTopic(u)
                       /\ Known(u)' = Known(u)
    BY <2>1 DEF Events, OnTopic, Known
  <2>4. Coverage'
    BY <2>1, <2>2, <2>3 DEF IInv, Coverage
  <2>5. Control'
    <3>1. \A u \in Resumable : u \in Uid /\ Known(u)
      BY DEF Resumable, Known, Unfinished
    <3> QED BY <1>0, <2>1, <2>3, <3>1 DEF IInv, Control, TypeOK
  <2> QED BY <1>0, <2>1, <2>3, <2>4, <2>5
       DEF IInv, Agreement, Apart, NoDoubleSettlement
<1>12. CASE Restart
  BY <1>0, <1>12, FrameKeepsIInv DEF Restart, topics, positions, batcher
<1>13. CASE Reconfigure
  BY <1>0, <1>13, FrameKeepsIInv DEF Reconfigure, topics, positions, batcher
<1> QED
  BY <1>1, <1>2, <1>3, <1>4, <1>5, <1>6, <1>7, <1>8, <1>9, <1>10, <1>11, <1>12, <1>13
  DEF Next, Service

THEOREM Inductive == Spec => []IInv
BY InitIInv, StepIInv, PTL DEF Spec

\* No transaction is ever on settlement.events in two batches.
THEOREM NoDoubleSettlementHolds == Spec => []NoDoubleSettlement
<1>1. IInv => NoDoubleSettlement
  BY DEF IInv
<1> QED BY <1>1, Inductive, PTL
=============================================================================
