------------------------------ MODULE Dashboard ------------------------------
(***************************************************************************)
(* The views that dashboard/server.py computes anew, at every request,     *)
(* from the list of events E on the bridge's snapshot: a function on the   *)
(* places of the list, which are taken in increasing order.                *)
(*                                                                         *)
(* An event has the fields the views read: topic (_topic), event           *)
(* (event_id), type, stage, status, tx, batch, txs (transaction_ids) and   *)
(* action, with None where the record has none.  Every transaction has the *)
(* amount 1, so that the amounts of a batch count its transactions.        *)
(***************************************************************************)
EXTENDS Naturals, Sequences, FiniteSets, SequencesExt, TLC

CONSTANTS
    PageSize,      \* captures of a collecting row (100)
    TrailSize,     \* transactions of a money trail (40)
    ViewSize       \* rows of the customer view (50)
ASSUME PageAssumption == {PageSize, TrailSize, ViewSize} \subseteq Nat \ {0}

None == "none"

Annotation == {"detection.events", "recovery.events"}
Derived    == Annotation \cup {"recovery.acknowledgements"}
Final      == {"SUCCEEDED", "FAILED"}

\* batch_status of the batch events of the settlement service.
BatchStatus == [settlement_batch_ready      |-> "READY",
                settlement_batch_processing |-> "PROCESSING",
                settlement_batch_succeeded  |-> "SUCCEEDED",
                settlement_batch_failed     |-> "FAILED"]
IsBatchEvent(e) == e.topic = "settlement.events" /\ e.type \in DOMAIN BatchStatus

\* A dictionary filled in the order of E: of the events with one key the last stays.
Latest(E, Picked(_), Key(_)) ==
    LET picked == {i \in DOMAIN E : Picked(E[i])}
    IN  [k \in {Key(E[i]) : i \in picked} |->
            E[Max({i \in picked : Key(E[i]) = k})]]
\* The members of a set of places, in increasing order.
Ascending(F) ==
    [k \in 1..Cardinality(F) |-> CHOOSE i \in F : Cardinality({j \in F : j <= i}) = k]
\* The dictionary's keys stay in the order in which they first came.
KeysInOrder(E, Picked(_), Key(_)) ==
    LET picked == {i \in DOMAIN E : Picked(E[i])}
        order  == Ascending({i \in picked : \A j \in picked : j < i => Key(E[j]) # Key(E[i])})
    IN  [k \in DOMAIN order |-> Key(E[order[k]])]

-----------------------------------------------------------------------------
(* Detection and recovery rows *)

\* Detections by detection_id, which is a digest of the event id; a failed batch
\* counts as a detection of its own, whose id is made of the batch_id.
DetectionRows(E) ==
    LET assessed(e) == e.topic \in Annotation
        rejected(e) == IsBatchEvent(e) /\ BatchStatus[e.type] = "FAILED"
        rows == Latest(E, LAMBDA e : assessed(e) \/ rejected(e),
                          LAMBDA e : IF assessed(e) THEN <<"event", e.event>>
                                     ELSE <<"batch", e.batch>>)
    IN  [k \in DOMAIN rows |->
            IF assessed(rows[k])
            THEN [tx |-> rows[k].tx, stage |-> rows[k].stage,
                  recoverability |->
                      IF rows[k].stage \in {"checkout", "payment", "authorization", "capture"}
                      THEN "RECOVERABLE" ELSE "OBSERVED"]
            ELSE [tx |-> None, stage |-> "settlement", recoverability |-> "ESCALATED"]]

\* Acknowledgements by ack_id, which names the candidate.
IsAck(e) == e.topic = "recovery.acknowledgements"
RecoveryRows(E) ==
    LET acks == Latest(E, IsAck, LAMBDA e : e.event)
    IN  [k \in DOMAIN acks |-> [tx |-> acks[k].tx, status |-> acks[k].status,
                                action |-> acks[k].action,
                                recovered |-> IF acks[k].status = "RECOVERED" THEN 1 ELSE 0]]

\* The customer's page: the last payment links sent.
CustomerView(E) ==
    LET rows  == RecoveryRows(E)
        links == KeysInOrder(E, LAMBDA e : IsAck(e)
                                           /\ rows[e.event].action = "SEND_PAYMENT_LINK",
                                LAMBDA e : e.event)
        last  == SubSeq(links, Len(links) - Min({Len(links), ViewSize}) + 1, Len(links))
    IN  [i \in 1..Len(last) |-> rows[last[i]]]

-----------------------------------------------------------------------------
(* Settlement rows *)

\* Mutant: only the row's presence matters.
NeverLate(rows, e) == FALSE
\* A late ready or processing event does not replace a final row.
Late(rows, e) ==
    /\ e.batch \in DOMAIN rows
    /\ rows[e.batch].status \in Final
    /\ BatchStatus[e.type] \notin Final

\* Mutants: a final event always counts; no event about settled transactions does.
NeverSettled(completed, e) == FALSE
AnyAboutSettled(completed, e) == completed \cap ToSet(e.txs) # {}
\* A final event about transactions that are settled already is left out.
SettledAgain(completed, e) ==
    BatchStatus[e.type] \in Final /\ completed \cap ToSet(e.txs) # {}

BatchRow(e) ==
    LET n == Len(e.txs)
        status == BatchStatus[e.type]
    IN  [txs |-> e.txs, status |-> status, captured |-> n,
         settled |-> IF status = "SUCCEEDED" THEN n ELSE 0,
         at_stake |-> IF status = "FAILED" THEN n ELSE 0]

\* One turn of the loop of _settlement_rows.
NoBatches == [rows |-> <<>>, assigned |-> {}, completed |-> {}]
TakeBatchEvent(st, e) ==
    IF ~ IsBatchEvent(e) THEN st
    ELSE IF Late(st.rows, e) \/ SettledAgain(st.completed, e)
    THEN [st EXCEPT !.assigned = @ \cup ToSet(e.txs)]
    ELSE [rows      |-> [b \in DOMAIN st.rows \cup {e.batch} |->
                            IF b = e.batch THEN BatchRow(e) ELSE st.rows[b]],
          assigned  |-> st.assigned \cup ToSet(e.txs),
          completed |-> IF BatchStatus[e.type] \in Final
                        THEN st.completed \cup ToSet(e.txs) ELSE st.completed]
Batches(E) == FoldLeft(TakeBatchEvent, NoBatches, E)
SettlementRows(E) == Batches(E).rows

\* A capture that succeeded; transaction_status tells the same of the captures
\* that recovery adds.
IsCapture(e) == e.type = "capture_succeeded" /\ e.status = "success" /\ e.tx # None
CaptureIndex(E) == Latest(E, IsCapture, LAMBDA e : e.tx)

\* The transactions no batch event names, in the order of their first capture.
PendingCaptures(E) ==
    LET assigned == Batches(E).assigned
    IN  KeysInOrder(E, LAMBDA e : IsCapture(e) /\ e.tx \notin assigned, LAMBDA e : e.tx)

\* They are shown in rows of PageSize, with a last row that is short or empty.
CollectingRows(E) ==
    LET pending == PendingCaptures(E)
        rest(k) == Min({Len(pending), (k + 1) * PageSize})
    IN  [k \in 0..(Len(pending) \div PageSize) |->
            LET page == SubSeq(pending, k * PageSize + 1, rest(k))
            IN  [txs |-> page, captured |-> Len(page), settled |-> 0, at_stake |-> 0,
                 status |-> IF Len(page) >= PageSize THEN "READY" ELSE "COLLECTING"]]

\* Behind every row, where its money comes from: the first TrailSize transactions
\* with their captures, or with what the batch's manifest says of them.
Trail(row, captures) ==
    LET mapped == SubSeq(row.txs, 1, Min({Len(row.txs), TrailSize}))
    IN  [row   |-> row,
         money |-> [i \in 1..Len(mapped) |->
                       [tx   |-> mapped[i],
                        from |-> IF mapped[i] \in DOMAIN captures
                                 THEN captures[mapped[i]].event ELSE "manifest"]]]
MoneyTrails(E) ==
    LET captures == CaptureIndex(E)
        batches  == SettlementRows(E)
        pages    == CollectingRows(E)
    IN  [batch   |-> [b \in DOMAIN batches |-> Trail(batches[b], captures)],
         collect |-> [k \in DOMAIN pages |-> Trail(pages[k], captures)]]

-----------------------------------------------------------------------------
(* The overview and the trace *)

\* Mutant: every event of a failure counts.
FailuresByPosition(E) ==
    LET failed == {i \in DOMAIN E : E[i].status = "failure" /\ E[i].stage # "settlement"
                                    /\ E[i].topic \notin Derived}
    IN  [i \in failed |-> E[i]]
\* The failures of the source topics, by event_id.
FailuresShown(E) ==
    Latest(E, LAMBDA e : e.status = "failure" /\ e.stage # "settlement"
                         /\ e.topic \notin Derived,
              LAMBDA e : e.event)

Overview(E) ==
    LET rows     == SettlementRows(E)
        recovery == RecoveryRows(E)
        of(s)    == {b \in DOMAIN rows : rows[b].status = s}
        acked(s) == {k \in DOMAIN recovery : recovery[k].status = s}
        settled  == SumFunction([b \in of("SUCCEEDED") |-> rows[b].settled])
        at_risk  == SumFunction([b \in of("FAILED") |-> rows[b].at_stake])
    IN  [transactions_processed |-> Cardinality({E[i].tx : i \in DOMAIN E} \ {None}),
         failures           |-> Cardinality(DOMAIN FailuresShown(E)),
         recoverable        |-> Cardinality(DOMAIN DetectionRows(E)),
         recovered          |-> Cardinality(acked("RECOVERED")),
         escalated          |-> Cardinality(of("FAILED")),
         amount_captured    |-> Cardinality(DOMAIN CaptureIndex(E)),
         amount_recovered   |-> Cardinality(acked("RECOVERED")),
         amount_settled     |-> settled,
         settlement_at_risk |-> at_risk,
         batch_health       |-> IF at_risk > 0 THEN "FAILED"
                                ELSE IF of("SUCCEEDED") # {} THEN "HEALTHY" ELSE "COLLECTING",
         event_rate         |-> Cardinality(DOMAIN E)]

\* combined_trace: the events of a transaction by event_id, and beside each what
\* Splunk has with the same event_id.
CombinedTrace(E, splunk, t) ==
    LET steps == Latest(E, LAMBDA e : e.tx = t /\ e.event # None, LAMBDA e : e.event)
    IN  [k \in DOMAIN steps |->
            [step      |-> steps[k],
             detection |-> {e \in splunk : e.tx = t /\ e.event = k}]]
=============================================================================
