------------------------------ MODULE MCReaders ------------------------------
(***************************************************************************)
(* Small histories of the topics: the settlement of three captures, and    *)
(* the recovery of one failure.                                            *)
(***************************************************************************)
EXTENDS Readers

Blank == [partition |-> None, topic |-> None, event |-> None, type |-> None, stage |-> None,
          status |-> None, tx |-> None, batch |-> None, txs |-> <<>>,
          action |-> None]

Capture(n, t) ==
    [Blank EXCEPT !.partition = "capture", !.topic = "capture.events", !.event = n,
                  !.type = "capture_succeeded", !.stage = "capture", !.status = "success",
                  !.tx = t]
Failure(n, t) ==
    [Blank EXCEPT !.partition = "payment", !.topic = "payment.events", !.event = n,
                  !.type = "payment_failed", !.stage = "payment", !.status = "failure",
                  !.tx = t]
Batch(b, n, txs, type, status) ==
    [Blank EXCEPT !.partition = b, !.topic = "settlement.events", !.event = n,
                  !.type = type, !.stage = "settlement", !.status = status,
                  !.batch = b, !.txs = txs]
\* What the detection service and the recovery service publish about a failure
\* bears its event_id.
Assessed(topic, e)  == [e EXCEPT !.partition = topic, !.topic = topic]
Acknowledged(e, st) ==
    [e EXCEPT !.partition = "ack", !.topic = "recovery.acknowledgements", !.stage = None,
              !.type = "recovery_candidate_acknowledged", !.status = st,
              !.action = "SEND_PAYMENT_LINK"]

\* One batch from its capture to its outcome, and a capture that waits.
Settled ==
    <<Capture("c1", "t1"), Capture("c3", "t3"),
      Batch("b1", "r1", <<"t1">>, "settlement_batch_ready", "unknown"),
      Batch("b1", "p1", <<"t1">>, "settlement_batch_processing", "unknown"),
      Batch("b1", "s1", <<"t1">>, "settlement_batch_succeeded", "success")>>
\* b1 settles t1 and t2; b2, made when Kafka had dropped b1, has t2 again.
Overlapping ==
    <<Batch("b1", "r1", <<"t1", "t2">>, "settlement_batch_ready", "unknown"),
      Batch("b1", "s1", <<"t1", "t2">>, "settlement_batch_succeeded", "success"),
      Capture("c3", "t3"),
      Batch("b2", "r2", <<"t2", "t3">>, "settlement_batch_ready", "unknown"),
      Batch("b2", "f2", <<"t2", "t3">>, "settlement_batch_failed", "failure")>>
\* A failed payment, found, made a candidate and recovered, after another one.
Recovered ==
    <<Acknowledged(Failure("e2", "t2"), "COMPLETED"),
      Failure("e1", "t1"),
      Assessed("detection.events", Failure("e1", "t1")),
      Assessed("recovery.events", Failure("e1", "t1")),
      Acknowledged(Failure("e1", "t1"), "RECOVERED")>>

MCPartition  == {"capture", "payment", "detection.events", "recovery.events", "ack", "b1", "b2"}
MCScenarios  == {<<s, {"bridge"}>> : s \in {Settled, Overlapping, Recovered}}
                \cup {<<s, {"forwarder"}>> : s \in {Settled, Recovered}}
Traced       == {<<Recovered, {"bridge", "forwarder"}>>}
=============================================================================
