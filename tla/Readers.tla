------------------------------- MODULE Readers -------------------------------
(***************************************************************************)
(* The topics as their two readers see them, and what the dashboard shows  *)
(* of them: the bridge and the forwarder read what the services of the     *)
(* other modules publish; the dashboard computes its views from the        *)
(* bridge's snapshot and from Splunk.                                      *)
(*                                                                         *)
(* What is published is a script: records in the order in which they       *)
(* reach their partitions, some of them twice.                             *)
(***************************************************************************)
EXTENDS Bridge, Forwarder, Dashboard

CONSTANTS
    Scenarios       \* histories of the topics, each with the readers that run
\* A history is a sequence of records of the partitions.  The events of one batch name
\* the same transactions, of which there is one at least (Settlement makes them so).
ASSUME ScenariosAssumption ==
    \A s \in Scenarios :
        /\ s = <<s[1], s[2]>> /\ s[2] \subseteq {"bridge", "forwarder"}
        /\ Len(s[1]) \in Nat
        /\ \A i \in 1..Len(s[1]) :
               /\ s[1][i].partition \in Partition
               /\ IsBatchEvent(s[1][i]) => ToSet(s[1][i].txs) # {}
        /\ \A i, j \in 1..Len(s[1]) :
               IsBatchEvent(s[1][i]) /\ IsBatchEvent(s[1][j]) /\ s[1][i].batch = s[1][j].batch
                   => s[1][i].txs = s[1][j].txs

VARIABLES
    script,         \* the history of this behaviour
    published,      \* how much of it has happened
    running

world == <<script, published, running>>
vars  == <<end_offset, crashes, bridge, forwarder, script, published, running>>

Init ==
    /\ TopicsInit /\ BridgeInit /\ ForwarderInit
    /\ \E s \in Scenarios : script = s[1] /\ running = s[2]
    /\ published = 0

\* Another service publishes the next record.
Publish ==
    /\ published < Len(script)
    /\ Grow(script[published + 1].partition)
    /\ published' = published + 1
    /\ UNCHANGED <<crashes, bridge, forwarder, script, running>>

RunBridge ==
    /\ "bridge" \in running
    /\ BridgeStep
    /\ UNCHANGED <<end_offset, forwarder, world>>

RunForwarder ==
    /\ "forwarder" \in running
    /\ ForwarderStep
    /\ UNCHANGED <<end_offset, bridge, world>>

Next == Publish \/ RunBridge \/ RunForwarder

Spec == Init /\ [][Next]_vars

\* Both containers are started again (restart: unless-stopped), and their loops
\* run on; nothing is owed by the services that publish.
Fairness ==
    /\ WF_vars(RunBridge /\ (\E p \in Partition : Append1(p)))
    /\ WF_vars(RunBridge /\ (EndPoll \/ CompleteReplay \/ PollOn \/ WriteSnapshot \/ Commit))
    /\ WF_vars(RunBridge /\ StartBridge)

FairSpec == Spec /\ Fairness

-----------------------------------------------------------------------------
(* The content of records *)

\* The records of partition p among the first n of the history.
Places(p, n) == {i \in 1..n : script[i].partition = p}
\* The record at its number in its partition.
Content(r) ==
    script[CHOOSE i \in Places(r[1], Len(script)) : Cardinality(Places(r[1], i)) = r[2]]
Events(s)  == [i \in DOMAIN s |-> Content(s[i])]

\* What the dashboard's views are computed from.
Shown      == Events(snapshot)
ShownRows  == SettlementRows(Shown)
Splunk     == {Content(r) : r \in indexed}

\* A snapshot with only the first copy of every record, each at its place.
FirstPlaces(s) == {i \in DOMAIN s : \A j \in 1..(i - 1) : s[j] # s[i]}
FirstCopies(s) == [i \in FirstPlaces(s) |-> s[i]]

\* The outcome of a batch that has a transaction of another batch comes after an
\* announcement of the batch, on the same partition.
OverlapsAnnounced ==
    \A i, k \in 1..Len(script) :
        /\ IsBatchEvent(script[i]) /\ BatchStatus[script[i].type] \in Final
        /\ IsBatchEvent(script[k]) /\ script[k].batch # script[i].batch
        /\ ToSet(script[i].txs) \cap ToSet(script[k].txs) # {}
        => \E j \in 1..(i - 1) :
               /\ IsBatchEvent(script[j]) /\ BatchStatus[script[j].type] \notin Final
               /\ script[j].batch = script[i].batch
               /\ script[j].partition = script[i].partition

\* A candidate has one acknowledgement, a failure one detection, on whatever topics, and
\* a transaction one capture.
AllRecords == {script[i] : i \in 1..Len(script)}
Unambiguous ==
    \A e, f \in AllRecords :
        /\ IsAck(e) /\ IsAck(f) /\ e.event = f.event
               => <<e.tx, e.status, e.action>> = <<f.tx, f.status, f.action>>
        /\ e.topic \in Annotation /\ f.topic \in Annotation /\ e.event = f.event
               => <<e.tx, e.stage>> = <<f.tx, f.stage>>
        /\ IsCapture(e) /\ IsCapture(f) /\ e.tx = f.tx => e.event = f.event

-----------------------------------------------------------------------------
(* Properties *)

TypeOK ==
    /\ BridgeTypeOK
    /\ ForwarderTypeOK
    /\ <<script, running>> \in Scenarios /\ published \in 0..Len(script)

\* A record that is published and not on the snapshot comes to be shown, through
\* kills, by a bridge that keeps all records.
Unshown(p) == \E i \in 1..end_offset[p] : ~ OnSnapshot(<<p, i>>)
EveryRecordIsShown ==
    (limit = 0 /\ "bridge" \in running /\ \E p \in Partition : Unshown(p))
        ~> (\A p \in Partition : ~ Unshown(p))

\* The outcome of a batch, once shown, is shown from then on (dashboard/server.py:
\* 235-238), although a killed bridge reads ready and processing events again and
\* appends them after the outcome.
OutcomeShownIsFinal ==
    [][LET before == SettlementRows(Events(snapshot))
           after  == SettlementRows(Events(snapshot'))
       IN  limit = 0 =>
               \A b \in DOMAIN before : before[b].status \in Final =>
                   b \in DOMAIN after /\ after[b] = before[b]]_snapshot

\* A transaction is settled, or at stake, in one batch at most, although batches
\* made anew after Kafka dropped the old ones may overlap them
\* (tests: "ignores_replayed_settlement_batch_with_reused_transactions").
SettledRowsDisjoint ==
    LET rows  == ShownRows
        final == {b \in DOMAIN rows : rows[b].status \in Final}
    IN  limit = 0 =>
            \A a, b \in final : a # b => ToSet(rows[a].txs) \cap ToSet(rows[b].txs) = {}

\* A capture on the snapshot is found in the settlement table: in the row of a
\* batch, or in exactly one collecting row.  (Of an outcome that names transactions
\* settled already only these names are kept, dashboard/server.py:229, 239-240: had its
\* batch not been announced, they would be on no row.)
EveryCaptureShown ==
    LET batches    == ShownRows
        pages      == CollectingRows(Shown)
        collecting(t) == {k \in DOMAIN pages : t \in ToSet(pages[k].txs)}
    IN  limit = 0 /\ OverlapsAnnounced =>
            \A t \in DOMAIN CaptureIndex(Shown) :
                IF \E b \in DOMAIN batches : t \in ToSet(batches[b].txs) THEN collecting(t) = {}
                ELSE Cardinality(collecting(t)) = 1

\* The records a killed bridge appends twice change no figure of the overview but the
\* event_rate, no detection, no payment link or its place, no collecting row and no
\* batch with an outcome or its money trail (tests: "uses_full_deduped_history").  They
\* do change what counts or lists the events themselves: the event_rate (dashboard/
\* server.py:579), the lists of the last events and the audit (118, 129-130, 583-601),
\* the statistics of the providers; and they may take a batch without an outcome back
\* to an earlier status.
Figures(E) == [Overview(E) EXCEPT !.event_rate = 0]
Pages(E) ==
    LET trails  == MoneyTrails(E)
        outcome == {b \in DOMAIN trails.batch : trails.batch[b].row.status \in Final}
    IN  <<Figures(E), DetectionRows(E), CustomerView(E), trails.collect,
          [b \in outcome |-> trails.batch[b]]>>
RepeatsAreInvisible ==
    limit = 0 /\ Unambiguous => Pages(Shown) = Pages(Events(FirstCopies(snapshot)))

\* The trace of a transaction has its source events as they were published, with
\* what Detection found beside them (dashboard/server.py:73: "Return source ingestion
\* events, attaching matching Detection annotations").
TraceKeepsSources ==
    \A i \in DOMAIN Shown :
        Shown[i].topic \notin Derived /\ Shown[i].tx # None =>
            CombinedTrace(Shown, Splunk, Shown[i].tx)[Shown[i].event].step = Shown[i]
=============================================================================
