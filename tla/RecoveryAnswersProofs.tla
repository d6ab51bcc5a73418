------------------------ MODULE RecoveryAnswersProofs ------------------------
(***************************************************************************)
(* Recovery: what the acknowledgements say, how many candidates may stay   *)
(* unregistered or unanswered, and the case book it keeps, for any         *)
(* transactions, actions and bounds.                                       *)
(*                                                                         *)
(* An acknowledgement counts from the moment the producer has accepted it, *)
(* and so does a capture: what is then delivered, given up or lost in a    *)
(* crash only takes from these sets.  The candidate in hand is the one     *)
(* exception of every count: a fault may lose it and nothing else.         *)
(***************************************************************************)
EXTENDS RecoveryProofs, FiniteSetTheorems

\* The acknowledgements and captures that are on their way or have arrived.
AckRecords    == [kind : {"ack"}, tx : Tx, event : Nat, version : Nat, recovered : BOOLEAN]
AllAcks       == acks \cup {r \in outbox : r.kind = "ack"}
Capturing(t)  == captures[t] \cup
                     {r.event : r \in {s \in outbox : s.kind = "capture" /\ s.tx = t}}
Executions(t) == {executed[t][i] : i \in 1..Len(executed[t])}

\* Acknowledgements name registered candidates, never the one in hand before
\* its own; a version is given to one candidate, the latest to the last stored.
AcksNameCandidates ==
    /\ \A a \in AllAcks :
          /\ a.event \in event_ids[a.tx]
          /\ a.version <= state[a.tx].version
          /\ a.version = state[a.tx].version => a.event = state[a.tx].last_event
    /\ \A a, b \in AllAcks : a.tx = b.tx /\ a.version = b.version => a.event = b.event
    /\ pc \in {"stored", "registered", "assessed", "sent"} => state[tx].last_event = event
    /\ pc \in {"registered", "assessed", "sent"} =>
          \A a \in AllAcks : a.tx = tx => a.event # event
    /\ pc \in {"registered", "assessed", "sent", "flush"} => event \in event_ids[tx]

\* Captures come from executions, and no acknowledgement denies one; the one
\* about to be written will not.
AcksTellCaptures ==
    /\ \A t \in Tx : Capturing(t) \subseteq Executions(t)
    /\ \A a \in AllAcks : a.event \in Capturing(a.tx) => a.recovered
    /\ pc = "sent" /\ event \in Capturing(tx) => Recovered

\* The offsets stay within the logs, the committed ones behind the positions.
OffsetsInOrder ==
    \A t \in Tx : committed[t] <= position[t] /\ position[t] <= Len(candidates[t])

\* The candidate in hand, and the candidates read up to k that nobody registered.
Hand      == IF pc \in {"down", "idle", "closing"} THEN {} ELSE {current}
Missed(k) == UNION {{t} \X (Read(t, k) \ event_ids[t]) : t \in Tx}
Skipped   == Missed(committed) \cup (Missed(position) \ Hand)

CountersTyped == {crashes, errors, stops, sendFaults} \subseteq Nat

\* Each exception may skip the candidate in hand; each stop one more.
SkippedCounted ==
    /\ IsFiniteSet(Skipped)
    /\ Cardinality(Skipped) + (IF stopping THEN 1 ELSE 0) <= errors + stops

\* The registered candidates that nothing on its way or arrived acknowledges,
\* but for the one in hand.
Awaiting(t) ==
    {n \in event_ids[t] :
        /\ ~ \E a \in AllAcks : a.tx = t /\ a.event = n
        /\ ~ (pc \in {"registered", "assessed", "sent"} /\ <<t, n>> = current)}
Unanswered == UNION {{t} \X Awaiting(t) : t \in Tx}

\* The producer holds acknowledgements of one candidate at most, and holds
\* nothing while the next one is assessed.
OneAckInOutbox ==
    /\ \A r, s \in outbox : r.kind = "ack" /\ s.kind = "ack" => r.tx = s.tx /\ r.event = s.event
    /\ pc \in {"down", "idle", "received", "stored", "registered", "assessed"} => outbox = {}
    /\ pc = "sent" => \A r \in outbox : r.kind # "ack"

\* Each kill, exception or record given up may leave one unanswered.
UnansweredCounted ==
    /\ IsFiniteSet(Unanswered)
    /\ Cardinality(Unanswered) <= crashes + errors + sendFaults
-----------------------------------------------------------------------------
(* What the acknowledgements say. *)

LEMMA AcksTyped ==
    ASSUME IInv
    PROVE  AllAcks \subseteq AckRecords
<1>1. acks \subseteq AckRecords
  BY DEF IInv, TypeOK, AckRecords
<1>2. \A r \in outbox : r.kind = "ack" => r \in AckRecords
  BY DEF IInv, Sent, AckRecords
<1> QED BY <1>1, <1>2 DEF AllAcks

\* Steps that add no acknowledgement and no capture and leave Redis and the
\* candidate in hand alone, or drop it.
LEMMA QuietAnswers ==
    ASSUME IInv, AcksNameCandidates, AcksTellCaptures,
           UNCHANGED <<state, event_ids, executed>>,
           AllAcks' \subseteq AllAcks,
           \A t \in Tx : Capturing(t)' \subseteq Capturing(t),
           \/ current' = current /\ pc' = pc
           \/ pc' \in {"down", "idle", "closing", "received"}
    PROVE  AcksNameCandidates' /\ AcksTellCaptures'
<1>1. \A a \in AllAcks : a.tx \in Tx
  BY AcksTyped DEF AckRecords
<1>2. \A t \in Tx : Executions(t)' = Executions(t)
  BY DEF Executions
<1>3. /\ \A t \in Tx : Capturing(t)' \subseteq Executions(t)'
      /\ \A a \in AllAcks' : a.event \in Capturing(a.tx)' => a.recovered
  BY <1>1, <1>2 DEF AcksTellCaptures
<1>4. CASE current' = current /\ pc' = pc
  <2>1. tx' = tx /\ event' = event
    BY <1>4 DEF tx, event
  <2>2. Recovered' = Recovered
    BY <2>1 DEF Recovered, Followups, Followup
  <2>3. pc = "sent" => tx \in Tx
    BY InHandTyped DEF IInv
  <2> QED BY <1>3, <1>4, <2>1, <2>2, <2>3 DEF AcksNameCandidates, AcksTellCaptures
<1>5. CASE pc' \in {"down", "idle", "closing", "received"}
  BY <1>3, <1>5 DEF AcksNameCandidates, AcksTellCaptures
<1> QED BY <1>4, <1>5

\* What the producer delivers stays on its way or arrived; what it gives up or
\* loses in a crash is gone.
LEMMA ProducerAnswers ==
    ASSUME IInv, NEW r \in outbox, Deliver(r) \/ GiveUp(r)
    PROVE  /\ AllAcks' \subseteq AllAcks
           /\ Deliver(r) => AllAcks' = AllAcks
           /\ \A t \in Tx : Capturing(t)' \subseteq Capturing(t)
<1>1. r \in Sent /\ r.tx \in Tx
  BY DEF IInv, Sent
<1>2. CASE Deliver(r)
  <2>1. AllAcks' = AllAcks
    BY <1>2 DEF Deliver, AllAcks
  <2>2. ASSUME NEW t \in Tx, NEW n \in Capturing(t)'
        PROVE  n \in Capturing(t)
    <3>1. captures'[t] \subseteq captures[t] \cup (IF r.kind = "capture" /\ r.tx = t
                                                   THEN {r.event} ELSE {})
      BY <1>1, <1>2 DEF Deliver, IInv, TypeOK
    <3>2. outbox' \subseteq outbox
      BY <1>2 DEF Deliver
    <3> QED BY <2>2, <3>1, <3>2 DEF Capturing
  <2> QED BY <2>1, <2>2
<1>3. CASE GiveUp(r)
  <2>1. acks' = acks /\ captures' = captures /\ outbox' \subseteq outbox
    BY <1>3 DEF GiveUp, topics
  <2>2. AllAcks' \subseteq AllAcks
    BY <2>1 DEF AllAcks
  <2>3. \A t \in Tx : Capturing(t)' \subseteq Capturing(t)
    BY <2>1 DEF Capturing
  <2>4. Deliver(r) => AllAcks' = AllAcks
    BY DEF Deliver, AllAcks
  <2> QED BY <2>2, <2>3, <2>4
<1> QED BY <1>2, <1>3

LEMMA StoreAnswers ==
    ASSUME IInv, AcksNameCandidates, AcksTellCaptures, StoreCandidate
    PROVE  AcksNameCandidates' /\ AcksTellCaptures'
<1>1. /\ tx \in Tx /\ event \in Nat /\ state[tx] \in State /\ tx' = tx /\ event' = event
      /\ pc' = "stored"
  BY InHandTyped DEF IInv, StoreCandidate, tx, event
<1>2. /\ AllAcks' = AllAcks /\ event_ids' = event_ids
      /\ \A t \in Tx : Capturing(t)' = Capturing(t) /\ Executions(t)' = Executions(t)
  BY DEF StoreCandidate, topics, AllAcks, Capturing, Executions
<1>3. /\ state'[tx].version = state[tx].version + 1 /\ state'[tx].last_event = event
      /\ \A t \in Tx : t # tx => state'[t] = state[t]
      /\ state[tx].version \in Nat
  BY <1>1 DEF StoreCandidate, Received, IInv, TypeOK, State
<1>4. \A a \in AllAcks : a.tx \in Tx /\ a.version \in Nat
  BY AcksTyped DEF AckRecords
<1>5. \A a \in AllAcks : /\ a.version <= state'[a.tx].version
                         /\ a.version = state'[a.tx].version => a.event = state'[a.tx].last_event
  BY <1>3, <1>4 DEF AcksNameCandidates
<1>6. AcksNameCandidates'
  BY <1>1, <1>2, <1>3, <1>5 DEF AcksNameCandidates
<1>7. AcksTellCaptures'
  BY <1>1, <1>2, <1>4 DEF AcksTellCaptures
<1> QED BY <1>6, <1>7

LEMMA RememberAnswers ==
    ASSUME IInv, AcksNameCandidates, AcksTellCaptures, RememberEvent
    PROVE  AcksNameCandidates' /\ AcksTellCaptures'
<1>1. /\ tx \in Tx /\ tx' = tx /\ event' = event /\ pc = "stored" /\ pc' = "registered"
      /\ state' = state
  BY InHandTyped DEF IInv, RememberEvent, tx, event
<1>2. /\ AllAcks' = AllAcks
      /\ \A t \in Tx : Capturing(t)' = Capturing(t) /\ Executions(t)' = Executions(t)
  BY DEF RememberEvent, topics, AllAcks, Capturing, Executions
<1>3. /\ event \in event_ids'[tx]
      /\ \A t \in Tx : event_ids[t] \subseteq event_ids'[t]
  BY <1>1 DEF RememberEvent, IInv, TypeOK
<1>4. \A a \in AllAcks : a.tx \in Tx
  BY AcksTyped DEF AckRecords
<1>5. \A a \in AllAcks : a.tx = tx => a.event # event
  BY <1>1 DEF IInv, ExecutedIsRegistered, AcksNameCandidates
<1>6. AcksNameCandidates'
  BY <1>1, <1>2, <1>3, <1>4, <1>5 DEF AcksNameCandidates
<1>7. AcksTellCaptures'
  BY <1>1, <1>2, <1>4 DEF AcksTellCaptures
<1> QED BY <1>6, <1>7

LEMMA AssessAnswers ==
    ASSUME IInv, AcksNameCandidates, AcksTellCaptures,
           NEW a \in Action \cup {"none"}, Assess(a)
    PROVE  AcksNameCandidates' /\ AcksTellCaptures'
<1>1. /\ tx \in Tx /\ state[tx] \in State /\ tx' = tx /\ event' = event
      /\ pc = "registered" /\ pc' = "assessed" /\ event_ids' = event_ids
  BY InHandTyped DEF IInv, Assess, tx, event
<1>2. /\ AllAcks' = AllAcks
      /\ \A t \in Tx : Capturing(t)' = Capturing(t) /\ Executions(t)' = Executions(t)
  BY DEF Assess, topics, AllAcks, Capturing, Executions
<1>3. \A t \in Tx : /\ state'[t].version = state[t].version
                    /\ state'[t].last_event = state[t].last_event
  <2>1. /\ state'[tx] = Assessed(state[tx], a)
        /\ \A t \in Tx : t # tx => state'[t] = state[t]
    BY <1>1 DEF Assess, IInv, TypeOK
  <2>2. /\ Assessed(state[tx], a).version = state[tx].version
        /\ Assessed(state[tx], a).last_event = state[tx].last_event
    BY <1>1 DEF Assessed, State
  <2> QED BY <2>1, <2>2
<1>4. \A b \in AllAcks : b.tx \in Tx
  BY AcksTyped DEF AckRecords
<1>5. AcksNameCandidates'
  BY <1>1, <1>2, <1>3, <1>4 DEF AcksNameCandidates
<1>6. AcksTellCaptures'
  BY <1>1, <1>2, <1>4 DEF AcksTellCaptures
<1> QED BY <1>5, <1>6

LEMMA FollowupsAnswers ==
    ASSUME IInv, AcksNameCandidates, AcksTellCaptures, SendFollowups
    PROVE  AcksNameCandidates' /\ AcksTellCaptures'
<1>1. /\ tx \in Tx /\ event \in Nat /\ tx' = tx /\ event' = event
      /\ pc = "assessed" /\ pc' = "sent" /\ UNCHANGED <<state, event_ids, acks, captures>>
  BY InHandTyped DEF IInv, SendFollowups, tx, event, redis, topics
<1>2. /\ Followups \subseteq {Followup("capture"), Followup("failure")}
      /\ Followup("capture").kind = "capture" /\ Followup("failure").kind = "failure"
      /\ Followup("capture").tx = tx /\ Followup("capture").event = event
  BY DEF Followups, Followup
<1>3. AllAcks' = AllAcks
  BY <1>1, <1>2 DEF SendFollowups, AllAcks
<1>4. /\ \A t \in Tx : t # tx => Capturing(t)' = Capturing(t)
      /\ Capturing(tx)' \subseteq Capturing(tx) \cup (IF Recovered THEN {event} ELSE {})
  BY <1>1, <1>2 DEF SendFollowups, Capturing, Recovered
<1>5. /\ \A t \in Tx : Executions(t) \subseteq Executions(t)'
      /\ state[tx].action # "none" => event \in Executions(tx)'
  <2>1. CASE state[tx].action = "none"
    BY <2>1 DEF SendFollowups, Executions
  <2>2. CASE state[tx].action # "none"
    <3>1. /\ executed'[tx] = Append(executed[tx], event)
          /\ \A t \in Tx : t # tx => executed'[t] = executed[t]
          /\ executed[tx] \in Seq(Nat)
      BY <1>1, <2>2 DEF SendFollowups, IInv, TypeOK
    <3>2. /\ Len(executed'[tx]) = Len(executed[tx]) + 1 /\ Len(executed[tx]) \in Nat
          /\ executed'[tx][Len(executed[tx]) + 1] = event
          /\ \A i \in 1..Len(executed[tx]) : executed'[tx][i] = executed[tx][i]
      BY <1>1, <3>1
    <3>3. event \in Executions(tx)' /\ Executions(tx) \subseteq Executions(tx)'
      <4>1. /\ Len(executed[tx]) + 1 \in 1..Len(executed'[tx])
            /\ \A i \in 1..Len(executed[tx]) : i \in 1..Len(executed'[tx])
        BY <3>2
      <4> QED BY <1>1, <3>2, <4>1 DEF Executions
    <3>4. \A t \in Tx : t # tx => Executions(t)' = Executions(t)
      BY <3>1 DEF Executions
    <3> QED BY <1>1, <3>3, <3>4
  <2> QED BY <2>1, <2>2
<1>6. Recovered => state[tx].action # "none"
  BY DEF Recovered, Followups
<1>7. event \notin Capturing(tx)
  <2>1. event \notin Executions(tx)
    BY <1>1 DEF IInv, ExecutedIsRegistered, Executions
  <2> QED BY <1>1, <2>1 DEF AcksTellCaptures
<1>8. \A a \in AllAcks : a.tx \in Tx /\ (a.tx = tx => a.event # event)
  BY <1>1, AcksTyped DEF AckRecords, AcksNameCandidates
<1>9. Recovered' = Recovered
  BY <1>1 DEF Recovered, Followups, Followup
<1>10. AcksNameCandidates'
  BY <1>1, <1>3 DEF AcksNameCandidates
<1>11. \A t \in Tx : Capturing(t)' \subseteq Executions(t)'
  <2>1. Capturing(tx)' \subseteq Executions(tx)'
    BY <1>1, <1>4, <1>5, <1>6 DEF AcksTellCaptures
  <2>2. \A t \in Tx : t # tx => Capturing(t)' \subseteq Executions(t)'
    BY <1>4, <1>5 DEF AcksTellCaptures
  <2> QED BY <1>1, <2>1, <2>2
<1>12. \A a \in AllAcks' : a.event \in Capturing(a.tx)' => a.recovered
  <2>1. ASSUME NEW a \in AllAcks, a.event \in Capturing(a.tx)' PROVE a.event \in Capturing(a.tx)
    BY <1>1, <1>4, <1>8, <2>1
  <2> QED BY <1>3, <2>1 DEF AcksTellCaptures
<1>13. event \in Capturing(tx)' => Recovered
  BY <1>4, <1>7
<1> QED BY <1>1, <1>9, <1>10, <1>11, <1>12, <1>13 DEF AcksTellCaptures

LEMMA AckAnswers ==
    ASSUME IInv, AcksNameCandidates, AcksTellCaptures, SendAck
    PROVE  AcksNameCandidates' /\ AcksTellCaptures'
<1>1. /\ tx \in Tx /\ event \in Nat /\ tx' = tx /\ event' = event /\ state[tx] \in State
      /\ pc = "sent" /\ pc' = "flush"
      /\ UNCHANGED <<state, event_ids, acks, captures, executed>>
  BY InHandTyped DEF IInv, SendAck, tx, event, redis, topics
<1> DEFINE new == Ack(Recovered)
<1>2. /\ new.tx = tx /\ new.event = event /\ new.version = state[tx].version
      /\ new.kind = "ack" /\ new.recovered = Recovered
  BY DEF Ack
<1>3. outbox' = outbox \cup {new}
  BY DEF SendAck, Acknowledgement
<1>4. AllAcks' = AllAcks \cup {new}
  BY <1>1, <1>2, <1>3 DEF AllAcks
<1>5. \A t \in Tx : Capturing(t)' = Capturing(t) /\ Executions(t)' = Executions(t)
  BY <1>1, <1>2, <1>3 DEF Capturing, Executions
<1>6. state[tx].version \in Nat /\ state[tx].last_event = event /\ event \in event_ids[tx]
  BY <1>1 DEF State, AcksNameCandidates
<1>7. \A a \in AllAcks : a.tx \in Tx
  BY AcksTyped DEF AckRecords
<1> HIDE DEF new
<1>8. AcksNameCandidates'
  <2>1. \A a \in AllAcks' :
          /\ a.event \in event_ids[a.tx]
          /\ a.version <= state[a.tx].version
          /\ a.version = state[a.tx].version => a.event = state[a.tx].last_event
    BY <1>2, <1>4, <1>6 DEF AcksNameCandidates
  <2>2. \A a \in AllAcks : a.tx = tx /\ a.version = state[tx].version => a.event = event
    BY <1>6 DEF AcksNameCandidates
  <2>3. \A a, b \in AllAcks' : a.tx = b.tx /\ a.version = b.version => a.event = b.event
    BY <1>2, <1>4, <2>2 DEF AcksNameCandidates
  <2> QED BY <1>1, <1>6, <2>1, <2>3 DEF AcksNameCandidates
<1>9. AcksTellCaptures'
  BY <1>1, <1>2, <1>4, <1>5, <1>7 DEF AcksTellCaptures
<1> QED BY <1>8, <1>9

LEMMA StepAnswers ==
    ASSUME IInv, [Next]_vars, AcksNameCandidates, AcksTellCaptures
    PROVE  AcksNameCandidates' /\ AcksTellCaptures'
<1> DEFINE Quiet == /\ UNCHANGED <<state, event_ids, executed, acks, captures>>
                    /\ outbox' \subseteq outbox
                    /\ \/ current' = current /\ pc' = pc
                       \/ pc' \in {"down", "idle", "closing", "received"}
<1>1. ASSUME Quiet PROVE AcksNameCandidates' /\ AcksTellCaptures'
  <2>1. AllAcks' \subseteq AllAcks
    BY <1>1 DEF AllAcks
  <2>2. \A t \in Tx : Capturing(t)' \subseteq Capturing(t)
    BY <1>1 DEF Capturing
  <2> QED BY <1>1, <2>1, <2>2, QuietAnswers
<1>2. ASSUME NEW t \in Tx, Fail(t) \/ Take(t) \/ Leave(t) PROVE Quiet
  BY <1>2 DEF Fail, Take, Leave, topics, redis
<1>3. ASSUME NEW t \in Tx, NEW n \in 1..failures[t], Detect(t, n) PROVE Quiet
  BY <1>3 DEF Detect, redis
<1>4. ASSUME NEW r \in outbox, Deliver(r) \/ GiveUp(r)
      PROVE  AcksNameCandidates' /\ AcksTellCaptures'
  <2>1. UNCHANGED <<state, event_ids, executed>> /\ current' = current /\ pc' = pc
    BY <1>4 DEF Deliver, GiveUp, redis
  <2> QED BY <1>4, <2>1, ProducerAnswers, QuietAnswers
<1>5. CASE Poll \/ SkipDuplicate \/ Flush \/ Reconnect \/ Stop \/ Restart \/ UNCHANGED vars
  <2>1. Quiet
    BY <1>5 DEF Poll, SkipDuplicate, Flush, Reconnect, Stop, Restart, vars, topics, redis
  <2> QED BY <1>1, <2>1
<1>6. CASE Error
  <2>1. Quiet
    BY <1>6 DEF Error, topics, redis
  <2> QED BY <1>1, <2>1
<1>7. CASE Crash
  <2>1. Quiet
    BY <1>7 DEF Crash, topics, redis
  <2> QED BY <1>1, <2>1
<1>8. CASE StoreCandidate \/ RememberEvent \/ SendFollowups \/ SendAck
  BY <1>8, StoreAnswers, RememberAnswers, FollowupsAnswers, AckAnswers
<1>9. ASSUME NEW a \in Action \cup {"none"}, Assess(a)
      PROVE  AcksNameCandidates' /\ AcksTellCaptures'
  BY <1>9, AssessAnswers
<1> HIDE DEF Quiet
<1> QED BY <1>1, <1>2, <1>3, <1>4, <1>5, <1>6, <1>7, <1>8, <1>9 DEF Next

-----------------------------------------------------------------------------
(* Counting. *)

LEMMA CountGrows ==
    ASSUME NEW S, NEW T, NEW x, IsFiniteSet(S), T \subseteq S \cup {x}
    PROVE  /\ IsFiniteSet(T)
           /\ Cardinality(T) \in Nat /\ Cardinality(S) \in Nat
           /\ Cardinality(T) <= Cardinality(S) + 1
<1>1. /\ IsFiniteSet(S \cup {x})
      /\ Cardinality(S \cup {x}) = Cardinality(S) \/ Cardinality(S \cup {x}) = Cardinality(S) + 1
  BY FS_AddElement
<1>2. IsFiniteSet(T) /\ Cardinality(T) <= Cardinality(S \cup {x})
  BY <1>1, FS_Subset
<1>3. Cardinality(T) \in Nat /\ Cardinality(S) \in Nat
  BY <1>2, FS_CardinalityType
<1> QED BY <1>1, <1>2, <1>3

LEMMA CountShrinks ==
    ASSUME NEW S, NEW T, IsFiniteSet(S), T \subseteq S
    PROVE  /\ IsFiniteSet(T)
           /\ Cardinality(T) \in Nat /\ Cardinality(S) \in Nat
           /\ Cardinality(T) <= Cardinality(S)
<1>1. IsFiniteSet(T) /\ Cardinality(T) <= Cardinality(S)
  BY FS_Subset
<1> QED BY <1>1, FS_CardinalityType

LEMMA StepCounters ==
    ASSUME CountersTyped, [Next]_vars
    PROVE  CountersTyped'
<1>1. ASSUME NEW t \in Tx, Fail(t) \/ Take(t) \/ Leave(t) PROVE CountersTyped'
  BY <1>1 DEF CountersTyped, Fail, Take, Leave, bounds
<1>2. ASSUME NEW t \in Tx, NEW n \in 1..failures[t], Detect(t, n) PROVE CountersTyped'
  BY <1>2 DEF CountersTyped, Detect
<1>3. ASSUME NEW r \in outbox, Deliver(r) \/ GiveUp(r) PROVE CountersTyped'
  BY <1>3 DEF CountersTyped, Deliver, GiveUp, bounds
<1>4. ASSUME NEW a \in Action \cup {"none"}, Assess(a) PROVE CountersTyped'
  BY <1>4 DEF CountersTyped, Assess, bounds
<1>5. CASE Poll \/ SkipDuplicate \/ Flush \/ Reconnect \/ Restart \/ UNCHANGED vars
  BY <1>5 DEF CountersTyped, Poll, SkipDuplicate, Flush, Reconnect, Restart, vars, bounds
<1>6. CASE StoreCandidate \/ RememberEvent \/ SendFollowups \/ SendAck
  BY <1>6 DEF CountersTyped, StoreCandidate, RememberEvent, SendFollowups, SendAck, bounds
<1>7. CASE Error \/ Crash \/ Stop
  BY <1>7 DEF CountersTyped, Error, Crash, Stop
<1> QED BY <1>1, <1>2, <1>3, <1>4, <1>5, <1>6, <1>7 DEF Next

LEMMA StepOffsets ==
    ASSUME IInv, [Next]_vars, OffsetsInOrder
    PROVE  OffsetsInOrder'
<1>1. \A t \in Tx : position[t] \in Nat /\ committed[t] \in Nat /\ candidates[t] \in Seq(Nat)
                    /\ Len(candidates[t]) \in Nat
  BY DEF IInv, TypeOK
<1>2. ASSUME NEW t \in Tx, Take(t) \/ Leave(t) PROVE OffsetsInOrder'
  <2>1. /\ position' = [position EXCEPT ![t] = position[t] + 1]
        /\ position[t] < Len(candidates[t]) /\ candidates' = candidates
        /\ committed' \in {committed, position'}
    BY <1>2 DEF Take, Leave, topics
  <2>2. \A s \in Tx : position'[s] \in Nat /\ position[s] <= position'[s]
                      /\ position'[s] <= Len(candidates[s])
    <3>1. ASSUME NEW s \in Tx
          PROVE  position'[s] = IF s = t THEN position[s] + 1 ELSE position[s]
      BY <2>1 DEF IInv, TypeOK
    <3> QED BY <1>1, <2>1, <3>1 DEF OffsetsInOrder
  <2>3. CASE committed' = committed
    BY <1>1, <2>1, <2>2, <2>3 DEF OffsetsInOrder
  <2>4. CASE committed' = position'
    BY <2>1, <2>2, <2>4 DEF OffsetsInOrder
  <2> QED BY <2>1, <2>3, <2>4
<1>3. ASSUME NEW t \in Tx, NEW n \in 1..failures[t], Detect(t, n) PROVE OffsetsInOrder'
  <2>1. /\ candidates'[t] = Append(candidates[t], n)
        /\ \A s \in Tx : s # t => candidates'[s] = candidates[s]
        /\ UNCHANGED <<position, committed>>
    BY <1>3 DEF Detect, IInv, TypeOK
  <2>2. Len(Append(candidates[t], n)) = Len(candidates[t]) + 1
    <3>1. n \in Nat
      BY DEF IInv, TypeOK
    <3> QED BY <1>1, <3>1
  <2>3. ASSUME NEW s \in Tx
        PROVE  Len(candidates'[s]) \in Nat /\ Len(candidates[s]) <= Len(candidates'[s])
    <3>1. CASE s = t
      <4>1. Len(candidates'[s]) = Len(candidates[s]) + 1
        BY <2>1, <2>2, <3>1
      <4> QED BY <1>1, <4>1
    <3>2. CASE s # t
      BY <1>1, <2>1, <3>2
    <3> QED BY <3>1, <3>2
  <2> QED BY <1>1, <2>1, <2>3 DEF OffsetsInOrder
<1>4. ASSUME UNCHANGED candidates,
             \/ UNCHANGED <<position, committed>>
             \/ committed' = position /\ position' = position
             \/ position' = committed' /\ committed' \in {position, committed}
      PROVE  OffsetsInOrder'
  BY <1>1, <1>4 DEF OffsetsInOrder
<1>5. ASSUME NEW t \in Tx, Fail(t) PROVE OffsetsInOrder'
  BY <1>4, <1>5 DEF Fail
<1>6. ASSUME NEW r \in outbox, Deliver(r) \/ GiveUp(r) PROVE OffsetsInOrder'
  BY <1>4, <1>6 DEF Deliver, GiveUp, topics
<1>7. ASSUME NEW a \in Action \cup {"none"}, Assess(a) PROVE OffsetsInOrder'
  BY <1>4, <1>7 DEF Assess, topics
<1>8. CASE Poll \/ SkipDuplicate \/ Flush \/ Reconnect \/ Restart \/ UNCHANGED vars
  BY <1>4, <1>8 DEF Poll, SkipDuplicate, Flush, Reconnect, Restart, vars, topics
<1>9. CASE StoreCandidate \/ RememberEvent \/ SendFollowups \/ SendAck
  BY <1>4, <1>9 DEF StoreCandidate, RememberEvent, SendFollowups, SendAck, topics
<1>10. CASE Error \/ Crash \/ Stop
  BY <1>4, <1>10 DEF Error, Crash, Stop, topics
<1> QED BY <1>2, <1>3, <1>5, <1>6, <1>7, <1>8, <1>9, <1>10 DEF Next

-----------------------------------------------------------------------------
(* Candidates that were read and never registered. *)

\* Reading one record more of t reads one candidate more.
LEMMA ReadOneMore ==
    ASSUME IInv, NEW t \in Tx, NEW k, k = [position EXCEPT ![t] = position[t] + 1]
    PROVE  Missed(k) \subseteq Missed(position) \cup {<<t, candidates[t][position[t] + 1]>>}
<1>1. position[t] \in Nat /\ k[t] = position[t] + 1 /\ \A s \in Tx : s # t => k[s] = position[s]
  BY DEF IInv, TypeOK
<1>2. \A i \in 1..k[t] : i \in 1..position[t] \/ i = position[t] + 1
  BY <1>1
<1>3. Read(t, k) \subseteq Read(t, position) \cup {candidates[t][position[t] + 1]}
  BY <1>2 DEF Read
<1>4. \A s \in Tx : s # t => Read(s, k) = Read(s, position)
  BY <1>1 DEF Read
<1>5. ASSUME NEW s \in Tx, NEW n \in Read(s, k) \ event_ids[s]
      PROVE  <<s, n>> \in Missed(position) \/ <<s, n>> = <<t, candidates[t][position[t] + 1]>>
  <2>1. n \in Read(s, position) \/ (s = t /\ n = candidates[t][position[t] + 1])
    BY <1>3, <1>4
  <2> QED BY <2>1 DEF Missed
<1>6. ASSUME NEW c \in Missed(k)
      PROVE  c \in Missed(position) \cup {<<t, candidates[t][position[t] + 1]>>}
  <2>1. PICK s \in Tx : c \in {s} \X (Read(s, k) \ event_ids[s])
    BY DEF Missed
  <2>2. PICK n \in Read(s, k) \ event_ids[s] : c = <<s, n>>
    BY <2>1
  <2> QED BY <1>5, <2>2
<1> QED BY <1>6

\* What is committed is read.
LEMMA CommittedIsRead ==
    ASSUME IInv, OffsetsInOrder
    PROVE  Missed(committed) \subseteq Missed(position)
<1>1. \A t \in Tx : committed[t] \in Nat /\ position[t] \in Nat /\ committed[t] <= position[t]
  BY DEF IInv, TypeOK, OffsetsInOrder
<1>2. \A t \in Tx : \A i \in 1..committed[t] : i \in 1..position[t]
  BY <1>1
<1>3. \A t \in Tx : Read(t, committed) \subseteq Read(t, position)
  BY <1>2 DEF Read
<1> QED BY <1>3 DEF Missed

\* While the process has nothing in hand, what was read counts in full.
LEMMA NothingInHand ==
    ASSUME IInv, OffsetsInOrder, pc \in {"down", "idle", "closing"}
    PROVE  Skipped = Missed(position)
BY CommittedIsRead DEF Skipped, Hand

\* Steps that skip nothing, take nothing in hand and drop nothing from it.
LEMMA QuietSkips ==
    ASSUME SkippedCounted, CountersTyped,
           Skipped' \subseteq Skipped,
           \/ UNCHANGED <<errors, stops, stopping>>
           \/ UNCHANGED <<errors, stops>> /\ ~ stopping'
           \/ errors' = errors /\ stops' = stops + 1 /\ ~ stopping
    PROVE  SkippedCounted'
<1>1. /\ IsFiniteSet(Skipped') /\ Cardinality(Skipped') \in Nat /\ Cardinality(Skipped) \in Nat
      /\ Cardinality(Skipped') <= Cardinality(Skipped)
  BY CountShrinks DEF SkippedCounted
<1>2. errors \in Nat /\ stops \in Nat
  BY DEF CountersTyped
<1> QED BY <1>1, <1>2 DEF SkippedCounted

\* A step that skips one candidate is an exception, or ends a stop.
LEMMA OneSkipped ==
    ASSUME SkippedCounted, CountersTyped,
           NEW x, Skipped' \subseteq Skipped \cup {x},
           \/ errors' = errors + 1 /\ UNCHANGED <<stops, stopping>>
           \/ UNCHANGED <<errors, stops>> /\ stopping /\ ~ stopping'
    PROVE  SkippedCounted'
<1>1. /\ IsFiniteSet(Skipped') /\ Cardinality(Skipped') \in Nat /\ Cardinality(Skipped) \in Nat
      /\ Cardinality(Skipped') <= Cardinality(Skipped) + 1
  BY CountGrows DEF SkippedCounted
<1>2. errors \in Nat /\ stops \in Nat
  BY DEF CountersTyped
<1> QED BY <1>1, <1>2 DEF SkippedCounted

LEMMA StepSkipped ==
    ASSUME IInv, [Next]_vars, OffsetsInOrder, SkippedCounted, CountersTyped,
           AcksNameCandidates
    PROVE  SkippedCounted'
<1>1. ASSUME UNCHANGED <<candidates, position, committed, event_ids>>,
             Hand' = Hand
      PROVE  Skipped' = Skipped
  BY <1>1 DEF Skipped, Missed, Read
\* Nothing is read, committed or registered.
<1>2. ASSUME NEW t \in Tx, Fail(t) PROVE SkippedCounted'
  <2>1. Hand' = Hand
    BY <1>2 DEF Fail, Hand
  <2> QED BY <1>1, <1>2, <2>1, QuietSkips DEF Fail, redis
<1>3. ASSUME NEW r \in outbox, Deliver(r) \/ GiveUp(r) PROVE SkippedCounted'
  <2>1. Hand' = Hand
    BY <1>3 DEF Deliver, GiveUp, Hand
  <2>2. /\ UNCHANGED <<candidates, position, committed, event_ids>>
        /\ UNCHANGED <<errors, stops, stopping>>
    BY <1>3 DEF Deliver, GiveUp, redis, topics, bounds
  <2> QED BY <1>1, <2>1, <2>2, QuietSkips
<1>4. ASSUME NEW a \in Action \cup {"none"}, Assess(a) PROVE SkippedCounted'
  <2>1. Hand' = Hand
    BY <1>4 DEF Assess, Hand
  <2> QED BY <1>1, <1>4, <2>1, QuietSkips DEF Assess, topics, bounds
<1>5. CASE StoreCandidate \/ SendFollowups \/ SendAck
  <2>1. Hand' = Hand
    BY <1>5 DEF StoreCandidate, SendFollowups, SendAck, Hand
  <2>2. /\ UNCHANGED <<candidates, position, committed, event_ids>>
        /\ UNCHANGED <<errors, stops, stopping>>
    BY <1>5 DEF StoreCandidate, SendFollowups, SendAck, redis, topics, bounds
  <2> QED BY <1>1, <2>1, <2>2, QuietSkips
<1>6. CASE Reconnect \/ Restart \/ Stop \/ UNCHANGED vars
  <2>1. Hand' = Hand
    BY <1>6 DEF Reconnect, Restart, Stop, vars, Hand
  <2>2. UNCHANGED <<candidates, position, committed, event_ids>>
    BY <1>6 DEF Reconnect, Restart, Stop, vars, redis, topics
  <2>3. \/ UNCHANGED <<errors, stops, stopping>>
        \/ UNCHANGED <<errors, stops>> /\ ~ stopping'
        \/ errors' = errors /\ stops' = stops + 1 /\ ~ stopping
    BY <1>6 DEF Reconnect, Restart, Stop, vars, bounds
  <2> QED BY <1>1, <2>1, <2>2, <2>3, QuietSkips
\* A new record lies behind everything that was read.
<1>7. ASSUME NEW t \in Tx, NEW n \in 1..failures[t], Detect(t, n) PROVE SkippedCounted'
  <2>1. /\ UNCHANGED <<position, committed, event_ids, pc, current, errors, stops, stopping>>
        /\ candidates' = [candidates EXCEPT ![t] = Append(candidates[t], n)]
    BY <1>7 DEF Detect, redis
  <2>2. \A s \in Tx : \A i \in 1..Len(candidates[s]) : candidates'[s][i] = candidates[s][i]
    <3>1. n \in Nat /\ candidates[t] \in Seq(Nat)
      BY DEF IInv, TypeOK
    <3>2. \A i \in 1..Len(candidates[t]) : Append(candidates[t], n)[i] = candidates[t][i]
      BY <3>1
    <3> QED BY <2>1, <3>2 DEF IInv, TypeOK
  <2>3. \A s \in Tx : /\ position[s] \in Nat /\ committed[s] \in Nat
                      /\ Len(candidates[s]) \in Nat
                      /\ position[s] <= Len(candidates[s]) /\ committed[s] <= position[s]
    BY DEF IInv, TypeOK, OffsetsInOrder
  <2>4. \A s \in Tx : /\ \A i \in 1..position[s] : i \in 1..Len(candidates[s])
                      /\ \A i \in 1..committed[s] : i \in 1..Len(candidates[s])
    BY <2>3
  <2>5. \A s \in Tx : Read(s, position)' = Read(s, position)
                      /\ Read(s, committed)' = Read(s, committed)
    BY <2>1, <2>2, <2>4 DEF Read
  <2>6. Skipped' = Skipped
    BY <2>1, <2>5 DEF Skipped, Missed, Hand
  <2> QED BY <2>1, <2>6, QuietSkips
\* Nothing is in hand when the positions are committed.
<1>8. CASE Poll
  <2>1. /\ UNCHANGED <<position, candidates, event_ids, errors, stops, stopping>>
        /\ committed' = position /\ pc = "idle" /\ pc' = "idle"
    BY <1>8 DEF Poll, redis, topics, bounds
  <2>2. Skipped = Missed(position)
    BY <2>1, NothingInHand
  <2>3. Missed(position)' = Missed(position) /\ Missed(committed)' = Missed(position)
    BY <2>1 DEF Missed, Read
  <2>4. Skipped' = Skipped
    BY <2>1, <2>2, <2>3 DEF Skipped, Hand
  <2> QED BY <2>1, <2>4, QuietSkips
\* The candidate taken is in hand.
<1>9. ASSUME NEW t \in Tx, Take(t) PROVE SkippedCounted'
  <2>1. /\ UNCHANGED <<committed, candidates, event_ids, errors, stops, stopping>>
        /\ position' = [position EXCEPT ![t] = position[t] + 1]
        /\ current' = <<t, candidates[t][position[t] + 1]>>
        /\ pc = "idle" /\ pc' = "received"
    BY <1>9 DEF Take, redis, topics, bounds
  <2>2. Missed(position') \subseteq Missed(position) \cup {current'}
    BY <2>1, ReadOneMore
  <2>3. Missed(position)' = Missed(position') /\ Missed(committed)' = Missed(committed)
    BY <2>1 DEF Missed, Read
  <2>4. Skipped' \subseteq Skipped
    BY <2>1, <2>2, <2>3 DEF Skipped, Hand
  <2> QED BY <2>1, <2>4, QuietSkips
\* A signal skips the record at which the loop notices it.
<1>10. ASSUME NEW t \in Tx, Leave(t) PROVE SkippedCounted'
  <2>1. /\ UNCHANGED <<candidates, event_ids, errors, stops>>
        /\ position' = [position EXCEPT ![t] = position[t] + 1] /\ committed' = position'
        /\ stopping /\ ~ stopping' /\ pc = "idle" /\ pc' = "down"
    BY <1>10 DEF Leave, redis, topics, bounds
  <2> DEFINE x == <<t, candidates[t][position[t] + 1]>>
  <2>2. Missed(position') \subseteq Missed(position) \cup {x}
    BY <2>1, ReadOneMore
  <2>3. Missed(position)' = Missed(position') /\ Missed(committed)' = Missed(position')
    BY <2>1 DEF Missed, Read
  <2>4. Skipped' \subseteq Skipped \cup {x}
    BY <2>1, <2>2, <2>3, NothingInHand DEF Skipped, Hand
  <2> QED BY <2>1, <2>4, OneSkipped
\* A candidate leaves the hand when it is registered.
<1>11. CASE SkipDuplicate \/ Flush
  <2>1. /\ UNCHANGED <<committed, position, candidates, event_ids, errors, stops, stopping>>
        /\ pc' = "idle"
    BY <1>11 DEF SkipDuplicate, Flush, redis, topics, bounds
  <2>2. /\ pc \in {"received", "flush"} /\ event \in event_ids[tx]
        /\ tx \in Tx /\ current = <<tx, event>>
    BY <1>11, InHandTyped DEF SkipDuplicate, Seen, Flush, AcksNameCandidates, IInv, tx, event
  <2>3. current \notin Missed(position)
    BY <2>2 DEF Missed
  <2>4. Skipped' \subseteq Skipped
    BY <2>1, <2>3 DEF Skipped, Missed, Read, Hand
  <2> QED BY <2>1, <2>4, QuietSkips
<1>12. CASE RememberEvent
  <2>1. /\ UNCHANGED <<committed, position, candidates, current, errors, stops, stopping>>
        /\ pc = "stored" /\ pc' = "registered"
        /\ event_ids' = [event_ids EXCEPT ![tx] = event_ids[tx] \cup {event}]
    BY <1>12 DEF RememberEvent, topics, bounds
  <2>2. \A t \in Tx : event_ids[t] \subseteq event_ids'[t]
    BY <2>1 DEF IInv, TypeOK
  <2>3. Missed(position)' \subseteq Missed(position) /\ Missed(committed)' \subseteq Missed(committed)
    BY <2>1, <2>2 DEF Missed, Read
  <2>4. Skipped' \subseteq Skipped
    BY <2>1, <2>3 DEF Skipped, Hand
  <2> QED BY <2>1, <2>4, QuietSkips
\* A kill returns to what is committed; an exception may skip what is in hand.
<1>13. CASE Crash
  <2>1. /\ UNCHANGED <<committed, candidates, event_ids, errors, stops>>
        /\ position' = committed /\ pc' = "down" /\ ~ stopping'
    BY <1>13 DEF Crash, redis, topics
  <2>2. Missed(position)' = Missed(committed) /\ Missed(committed)' = Missed(committed)
    BY <2>1 DEF Missed, Read
  <2>3. Skipped' \subseteq Skipped
    BY <2>1, <2>2 DEF Skipped, Hand
  <2> QED BY <2>1, <2>3, QuietSkips
<1>14. CASE Error
  <2>1. /\ UNCHANGED <<candidates, event_ids, stops, stopping>> /\ errors' = errors + 1
        /\ position' = committed' /\ committed' \in {position, committed} /\ pc' = "closing"
    BY <1>14 DEF Error, redis, topics
  <2>2. Missed(position)' = Missed(committed') /\ Missed(committed)' = Missed(committed')
    BY <2>1 DEF Missed, Read
  <2>3. Missed(committed') \subseteq Missed(position)
    BY <2>1, CommittedIsRead
  <2>4. Skipped' \subseteq Skipped \cup {current}
    BY <2>1, <2>2, <2>3 DEF Skipped, Hand
  <2> QED BY <2>1, <2>4, OneSkipped
<1> QED BY <1>2, <1>3, <1>4, <1>5, <1>6, <1>7, <1>8, <1>9, <1>10, <1>11, <1>12, <1>13, <1>14 DEF Next

-----------------------------------------------------------------------------
(* Candidates that were registered and not acknowledged. *)

LEMMA StepOutbox ==
    ASSUME IInv, [Next]_vars, OneAckInOutbox
    PROVE  OneAckInOutbox'
<1> DEFINE Early == {"down", "idle", "received", "stored", "registered", "assessed"}
<1>1. ASSUME outbox' \subseteq outbox, pc' = pc \/ pc' = "closing" \/ outbox' = {} \/ pc \in Early
      PROVE  OneAckInOutbox'
  BY <1>1 DEF OneAckInOutbox
<1>2. ASSUME NEW t \in Tx, Fail(t) \/ Take(t) \/ Leave(t) PROVE OneAckInOutbox'
  BY <1>1, <1>2 DEF Fail, Take, Leave
<1>3. ASSUME NEW t \in Tx, NEW n \in 1..failures[t], Detect(t, n) PROVE OneAckInOutbox'
  BY <1>1, <1>3 DEF Detect
<1>4. ASSUME NEW r \in outbox, Deliver(r) \/ GiveUp(r) PROVE OneAckInOutbox'
  BY <1>1, <1>4 DEF Deliver, GiveUp
<1>5. ASSUME NEW a \in Action \cup {"none"}, Assess(a) PROVE OneAckInOutbox'
  BY <1>1, <1>5 DEF Assess
<1>6. CASE Poll \/ SkipDuplicate \/ StoreCandidate \/ RememberEvent \/ Flush
  BY <1>1, <1>6 DEF Poll, SkipDuplicate, StoreCandidate, RememberEvent, Flush, OneAckInOutbox
<1>7. CASE Error \/ Reconnect \/ Crash \/ Stop \/ Restart \/ UNCHANGED vars
  BY <1>1, <1>7 DEF Error, Reconnect, Crash, Stop, Restart, vars, OneAckInOutbox
<1>8. CASE SendFollowups
  <2>1. outbox = {} /\ outbox' = outbox \cup Followups /\ pc' = "sent"
    BY <1>8 DEF SendFollowups, OneAckInOutbox
  <2>2. \A r \in Followups : r.kind # "ack"
    BY DEF Followups, Followup
  <2> QED BY <2>1, <2>2 DEF OneAckInOutbox
<1>9. CASE SendAck
  <2>1. /\ \A r \in outbox : r.kind # "ack"
        /\ outbox' = outbox \cup {Ack(Recovered)} /\ pc' = "flush"
    BY <1>9 DEF SendAck, Acknowledgement, OneAckInOutbox
  <2>2. \A r, s \in outbox' : r.kind = "ack" /\ s.kind = "ack" => r = s
    BY <2>1
  <2> QED BY <2>1, <2>2 DEF OneAckInOutbox
<1> QED BY <1>2, <1>3, <1>4, <1>5, <1>6, <1>7, <1>8, <1>9 DEF Next

\* What a step leaves unanswered was so before it, but for the candidates in X.
LEMMA UnansweredFrom ==
    ASSUME NEW X, \A t \in Tx : \A n \in Awaiting(t)' : n \in Awaiting(t) \/ <<t, n>> \in X
    PROVE  Unanswered' \subseteq Unanswered \cup X
<1>1. ASSUME NEW t \in Tx, NEW n \in Awaiting(t)
      PROVE  <<t, n>> \in Unanswered
  BY DEF Unanswered
<1>2. ASSUME NEW c \in Unanswered'
      PROVE  c \in Unanswered \cup X
  <2>1. PICK t \in Tx : c \in {t} \X Awaiting(t)'
    BY <1>2 DEF Unanswered
  <2>2. PICK n \in Awaiting(t)' : c = <<t, n>>
    BY <2>1
  <2> QED BY <1>1, <2>2
<1> QED BY <1>2

\* Steps that register nothing and lose no acknowledgement and nothing in hand.
LEMMA QuietUnanswered ==
    ASSUME UnansweredCounted, CountersTyped,
           Unanswered' \subseteq Unanswered,
           UNCHANGED <<crashes, errors, sendFaults>>
    PROVE  UnansweredCounted'
<1>1. /\ IsFiniteSet(Unanswered')
      /\ Cardinality(Unanswered') \in Nat /\ Cardinality(Unanswered) \in Nat
      /\ Cardinality(Unanswered') <= Cardinality(Unanswered)
  BY CountShrinks DEF UnansweredCounted
<1>2. crashes \in Nat /\ errors \in Nat /\ sendFaults \in Nat
  BY DEF CountersTyped
<1> QED BY <1>1, <1>2 DEF UnansweredCounted

LEMMA OneUnanswered ==
    ASSUME UnansweredCounted, CountersTyped,
           NEW x, Unanswered' \subseteq Unanswered \cup {x},
           crashes' + errors' + sendFaults' = crashes + errors + sendFaults + 1
    PROVE  UnansweredCounted'
<1>1. /\ IsFiniteSet(Unanswered')
      /\ Cardinality(Unanswered') \in Nat /\ Cardinality(Unanswered) \in Nat
      /\ Cardinality(Unanswered') <= Cardinality(Unanswered) + 1
  BY CountGrows DEF UnansweredCounted
<1>2. crashes \in Nat /\ errors \in Nat /\ sendFaults \in Nat
  BY DEF CountersTyped
<1> QED BY <1>1, <1>2 DEF UnansweredCounted

LEMMA StepUnanswered ==
    ASSUME IInv, [Next]_vars, OneAckInOutbox, UnansweredCounted, CountersTyped
    PROVE  UnansweredCounted'
<1> DEFINE Busy == {"registered", "assessed", "sent"}
           Calm == /\ UNCHANGED <<event_ids, crashes, errors, sendFaults>>
                   /\ AllAcks' = AllAcks
                   /\ \/ UNCHANGED current /\ (pc \in Busy => pc' \in Busy)
                      \/ pc \notin Busy
<1>1. ASSUME Calm PROVE UnansweredCounted'
  <2>1. \A t \in Tx : Awaiting(t)' \subseteq Awaiting(t)
    BY <1>1 DEF Awaiting
  <2>2. Unanswered' \subseteq Unanswered \cup {}
    BY <2>1, UnansweredFrom
  <2> QED BY <1>1, <2>2, QuietUnanswered
<1>2. ASSUME NEW t \in Tx, Fail(t) \/ Take(t) \/ Leave(t) PROVE Calm
  BY <1>2 DEF Fail, Take, Leave, topics, redis, bounds, AllAcks
<1>3. ASSUME NEW t \in Tx, NEW n \in 1..failures[t], Detect(t, n) PROVE Calm
  BY <1>3 DEF Detect, redis, AllAcks
<1>4. ASSUME NEW a \in Action \cup {"none"}, Assess(a) PROVE Calm
  BY <1>4 DEF Assess, topics, bounds, AllAcks
<1>5. CASE Poll \/ SkipDuplicate \/ StoreCandidate \/ Flush
  <2>1. Calm
    BY <1>5 DEF Poll, SkipDuplicate, StoreCandidate, Flush, topics, redis, bounds, AllAcks
  <2> QED BY <1>1, <2>1
<1>6. CASE Reconnect \/ Stop \/ Restart \/ UNCHANGED vars
  <2>1. Calm
    BY <1>6 DEF Reconnect, Stop, Restart, vars, topics, redis, bounds, AllAcks
  <2> QED BY <1>1, <2>1
<1>7. CASE SendFollowups
  <2>1. \A r \in Followups : r.kind # "ack"
    BY DEF Followups, Followup
  <2>2. AllAcks' = AllAcks
    BY <1>7, <2>1 DEF SendFollowups, topics, AllAcks
  <2>3. Calm
    BY <1>7, <2>2 DEF SendFollowups, redis, bounds
  <2> QED BY <1>1, <2>3
<1>8. ASSUME NEW r \in outbox, Deliver(r) PROVE Calm
  <2>1. AllAcks' = AllAcks
    BY <1>8, ProducerAnswers
  <2> QED BY <1>8, <2>1 DEF Deliver, redis, bounds
\* The candidate just registered is in hand; the acknowledgement takes its place.
<1>9. CASE RememberEvent
  <2>1. /\ tx \in Tx /\ current = <<tx, event>> /\ UNCHANGED <<current, crashes, errors, sendFaults>>
        /\ event_ids' = [event_ids EXCEPT ![tx] = event_ids[tx] \cup {event}]
        /\ pc = "stored" /\ pc' = "registered" /\ AllAcks' = AllAcks
    BY <1>9, InHandTyped DEF IInv, RememberEvent, topics, bounds, AllAcks, tx, event
  <2>2. \A t \in Tx : \A n \in event_ids'[t] : n \in event_ids[t] \/ <<t, n>> = current
    BY <2>1 DEF IInv, TypeOK
  <2>3. \A t \in Tx : Awaiting(t)' \subseteq Awaiting(t)
    BY <2>1, <2>2 DEF Awaiting
  <2>4. Unanswered' \subseteq Unanswered \cup {}
    BY <2>3, UnansweredFrom
  <2> QED BY <2>1, <2>4, QuietUnanswered
<1>10. CASE SendAck
  <2>1. /\ current = <<tx, event>> /\ pc' = "flush"
        /\ UNCHANGED <<event_ids, current, crashes, errors, sendFaults>>
    BY <1>10, InHandTyped DEF IInv, SendAck, redis, bounds, tx, event
  <2> DEFINE new == Ack(Recovered)
  <2>2. new.tx = tx /\ new.event = event /\ new.kind = "ack"
    BY DEF Ack
  <2>3. AllAcks' = AllAcks \cup {new}
    BY <1>10, <2>2 DEF SendAck, Acknowledgement, topics, AllAcks
  <2> HIDE DEF new
  <2>4. \A t \in Tx : \A n \in Awaiting(t)' : n \in Awaiting(t)
    BY <2>1, <2>2, <2>3 DEF Awaiting
  <2>5. Unanswered' \subseteq Unanswered \cup {}
    BY <2>4, UnansweredFrom
  <2> QED BY <2>1, <2>5, QuietUnanswered
\* A record given up leaves its candidate unanswered.
<1>11. ASSUME NEW r \in outbox, GiveUp(r) PROVE UnansweredCounted'
  <2>1. /\ UNCHANGED <<event_ids, pc, current, crashes, errors, acks>>
        /\ sendFaults' = sendFaults + 1 /\ outbox' = outbox \ {r}
    BY <1>11 DEF GiveUp, topics, redis
  <2>2. \A a \in AllAcks : a \in AllAcks' \/ a = r
    BY <2>1 DEF AllAcks
  <2>3. \A t \in Tx : \A n \in Awaiting(t)' : n \in Awaiting(t) \/ <<t, n>> \in {<<r.tx, r.event>>}
    BY <2>1, <2>2 DEF Awaiting
  <2>4. Unanswered' \subseteq Unanswered \cup {<<r.tx, r.event>>}
    BY <2>3, UnansweredFrom
  <2>5. crashes' + errors' + sendFaults' = crashes + errors + sendFaults + 1
    BY <2>1 DEF CountersTyped
  <2> QED BY <2>4, <2>5, OneUnanswered
\* An exception leaves the candidate in hand unanswered.
<1>12. CASE Error
  <2>1. /\ UNCHANGED <<event_ids, acks, outbox, crashes, sendFaults>> /\ errors' = errors + 1
    BY <1>12 DEF Error, topics, redis
  <2>2. AllAcks' = AllAcks
    BY <2>1 DEF AllAcks
  <2>3. \A t \in Tx : \A n \in Awaiting(t)' : n \in Awaiting(t) \/ <<t, n>> \in {current}
    BY <2>1, <2>2 DEF Awaiting
  <2>4. Unanswered' \subseteq Unanswered \cup {current}
    BY <2>3, UnansweredFrom
  <2>5. crashes' + errors' + sendFaults' = crashes + errors + sendFaults + 1
    BY <2>1 DEF CountersTyped
  <2> QED BY <2>4, <2>5, OneUnanswered
\* A kill leaves the candidate in hand unanswered, or the one whose
\* acknowledgement the producer still held.
<1>13. CASE Crash
  <2>1. /\ UNCHANGED <<event_ids, acks, errors, sendFaults>> /\ crashes' = crashes + 1
        /\ outbox' = {}
    BY <1>13 DEF Crash, topics, redis
  <2>2. AllAcks' = acks
    BY <2>1 DEF AllAcks
  <2>3. crashes' + errors' + sendFaults' = crashes + errors + sendFaults + 1
    BY <2>1 DEF CountersTyped
  <2>4. CASE \E r \in outbox : r.kind = "ack"
    <3>1. PICK r \in outbox : r.kind = "ack"
      BY <2>4
    <3>2. pc \notin Busy
      BY <3>1 DEF OneAckInOutbox
    <3>3. \A a \in AllAcks : a \in AllAcks' \/ (a.tx = r.tx /\ a.event = r.event)
      BY <2>2, <3>1 DEF AllAcks, OneAckInOutbox
    <3>4. \A t \in Tx : \A n \in Awaiting(t)' : n \in Awaiting(t) \/ <<t, n>> \in {<<r.tx, r.event>>}
      BY <2>1, <3>2, <3>3 DEF Awaiting
    <3>5. Unanswered' \subseteq Unanswered \cup {<<r.tx, r.event>>}
      BY <3>4, UnansweredFrom
    <3> QED BY <2>3, <3>5, OneUnanswered
  <2>5. CASE \A r \in outbox : r.kind # "ack"
    <3>1. AllAcks' = AllAcks
      BY <2>2, <2>5 DEF AllAcks
    <3>2. \A t \in Tx : \A n \in Awaiting(t)' : n \in Awaiting(t) \/ <<t, n>> \in {current}
      BY <2>1, <3>1 DEF Awaiting
    <3>3. Unanswered' \subseteq Unanswered \cup {current}
      BY <3>2, UnansweredFrom
    <3> QED BY <2>3, <3>3, OneUnanswered
  <2> QED BY <2>4, <2>5
<1> HIDE DEF Calm
<1> QED BY <1>1, <1>2, <1>3, <1>4, <1>5, <1>6, <1>7, <1>8, <1>9, <1>10, <1>11, <1>12, <1>13 DEF Next

-----------------------------------------------------------------------------
(* The theorems. *)

AnswersInv ==
    /\ AcksNameCandidates
    /\ AcksTellCaptures
    /\ OffsetsInOrder
    /\ CountersTyped
    /\ SkippedCounted
    /\ OneAckInOutbox
    /\ UnansweredCounted

LEMMA InitAnswers == Init => AnswersInv
<1> SUFFICES ASSUME Init PROVE AnswersInv
  OBVIOUS
<1>1. AllAcks = {} /\ \A t \in Tx : Capturing(t) = {}
  BY DEF Init, AllAcks, Capturing
<1>2. AcksNameCandidates /\ AcksTellCaptures
  BY <1>1 DEF Init, AcksNameCandidates, AcksTellCaptures
<1>3. OffsetsInOrder /\ CountersTyped
  BY DEF Init, OffsetsInOrder, CountersTyped
<1>4. SkippedCounted
  <2>1. \A t \in Tx : Read(t, committed) = {} /\ Read(t, position) = {}
    BY DEF Init, Read
  <2>2. Skipped = {}
    BY <2>1 DEF Skipped, Missed
  <2> QED BY <2>2, FS_EmptySet DEF Init, SkippedCounted
<1>5. OneAckInOutbox
  BY DEF Init, OneAckInOutbox
<1>6. UnansweredCounted
  <2>1. \A t \in Tx : Awaiting(t) = {}
    BY DEF Init, Awaiting
  <2>2. Unanswered = {}
    BY <2>1 DEF Unanswered
  <2> QED BY <2>2, FS_EmptySet DEF Init, UnansweredCounted
<1> QED BY <1>2, <1>3, <1>4, <1>5, <1>6 DEF AnswersInv

\* The inductive invariant holds in every reachable state: acknowledgements name the candidate they answer, and every
\* candidate that was passed over or not answered is charged to the kill, exception, signal or lost record that cost it.
THEOREM AnswersInductive == Spec => [](IInv /\ AnswersInv)
<1>1. IInv /\ AnswersInv /\ [Next]_vars => (IInv /\ AnswersInv)'
  <2> SUFFICES ASSUME IInv, AnswersInv, [Next]_vars PROVE IInv' /\ AnswersInv'
    OBVIOUS
  <2> USE DEF AnswersInv
  <2>1. IInv'
    BY StepInvariant
  <2>2. AcksNameCandidates' /\ AcksTellCaptures'
    BY StepAnswers
  <2>3. OffsetsInOrder' /\ CountersTyped'
    BY StepOffsets, StepCounters
  <2>4. SkippedCounted'
    BY StepSkipped
  <2>5. OneAckInOutbox' /\ UnansweredCounted'
    BY StepOutbox, StepUnanswered
  <2> QED BY <2>1, <2>2, <2>3, <2>4, <2>5
<1> QED BY <1>1, InitInvariant, InitAnswers, PTL DEF Spec

\* The state version of an acknowledgement names one candidate: a version that
\* was acknowledged is never given again (store.py:160).
THEOREM VersionNamesCandidateHolds == Spec => []VersionNamesCandidate
<1>1. AnswersInv => VersionNamesCandidate
  BY DEF AnswersInv, AcksNameCandidates, VersionNamesCandidate, AllAcks
<1> QED BY <1>1, AnswersInductive, PTL

\* An acknowledgement never denies a capture that the candidate's follow-ups
\* made (consumer/main.py:250-265).
THEOREM AckTellsCapturesHolds == Spec => []AckTellsCaptures
<1>1. IInv /\ AnswersInv => AckTellsCaptures
  BY DEF AnswersInv, AcksTellCaptures, AckTellsCaptures, AllAcks, Capturing
<1> QED BY <1>1, AnswersInductive, PTL

\* Kills alone make no candidate disappear; an exception or a stop skips at most
\* the candidate in hand.
THEOREM SkippedBoundHolds == Spec => []SkippedBound
<1>1. IInv /\ AnswersInv => SkippedBound
  <2> SUFFICES ASSUME IInv, AnswersInv PROVE SkippedBound
    OBVIOUS
  <2>1. Missed(committed) \subseteq Skipped /\ IsFiniteSet(Skipped)
    BY DEF AnswersInv, SkippedCounted, Skipped
  <2>2. /\ Cardinality(Missed(committed)) \in Nat /\ Cardinality(Skipped) \in Nat
        /\ Cardinality(Missed(committed)) <= Cardinality(Skipped)
    BY <2>1, CountShrinks
  <2>3. Cardinality(Skipped) <= errors + stops
    BY <2>2 DEF AnswersInv, SkippedCounted, CountersTyped
  <2>4. errors \in Nat /\ stops \in Nat
    BY DEF AnswersInv, CountersTyped
  <2>5. Cardinality(Missed(committed)) <= errors + stops
    BY <2>2, <2>3, <2>4
  <2> QED BY <2>5 DEF SkippedBound, Missed
<1> QED BY <1>1, AnswersInductive, PTL

\* At rest, every registered candidate was acknowledged, but for one per kill,
\* exception or record given up.
THEOREM UnansweredBoundHolds == Spec => []UnansweredBound
<1>1. IInv /\ AnswersInv => UnansweredBound
  <2> SUFFICES ASSUME IInv, AnswersInv, pc = "idle", outbox = {}
               PROVE  Cardinality(UNION {{t} \X (event_ids[t] \ Answered(t)) : t \in Tx})
                          <= crashes + errors + sendFaults
    BY DEF UnansweredBound
  <2>1. AllAcks = acks
    BY DEF AllAcks
  <2>2. \A t \in Tx : Awaiting(t) = event_ids[t] \ Answered(t)
    BY <2>1 DEF Awaiting, Answered
  <2>3. UNION {{t} \X (event_ids[t] \ Answered(t)) : t \in Tx} = Unanswered
    BY <2>2 DEF Unanswered
  <2> QED BY <2>3 DEF AnswersInv, UnansweredCounted
<1> QED BY <1>1, AnswersInductive, PTL

-----------------------------------------------------------------------------
(* The case book. *)

\* The candidates that were ever offered; those registered or in hand are among them.
Known(t) == {candidates[t][i] : i \in 1..Len(candidates[t])}
HandledIsOffered ==
    /\ \A t \in Tx : event_ids[t] \subseteq Known(t)
    /\ pc \notin {"down", "idle", "closing"} => event \in Known(tx)

\* What is acknowledged as recovered was acted on.
RecoveredIsActed ==
    /\ \A a \in AllAcks : a.recovered => a.event \in Executions(a.tx)
    /\ pc = "sent" /\ Recovered => event \in Executions(tx)

\* The producer holds one acknowledgement at most, of a candidate that has none, and
\* with a version above all that have arrived.
AnswersAhead ==
    /\ \A r, s \in outbox : r.kind = "ack" /\ s.kind = "ack" => r = s
    /\ \A r \in outbox, a \in acks :
           r.kind = "ack" /\ a.tx = r.tx => a.version < r.version /\ a.event # r.event

BookInv == HandledIsOffered /\ RecoveredIsActed /\ AnswersAhead

LEMMA InitBook == Init => BookInv
<1> SUFFICES ASSUME Init PROVE BookInv
  OBVIOUS
<1>1. AllAcks = {}
  BY DEF Init, AllAcks
<1> QED BY <1>1 DEF Init, BookInv, HandledIsOffered, RecoveredIsActed, AnswersAhead

LEMMA OfferedIsKnown ==
    /\ [t \in Tx |-> Read(t, Ends)] = [t \in Tx |-> Known(t)]
    /\ [t \in Tx |-> Read(t, Ends)]' = [t \in Tx |-> Known(t)']
<1>1. \A t \in Tx : Ends[t] = Len(candidates[t]) /\ Ends'[t] = Len(candidates'[t])
  BY DEF Ends
<1> QED BY <1>1 DEF Read, Known

\* One more record offers one candidate at most, and takes none back.
LEMMA DetectOffers ==
    ASSUME IInv, NEW t \in Tx, NEW n \in 1..failures[t], Detect(t, n)
    PROVE  /\ Known(t)' = Known(t) \cup {n}
           /\ \A s \in Tx : s # t => Known(s)' = Known(s)
<1>1. n \in Nat /\ candidates[t] \in Seq(Nat)
  BY DEF IInv, TypeOK
<1>2. candidates'[t] = Append(candidates[t], n) /\ \A s \in Tx : s # t => candidates'[s] = candidates[s]
  BY DEF Detect, IInv, TypeOK
<1>3. PICK q : q = candidates[t]
  OBVIOUS
<1>4. /\ Len(Append(q, n)) = Len(q) + 1 /\ Len(q) \in Nat /\ Append(q, n)[Len(q) + 1] = n
      /\ \A i \in 1..Len(q) : Append(q, n)[i] = q[i]
  BY <1>1, <1>3
<1>5. /\ \A i \in 1..(Len(q) + 1) : i \in 1..Len(q) \/ i = Len(q) + 1
      /\ \A i \in 1..Len(q) : i \in 1..(Len(q) + 1)
      /\ Len(q) + 1 \in 1..(Len(q) + 1)
  BY <1>4
<1>6. {Append(q, n)[i] : i \in 1..(Len(q) + 1)} = {q[i] : i \in 1..Len(q)} \cup {n}
  BY <1>4, <1>5
<1>7. Known(t)' = Known(t) \cup {n}
  BY <1>2, <1>3, <1>4, <1>6 DEF Known
<1> QED BY <1>2, <1>7 DEF Known

LEMMA StepOffered ==
    ASSUME IInv, [Next]_vars, HandledIsOffered
    PROVE  HandledIsOffered'
<1>1. ASSUME UNCHANGED <<candidates, event_ids>>,
             \/ pc' \in {"down", "idle", "closing"}
             \/ current' = current /\ pc \notin {"down", "idle", "closing"}
      PROVE  HandledIsOffered'
  <2>1. \A t \in Tx : Known(t)' = Known(t)
    BY <1>1 DEF Known
  <2>2. current' = current => tx' = tx /\ event' = event /\ Known(tx)' = Known(tx)
    BY <1>1 DEF tx, event, Known
  <2> QED BY <1>1, <2>1, <2>2 DEF HandledIsOffered
<1>2. ASSUME UNCHANGED <<candidates, event_ids, pc, current>>
      PROVE  HandledIsOffered'
  BY <1>1, <1>2
<1>3. ASSUME NEW t \in Tx, Take(t) PROVE HandledIsOffered'
  <2>1. /\ current' = <<t, candidates[t][position[t] + 1]>> /\ UNCHANGED <<candidates, event_ids>>
        /\ position[t] < Len(candidates[t]) /\ position[t] \in Nat /\ Len(candidates[t]) \in Nat
    BY <1>3 DEF Take, topics, redis, IInv, TypeOK
  <2>2. tx' = t /\ event' = candidates[t][position[t] + 1] /\ position[t] + 1 \in 1..Len(candidates[t])
    BY <2>1 DEF tx, event
  <2>3. event' \in Known(t)' /\ \A s \in Tx : Known(s)' = Known(s)
    BY <2>1, <2>2 DEF Known
  <2>4. Known(t)' = Known(tx)'
    BY <2>2 DEF Known
  <2> QED BY <2>1, <2>3, <2>4 DEF HandledIsOffered
<1>4. ASSUME NEW t \in Tx, NEW n \in 1..failures[t], Detect(t, n) PROVE HandledIsOffered'
  <2>1. \A s \in Tx : Known(s) \subseteq Known(s)'
    BY <1>4, DetectOffers
  <2>2. UNCHANGED <<event_ids, pc, current>> /\ tx' = tx /\ event' = event
    BY <1>4 DEF Detect, redis, tx, event
  <2>3. pc \notin {"down", "idle", "closing"} => tx \in Tx
    BY InHandTyped DEF IInv
  <2>4. tx \in Tx => Known(tx) \subseteq Known(tx)'
    <3>1. ASSUME NEW s \in Tx, s = tx PROVE Known(s) \subseteq Known(tx)'
      <4>1. Known(tx)' = Known(s)'
        BY <2>2, <3>1 DEF Known
      <4> QED BY <2>1, <4>1
    <3> QED BY <3>1
  <2> QED BY <2>1, <2>2, <2>3, <2>4 DEF HandledIsOffered
<1>5. CASE RememberEvent
  <2>1. /\ UNCHANGED <<candidates, current>> /\ tx' = tx /\ event' = event /\ tx \in Tx
        /\ event_ids' = [event_ids EXCEPT ![tx] = @ \cup {event}] /\ pc = "stored"
    BY <1>5, InHandTyped DEF RememberEvent, topics, tx, event, IInv
  <2>2. event \in Known(tx) /\ Known(tx)' = Known(tx) /\ \A t \in Tx : Known(t)' = Known(t)
    BY <2>1 DEF HandledIsOffered, Known
  <2>3. \A t \in Tx : event_ids'[t] = IF t = tx THEN event_ids[t] \cup {event} ELSE event_ids[t]
    BY <2>1 DEF IInv, TypeOK
  <2> QED BY <2>1, <2>2, <2>3 DEF HandledIsOffered
<1>6. ASSUME NEW t \in Tx, Fail(t) \/ Leave(t) PROVE HandledIsOffered'
  BY <1>1, <1>2, <1>6 DEF Fail, Leave, topics, redis
<1>7. ASSUME NEW r \in outbox, Deliver(r) \/ GiveUp(r) PROVE HandledIsOffered'
  BY <1>2, <1>7 DEF Deliver, GiveUp, topics, redis
<1>8. ASSUME NEW a \in Action \cup {"none"}, Assess(a) PROVE HandledIsOffered'
  BY <1>1, <1>8 DEF Assess, topics
<1>9. CASE Poll \/ SkipDuplicate \/ Flush \/ Reconnect \/ Stop \/ Restart \/ UNCHANGED vars
  BY <1>1, <1>2, <1>9 DEF Poll, SkipDuplicate, Flush, Reconnect, Stop, Restart, vars, topics, redis
<1>10. CASE StoreCandidate \/ SendFollowups \/ SendAck
  BY <1>1, <1>10 DEF StoreCandidate, SendFollowups, SendAck, topics, redis
<1>11. CASE Error \/ Crash
  BY <1>1, <1>11 DEF Error, Crash, topics, redis
<1> QED BY <1>3, <1>4, <1>5, <1>6, <1>7, <1>8, <1>9, <1>10, <1>11 DEF Next

\* An execution more.
LEMMA MoreExecutions ==
    ASSUME IInv, tx \in Tx, event \in Nat, executed' = [executed EXCEPT ![tx] = Append(@, event)]
    PROVE  /\ \A t \in Tx : Executions(t) \subseteq {executed'[t][i] : i \in 1..Len(executed'[t])}
           /\ event \in {executed'[tx][i] : i \in 1..Len(executed'[tx])}
<1>1. /\ executed'[tx] = Append(executed[tx], event)
      /\ \A t \in Tx : t # tx => executed'[t] = executed[t]
      /\ executed[tx] \in Seq(Nat)
  BY DEF IInv, TypeOK
<1>2. PICK q : q = executed[tx]
  OBVIOUS
<1>3. /\ Len(Append(q, event)) = Len(q) + 1 /\ Append(q, event)[Len(q) + 1] = event
      /\ \A i \in 1..Len(q) : Append(q, event)[i] = q[i] /\ i \in 1..(Len(q) + 1)
      /\ Len(q) + 1 \in 1..(Len(q) + 1)
  BY <1>1, <1>2
<1>4. \A n \in {q[i] : i \in 1..Len(q)} \cup {event} :
          n \in {Append(q, event)[i] : i \in 1..(Len(q) + 1)}
  BY <1>3
<1> QED BY <1>1, <1>2, <1>3, <1>4 DEF Executions

LEMMA StepAhead ==
    ASSUME IInv, AnswersInv, [Next]_vars, RecoveredIsActed, AnswersAhead
    PROVE  RecoveredIsActed' /\ AnswersAhead'
<1>0. \A a \in AllAcks : a.tx \in Tx /\ a.version \in Nat
  BY AcksTyped DEF AckRecords
<1>1. ASSUME UNCHANGED <<executed, acks>>, outbox' \subseteq outbox,
             pc' # "sent" \/ UNCHANGED <<pc, current, state>>
      PROVE  RecoveredIsActed' /\ AnswersAhead'
  <2>1. AnswersAhead'
    BY <1>1 DEF AnswersAhead
  <2>2. AllAcks' \subseteq AllAcks
    BY <1>1 DEF AllAcks
  <2>3. \A t : Executions(t)' = Executions(t)
    BY <1>1 DEF Executions
  <2>4. UNCHANGED <<pc, current, state>> =>
            tx' = tx /\ event' = event /\ Recovered' = Recovered /\ Executions(tx)' = Executions(tx)
    BY <1>1 DEF tx, event, Recovered, Followups, Followup, Executions
  <2>5. \A a \in AllAcks' : a.recovered => a.event \in Executions(a.tx)'
    BY <2>2, <2>3 DEF RecoveredIsActed
  <2>6. pc' = "sent" /\ Recovered' => event' \in Executions(tx)'
    BY <1>1, <2>4 DEF RecoveredIsActed
  <2> QED BY <2>1, <2>5, <2>6 DEF RecoveredIsActed
<1>2. ASSUME NEW r \in outbox, Deliver(r) PROVE RecoveredIsActed' /\ AnswersAhead'
  <2>1. /\ UNCHANGED <<executed, state, current, pc>> /\ outbox' = outbox \ {r}
        /\ acks' = IF r.kind = "ack" THEN acks \cup {r} ELSE acks
    BY <1>2 DEF Deliver, redis
  <2>2. AllAcks' = AllAcks
    BY <1>2, ProducerAnswers
  <2>3. \A t : Executions(t)' = Executions(t)
    BY <2>1 DEF Executions
  <2>4. tx' = tx /\ event' = event /\ Recovered' = Recovered /\ Executions(tx)' = Executions(tx)
    BY <2>1 DEF tx, event, Recovered, Followups, Followup, Executions
  <2>5. RecoveredIsActed'
    <3>1. \A a \in AllAcks' : a.recovered => a.event \in Executions(a.tx)'
      BY <2>2, <2>3 DEF RecoveredIsActed
    <3>2. pc' = "sent" /\ Recovered' => event' \in Executions(tx)'
      BY <2>1, <2>4 DEF RecoveredIsActed
    <3> QED BY <3>1, <3>2 DEF RecoveredIsActed
  <2>6. AnswersAhead'
    BY <2>1 DEF AnswersAhead
  <2> QED BY <2>5, <2>6
<1>3. CASE SendFollowups
  <2>1. /\ tx \in Tx /\ event \in Nat /\ tx' = tx /\ event' = event /\ acks' = acks
        /\ state' = state /\ pc' = "sent" /\ outbox' = outbox \cup Followups
        /\ executed' = IF state[tx].action = "none" THEN executed
                       ELSE [executed EXCEPT ![tx] = Append(@, event)]
    BY <1>3, InHandTyped DEF SendFollowups, IInv, tx, event, topics, redis
  <2>2. \A r \in Followups : r.kind # "ack"
    BY DEF Followups, Followup
  <2>3. AllAcks' = AllAcks
    BY <2>1, <2>2 DEF AllAcks
  <2>4. Recovered' = Recovered /\ (Recovered => state[tx].action # "none")
    BY <2>1 DEF Recovered, Followups, Followup
  <2>5. \A t \in Tx : Executions(t) \subseteq {executed'[t][i] : i \in 1..Len(executed'[t])}
    <3>1. CASE executed' = executed
      BY <3>1 DEF Executions
    <3>2. CASE executed' = [executed EXCEPT ![tx] = Append(@, event)]
      BY <2>1, <3>2, MoreExecutions
    <3> QED BY <2>1, <3>1, <3>2
  <2>6. Recovered => event \in {executed'[tx][i] : i \in 1..Len(executed'[tx])}
    <3>1. Recovered => executed' = [executed EXCEPT ![tx] = Append(@, event)]
      BY <2>1, <2>4
    <3> QED BY <2>1, <3>1, MoreExecutions
  <2>7. AnswersAhead'
    BY <2>1, <2>2 DEF AnswersAhead
  <2>8. RecoveredIsActed'
    <3>1. Executions(tx)' = {executed'[tx][i] : i \in 1..Len(executed'[tx])}
      BY <2>1 DEF Executions
    <3> QED BY <1>0, <2>1, <2>3, <2>4, <2>5, <2>6 DEF RecoveredIsActed, Executions
  <2> QED BY <2>7, <2>8
<1>4. CASE SendAck
  <2>1. /\ tx \in Tx /\ event \in Nat /\ acks' = acks /\ pc = "sent" /\ state[tx] \in State
        /\ executed' = executed /\ pc' = "flush" /\ outbox' = outbox \cup {Ack(Recovered)}
    BY <1>4, InHandTyped DEF SendAck, Acknowledgement, IInv, topics
  <2>2. PICK new : new = Ack(Recovered)
    OBVIOUS
  <2>3. /\ new.kind = "ack" /\ new.tx = tx /\ new.event = event
        /\ new.version = state[tx].version /\ new.recovered = Recovered /\ new.version \in Nat
    BY <2>1, <2>2 DEF Ack, State
  <2>4. AllAcks' = AllAcks \cup {new} /\ \A t : Executions(t)' = Executions(t)
    BY <2>1, <2>2, <2>3 DEF AllAcks, Executions
  <2>5. \A r \in outbox : r.kind # "ack"
    BY <2>1 DEF AnswersInv, OneAckInOutbox
  <2>6. ASSUME NEW a \in acks, a.tx = tx
        PROVE  a.version < new.version /\ a.event # event
    <3>1. a \in AllAcks /\ a.event # event
      BY <2>1, <2>6 DEF AllAcks, AnswersInv, AcksNameCandidates
    <3>2. a.version <= state[tx].version /\ (a.version = state[tx].version => a.event = event)
      BY <2>1, <2>6, <3>1 DEF AnswersInv, AcksNameCandidates
    <3> QED BY <1>0, <2>3, <3>1, <3>2
  <2>7. AnswersAhead'
    BY <2>1, <2>2, <2>3, <2>5, <2>6 DEF AnswersAhead
  <2>8. new.recovered => new.event \in Executions(new.tx)
    BY <2>1, <2>3 DEF RecoveredIsActed
  <2>9. RecoveredIsActed'
    BY <2>1, <2>4, <2>8 DEF RecoveredIsActed
  <2> QED BY <2>7, <2>9
<1>5. ASSUME NEW r \in outbox, GiveUp(r) PROVE RecoveredIsActed' /\ AnswersAhead'
  BY <1>1, <1>5 DEF GiveUp, topics, redis
<1>6. ASSUME NEW t \in Tx, Fail(t) \/ Take(t) \/ Leave(t) PROVE RecoveredIsActed' /\ AnswersAhead'
  BY <1>1, <1>6 DEF Fail, Take, Leave, topics, redis
<1>7. ASSUME NEW t \in Tx, NEW n \in 1..failures[t], Detect(t, n)
      PROVE  RecoveredIsActed' /\ AnswersAhead'
  BY <1>1, <1>7 DEF Detect, redis
<1>8. ASSUME NEW a \in Action \cup {"none"}, Assess(a) PROVE RecoveredIsActed' /\ AnswersAhead'
  BY <1>1, <1>8 DEF Assess, topics
<1>9. CASE Poll \/ SkipDuplicate \/ Flush \/ Reconnect \/ Stop \/ Restart \/ UNCHANGED vars
  BY <1>1, <1>9 DEF Poll, SkipDuplicate, Flush, Reconnect, Stop, Restart, vars, topics, redis
<1>10. CASE StoreCandidate \/ RememberEvent
  BY <1>1, <1>10 DEF StoreCandidate, RememberEvent, topics
<1>11. CASE Error \/ Crash
  BY <1>1, <1>11 DEF Error, Crash, topics
<1> QED BY <1>2, <1>3, <1>4, <1>5, <1>6, <1>7, <1>8, <1>9, <1>10, <1>11 DEF Next


\* Steps that neither offer nor register a candidate, nor act or answer.
LEMMA QuietBook ==
    ASSUME UNCHANGED <<candidates, event_ids, executed, captures, acks>>
    PROVE  UNCHANGED Book!vars
BY DEF Book!vars, Read, Ends

LEMMA DetectBook ==
    ASSUME IInv, NEW t \in Tx, NEW n \in 1..failures[t], Detect(t, n)
    PROVE  Book!Next
<1>1. PICK f : f = [s \in Tx |-> Known(s)]
  OBVIOUS
<1>2. PICK g : g = [s \in Tx |-> Known(s)']
  OBVIOUS
<1>3. /\ Known(t)' = Known(t) \cup {n}
      /\ \A s \in Tx : s # t => Known(s)' = Known(s)
  BY DetectOffers
<1>4. n \in g[t] /\ g = [f EXCEPT ![t] = @ \cup {n}]
  BY <1>1, <1>2, <1>3
<1>5. UNCHANGED <<event_ids, executed, captures, acks>>
  BY DEF Detect, redis
<1>6. [s \in Tx |-> Read(s, Ends)] = f /\ [s \in Tx |-> Read(s, Ends)]' = g
  BY <1>1, <1>2, OfferedIsKnown
<1>7. Book!Offer(t)
  BY <1>4, <1>5, <1>6 DEF Book!Offer
<1> QED BY <1>7 DEF Book!Next

LEMMA RememberBook ==
    ASSUME IInv, HandledIsOffered, RememberEvent
    PROVE  Book!Next
<1>1. /\ tx \in Tx /\ event \in Known(tx) /\ event \notin event_ids[tx]
      /\ event_ids' = [event_ids EXCEPT ![tx] = @ \cup {event}]
      /\ UNCHANGED <<candidates, executed, captures, acks>>
  BY InHandTyped DEF RememberEvent, IInv, HandledIsOffered, ExecutedIsRegistered, topics
<1>2. Read(tx, Ends) = Known(tx)
  BY <1>1 DEF Read, Ends, Known
<1>3. UNCHANGED [t \in Tx |-> Read(t, Ends)]
  BY <1>1 DEF Read, Ends
<1>4. Book!Register(tx, event)
  BY <1>1, <1>2, <1>3 DEF Book!Register
<1> QED BY <1>1, <1>2, <1>4 DEF Book!Next

LEMMA FollowupsBook ==
    ASSUME IInv, AnswersInv, HandledIsOffered, SendFollowups
    PROVE  Book!Next \/ UNCHANGED Book!vars
<1>1. /\ tx \in Tx /\ event \in Known(tx) /\ event \in event_ids[tx] /\ pc = "assessed"
      /\ UNCHANGED <<candidates, event_ids, captures, acks>>
      /\ executed' = IF state[tx].action = "none" THEN executed
                     ELSE [executed EXCEPT ![tx] = Append(@, event)]
  BY InHandTyped DEF SendFollowups, IInv, HandledIsOffered, ExecutedIsRegistered, topics, redis
<1>2. CASE state[tx].action = "none"
  BY <1>1, <1>2, QuietBook
<1>3. CASE state[tx].action # "none"
  <2>1. Read(tx, Ends) = Known(tx)
    BY <1>1 DEF Read, Ends, Known
  <2>2. UNCHANGED [t \in Tx |-> Read(t, Ends)]
    BY <1>1 DEF Read, Ends
  <2>3. Book!AnswersTo(tx, event) = {}
    BY <1>1 DEF Book!AnswersTo, AnswersInv, AcksNameCandidates, AllAcks
  <2>4. event \notin Book!Acted(tx)
    BY <1>1 DEF Book!Acted, IInv, ExecutedIsRegistered
  <2>5. Len(executed[tx]) < MaxAttempts
    <3>1. InHand(tx) = 1
      BY <1>1, <1>3 DEF InHand
    <3>2. /\ Len(executed[tx]) + 1 <= state[tx].attempts /\ state[tx].attempts <= MaxAttempts
          /\ state[tx].attempts \in Nat /\ Len(executed[tx]) \in Nat /\ MaxAttempts \in Nat
      <4>1. Len(executed[tx]) + 1 <= state[tx].attempts /\ state[tx].attempts <= MaxAttempts
        BY <1>1, <3>1 DEF IInv, CountedAhead
      <4>2. state[tx] \in State /\ executed[tx] \in Seq(Nat)
        BY <1>1 DEF IInv, TypeOK
      <4>3. state[tx].attempts \in Nat /\ Len(executed[tx]) \in Nat
        BY <4>2 DEF State
      <4> QED BY <4>1, <4>3, NumbersAssumption
    <3> QED BY <3>2
  <2>6. Book!Act(tx, event)
    BY <1>1, <1>3, <2>2, <2>3, <2>4, <2>5 DEF Book!Act
  <2> QED BY <1>1, <2>1, <2>6 DEF Book!Next
<1> QED BY <1>2, <1>3

LEMMA DeliverBook ==
    ASSUME IInv, AnswersInv, BookInv, NEW r \in outbox, Deliver(r)
    PROVE  Book!Next \/ UNCHANGED Book!vars
<1>1. /\ UNCHANGED <<candidates, event_ids, executed>>
      /\ captures' = IF r.kind = "capture" THEN [captures EXCEPT ![r.tx] = @ \cup {r.event}]
                     ELSE captures
      /\ acks' = IF r.kind = "ack" THEN acks \cup {r} ELSE acks
  BY DEF Deliver, redis
<1>2. r \in Sent /\ r.tx \in Tx
  BY DEF IInv, Sent
<1>3. PICK t : t = r.tx
  OBVIOUS
<1>4. PICK n : n = r.event
  OBVIOUS
<1>5. /\ Read(t, Ends) = Known(t) /\ UNCHANGED [s \in Tx |-> Read(s, Ends)]
      /\ event_ids[t] \subseteq Known(t)
  BY <1>1, <1>2, <1>3 DEF Read, Ends, Known, BookInv, HandledIsOffered
<1>6. \A a \in acks : a \in AllAcks
  BY DEF AllAcks
<1>7. CASE r.kind = "capture"
  <2>1. n \in Capturing(t)
    BY <1>2, <1>3, <1>4, <1>7 DEF Capturing
  <2>2. n \in Executions(t) /\ n \in event_ids[t]
    BY <1>2, <1>3, <2>1 DEF AnswersInv, AcksTellCaptures, IInv, ExecutedIsRegistered, Executions
  <2>3. acks' = acks /\ captures' = [captures EXCEPT ![t] = @ \cup {n}] /\ t \in Tx
    BY <1>1, <1>2, <1>3, <1>4, <1>7
  <2>4. CASE n \in captures[t]
    <3>1. captures' = captures
      BY <2>3, <2>4 DEF IInv, TypeOK
    <3> QED BY <1>1, <2>3, <3>1, QuietBook
  <2>5. CASE n \notin captures[t]
    <3>1. \A a \in Book!AnswersTo(t, n) : a.recovered
      BY <1>6, <2>1 DEF Book!AnswersTo, AnswersInv, AcksTellCaptures
    <3>2. n \in Book!Acted(t)
      BY <2>2 DEF Book!Acted, Executions
    <3>3. Book!Capture(t, n)
      BY <1>1, <1>5, <2>3, <2>5, <3>1, <3>2 DEF Book!Capture
    <3> QED BY <1>5, <2>2, <2>3, <3>3 DEF Book!Next
  <2> QED BY <2>4, <2>5
<1>8. CASE r.kind = "ack"
  <2>1. acks' = acks \cup {r} /\ captures' = captures /\ t \in Tx /\ r \in AllAcks
    BY <1>1, <1>2, <1>3, <1>8 DEF AllAcks
  <2>2. \A a \in acks : a.tx = t => a.version < r.version /\ a.event # n
    BY <1>3, <1>4, <1>8 DEF BookInv, AnswersAhead
  <2>3. r \notin acks /\ Book!AnswersTo(t, n) = {}
    BY <1>3, <1>4, <2>2 DEF Book!AnswersTo
  <2>4. n \in event_ids[t]
    BY <1>3, <1>4, <2>1 DEF AnswersInv, AcksNameCandidates
  <2>5. n \in captures[t] => r.recovered
    BY <1>3, <1>4, <2>1 DEF AnswersInv, AcksTellCaptures, Capturing
  <2>6. r.recovered => n \in Book!Acted(t)
    BY <1>3, <1>4, <2>1 DEF BookInv, RecoveredIsActed, Executions, Book!Acted
  <2>7. Book!Answer(t, n)
    BY <1>1, <1>3, <1>4, <1>5, <2>1, <2>2, <2>3, <2>4, <2>5, <2>6 DEF Book!Answer
  <2> QED BY <1>5, <2>1, <2>4, <2>7 DEF Book!Next
<1>9. CASE r.kind \notin {"capture", "ack"}
  BY <1>1, <1>9, QuietBook
<1> QED BY <1>7, <1>8, <1>9

LEMMA StepBook ==
    ASSUME IInv, AnswersInv, BookInv, [Next]_vars
    PROVE  Book!Next \/ UNCHANGED Book!vars
<1>1. ASSUME NEW t \in Tx, Fail(t) \/ Take(t) \/ Leave(t) PROVE UNCHANGED Book!vars
  BY <1>1, QuietBook DEF Fail, Take, Leave, topics, redis
<1>2. ASSUME NEW t \in Tx, NEW n \in 1..failures[t], Detect(t, n) PROVE Book!Next
  BY <1>2, DetectBook
<1>3. ASSUME NEW r \in outbox, GiveUp(r) PROVE UNCHANGED Book!vars
  BY <1>3, QuietBook DEF GiveUp, topics, redis
<1>4. ASSUME NEW a \in Action \cup {"none"}, Assess(a) PROVE UNCHANGED Book!vars
  BY <1>4, QuietBook DEF Assess, topics
<1>5. CASE \/ Poll \/ SkipDuplicate \/ StoreCandidate \/ SendAck \/ Flush \/ Reconnect \/ Stop
           \/ Restart \/ UNCHANGED vars
  BY <1>5, QuietBook DEF Poll, SkipDuplicate, StoreCandidate, SendAck, Flush, Reconnect, Stop,
                         Restart, vars, topics, redis
<1>6. CASE Error \/ Crash
  BY <1>6, QuietBook DEF Error, Crash, topics, redis
<1>7. CASE RememberEvent
  BY <1>7, RememberBook DEF BookInv
<1>8. CASE SendFollowups
  BY <1>8, FollowupsBook DEF BookInv
<1>9. ASSUME NEW r \in outbox, Deliver(r) PROVE Book!Next \/ UNCHANGED Book!vars
  BY <1>9, DeliverBook
<1> QED BY <1>1, <1>2, <1>3, <1>4, <1>5, <1>6, <1>7, <1>8, <1>9 DEF Next

\* The recovery service keeps a case book: a candidate is registered once, acted on once at
\* most and within the limit, never after its answer, and answered once at most, by an answer
\* that owns up to the capture and follows the earlier ones in version; through kills,
\* exceptions, signals, repeated candidates and lost records.
THEOREM ImplementsCaseBookHolds == Spec => ImplementsCaseBook
<1>1. Init => BookInv /\ Book!Init
  <2>1. ASSUME Init PROVE Book!Init
    <3>1. [t \in Tx |-> Read(t, Ends)] = [t \in Tx |-> {}]
      BY <2>1 DEF Init, Read, Ends
    <3> QED BY <2>1, <3>1 DEF Init, Book!Init
  <2> QED BY <2>1, InitBook
<1>2. IInv /\ AnswersInv /\ BookInv /\ [Next]_vars => BookInv'
  BY StepOffered, StepAhead DEF BookInv
<1>3. IInv /\ AnswersInv /\ BookInv /\ [Next]_vars => [Book!Next]_(Book!vars)
  BY StepBook
<1> QED BY <1>1, <1>2, <1>3, AnswersInductive, PTL DEF Spec, ImplementsCaseBook, Book!Spec
==============================================================================
