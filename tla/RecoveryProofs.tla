--------------------------- MODULE RecoveryProofs ---------------------------
(***************************************************************************)
(* Theorems about Recovery, for any transactions, actions, outcomes and    *)
(* bounds: the store's types, that no candidate is acted on twice, and     *)
(* that every execution was counted.  Both safety properties rest on the   *)
(* order of the two writes of upsert_candidate and of the follow-ups: an   *)
(* event id is in Redis before anything is done about the candidate, and   *)
(* the attempt is counted before the follow-ups leave.                     *)
(***************************************************************************)
EXTENDS Recovery, TLAPS

Sent == [kind : {"capture", "failure"}, tx : Tx, event : Nat]
            \cup [kind : {"ack"}, tx : Tx, event : Nat, version : Nat, recovered : BOOLEAN]

\* An executed candidate is registered; the one in hand is not yet executed.
ExecutedIsRegistered ==
    /\ \A t \in Tx : \A i \in 1..Len(executed[t]) : executed[t][i] \in event_ids[t]
    /\ pc = "stored" => event \notin event_ids[tx]
    /\ pc \in {"registered", "assessed"} =>
           /\ event \in event_ids[tx]
           /\ \A i \in 1..Len(executed[tx]) : executed[tx][i] # event

\* The assessment in hand is counted, though its follow-ups are still to come.
InHand(t) == IF pc = "assessed" /\ tx = t /\ state[t].action # "none" THEN 1 ELSE 0
CountedAhead ==
    \A t \in Tx :
        /\ Len(executed[t]) + InHand(t) <= state[t].attempts
        /\ state[t].attempts <= MaxAttempts

IInv ==
    /\ TypeOK
    /\ outbox \subseteq Sent
    /\ ExecutedIsRegistered
    /\ ExecutedOnce
    /\ CountedAhead

-----------------------------------------------------------------------------
LEMMA InitInvariant == Init => IInv
<1> SUFFICES ASSUME Init PROVE IInv
  OBVIOUS
<1>1. TypeOK
  <2>1. Absent \in State
    BY DEF Absent, State, Status
  <2>2. state \in [Tx -> State]
    BY <2>1 DEF Init
  <2>3. /\ candidates \in [Tx -> Seq(Nat)]
        /\ executed \in [Tx -> Seq(Nat)]
    BY DEF Init
  <2> QED BY <2>2, <2>3 DEF Init, TypeOK
<1>2. outbox \subseteq Sent
  BY DEF Init
<1>3. ExecutedIsRegistered /\ ExecutedOnce
  BY DEF Init, ExecutedIsRegistered, ExecutedOnce
<1>4. CountedAhead
  BY NumbersAssumption DEF Init, CountedAhead, InHand, Absent
<1> QED BY <1>1, <1>2, <1>3, <1>4 DEF IInv

\* What the candidate in hand is, where the process has one.
LEMMA InHandTyped ==
    ASSUME TypeOK, pc \notin {"down", "idle", "closing"}
    PROVE  /\ current \in Tx \X Nat
           /\ tx \in Tx /\ event \in Nat
           /\ state[tx] \in State
BY DEF TypeOK, tx, event

\* Steps that leave the candidate in hand, its registration and its execution
\* alone, or drop it.
LEMMA QuietStep ==
    ASSUME IInv, UNCHANGED <<state, event_ids, executed>>,
           \/ current' = current /\ pc' = pc
           \/ pc' \in {"down", "idle", "closing", "received", "sent", "flush"}
    PROVE  ExecutedIsRegistered' /\ ExecutedOnce' /\ CountedAhead'
<1>1. ExecutedOnce'
  BY DEF IInv, ExecutedOnce
<1>2. ExecutedIsRegistered'
  <2>1. CASE current' = current /\ pc' = pc
    BY <2>1 DEF IInv, ExecutedIsRegistered, tx, event
  <2>2. CASE pc' \in {"down", "idle", "closing", "received", "sent", "flush"}
    BY <2>2 DEF IInv, ExecutedIsRegistered
  <2> QED BY <2>1, <2>2
<1>3. CountedAhead'
  <2>1. CASE current' = current /\ pc' = pc
    BY <2>1 DEF IInv, CountedAhead, InHand, tx
  <2>2. CASE pc' \in {"down", "idle", "closing", "received", "sent", "flush"}
    <3>1. \A t \in Tx : InHand(t)' = 0 /\ InHand(t) \in {0, 1}
      BY <2>2 DEF InHand
    <3>2. \A t \in Tx : Len(executed[t]) \in Nat /\ state[t].attempts \in Nat
      BY SMTT(20) DEF IInv, TypeOK, State
    <3> QED BY <3>1, <3>2 DEF IInv, CountedAhead
  <2> QED BY <2>1, <2>2
<1> QED BY <1>1, <1>2, <1>3

-----------------------------------------------------------------------------
(* The environment, the producer and the loop's exits. *)

LEMMA FailStep ==
    ASSUME IInv, NEW t \in Tx, Fail(t)
    PROVE  IInv'
<1>1. TypeOK' /\ (outbox \subseteq Sent)'
  <2>1. failures' \in [Tx -> Nat]
    BY DEF IInv, TypeOK, Fail
  <2> QED BY <2>1 DEF IInv, TypeOK, Fail, redis, Sent
<1>2. UNCHANGED <<state, event_ids, executed>> /\ current' = current /\ pc' = pc
  BY DEF Fail, redis
<1> QED BY <1>1, <1>2, QuietStep DEF IInv

LEMMA DetectStep ==
    ASSUME IInv, NEW t \in Tx, NEW n \in 1..failures[t], Detect(t, n)
    PROVE  IInv'
<1>1. failures[t] \in Nat /\ candidates[t] \in Seq(Nat)
  BY DEF IInv, TypeOK
<1>2. n \in Nat
  BY <1>1
<1>3. candidates' \in [Tx -> Seq(Nat)]
  BY <1>1, <1>2 DEF IInv, TypeOK, Detect
<1>4. TypeOK' /\ (outbox \subseteq Sent)'
  BY <1>3 DEF IInv, TypeOK, Detect, redis, Sent
<1>5. UNCHANGED <<state, event_ids, executed>> /\ current' = current /\ pc' = pc
  BY DEF Detect, redis
<1> QED BY <1>4, <1>5, QuietStep DEF IInv

LEMMA ProducerStep ==
    ASSUME IInv, NEW r \in outbox, Deliver(r) \/ GiveUp(r)
    PROVE  IInv'
<1>1. r \in Sent /\ r.kind \in {"capture", "failure", "ack"} /\ r.tx \in Tx /\ r.event \in Nat
  BY DEF IInv, Sent
<1>2. r.kind = "ack" => r \in [kind : {"ack"}, tx : Tx, event : Nat, version : Nat,
                               recovered : BOOLEAN]
  BY <1>1 DEF Sent
<1>3. UNCHANGED <<state, event_ids, executed>> /\ current' = current /\ pc' = pc
  BY DEF Deliver, GiveUp, redis, topics
<1>4. (outbox \subseteq Sent)'
  BY DEF IInv, Deliver, GiveUp, Sent
<1>5. TypeOK'
  <2>1. CASE Deliver(r)
    <3>1. captures' \in [Tx -> SUBSET Nat]
      BY <1>1, <2>1 DEF IInv, TypeOK, Deliver
    <3>2. failures' \in [Tx -> Nat]
      BY <1>1, <2>1 DEF IInv, TypeOK, Deliver
    <3>3. acks' \subseteq [kind : {"ack"}, tx : Tx, event : Nat, version : Nat,
                           recovered : BOOLEAN]
      BY <1>2, <2>1 DEF IInv, TypeOK, Deliver
    <3> QED BY <2>1, <3>1, <3>2, <3>3 DEF IInv, TypeOK, Deliver, redis
  <2>2. CASE GiveUp(r)
    BY <2>2 DEF IInv, TypeOK, GiveUp, topics, redis
  <2> QED BY <2>1, <2>2
<1> QED BY <1>3, <1>4, <1>5, QuietStep DEF IInv

LEMMA LoopStep ==
    ASSUME IInv, Poll \/ SkipDuplicate \/ Flush \/ Error \/ Reconnect \/ Crash \/ Stop \/ Restart
    PROVE  IInv'
<1>1. UNCHANGED <<state, event_ids, executed>>
  BY DEF Poll, SkipDuplicate, Flush, Error, Reconnect, Crash, Stop, Restart, redis
<1>2. \/ current' = current /\ pc' = pc
      \/ pc' \in {"down", "idle", "closing", "received", "sent", "flush"}
  BY DEF Poll, SkipDuplicate, Flush, Error, Reconnect, Crash, Stop, Restart
<1>3. (outbox \subseteq Sent)'
  BY DEF IInv, Poll, SkipDuplicate, Flush, Error, Reconnect, Crash, Stop, Restart, Sent
<1>4. TypeOK'
  <2>1. CASE Poll
    BY <2>1 DEF IInv, TypeOK, Poll, topics, redis
  <2>2. CASE SkipDuplicate
    BY <2>2 DEF IInv, TypeOK, SkipDuplicate, topics, redis
  <2>3. CASE Flush
    BY <2>3 DEF IInv, TypeOK, Flush, topics, redis
  <2>4. CASE Error
    BY <2>4 DEF IInv, TypeOK, Error, topics, redis
  <2>5. CASE Reconnect
    BY <2>5 DEF IInv, TypeOK, Reconnect, topics, redis
  <2>6. CASE Crash
    BY <2>6 DEF IInv, TypeOK, Crash, topics, redis
  <2>7. CASE Stop
    BY <2>7 DEF IInv, TypeOK, Stop, topics, redis
  <2>8. CASE Restart
    BY <2>8 DEF IInv, TypeOK, Restart, topics, redis
  <2> QED BY <2>1, <2>2, <2>3, <2>4, <2>5, <2>6, <2>7, <2>8
<1> QED BY <1>1, <1>2, <1>3, <1>4, QuietStep DEF IInv

LEMMA TakeStep ==
    ASSUME IInv, NEW t \in Tx, Take(t) \/ Leave(t)
    PROVE  IInv'
<1>1. position[t] \in Nat /\ candidates[t] \in Seq(Nat) /\ position[t] < Len(candidates[t])
  BY DEF IInv, TypeOK, Take, Leave
<1>2. candidates[t][position[t] + 1] \in Nat
  BY <1>1
<1>3. UNCHANGED <<state, event_ids, executed>>
      /\ pc' \in {"down", "idle", "closing", "received", "sent", "flush"}
  BY DEF Take, Leave, redis
<1>4. (outbox \subseteq Sent)'
  BY DEF IInv, Take, Leave, Sent
<1>5. TypeOK'
  <2>1. position' = [position EXCEPT ![t] = position[t] + 1]
    BY DEF Take, Leave
  <2>2. position' \in [Tx -> Nat]
    BY <1>1, <2>1 DEF IInv, TypeOK
  <2>3. CASE Take(t)
    BY <1>2, <2>2, <2>3 DEF IInv, TypeOK, Take, topics, redis
  <2>4. CASE Leave(t)
    BY <2>2, <2>4 DEF IInv, TypeOK, Leave, topics, redis
  <2> QED BY <2>3, <2>4
<1> QED BY <1>3, <1>4, <1>5, QuietStep DEF IInv

-----------------------------------------------------------------------------
(* The handling of a candidate. *)

LEMMA StoreStep ==
    ASSUME IInv, StoreCandidate
    PROVE  IInv'
<1>1. /\ current \in Tx \X Nat /\ tx \in Tx /\ event \in Nat /\ state[tx] \in State
      /\ tx' = tx /\ event' = event
  BY InHandTyped DEF IInv, StoreCandidate, tx, event
<1>2. Received(state[tx], event) \in State
  BY <1>1 DEF Received, State, Status
<1>3. state' = [state EXCEPT ![tx] = Received(state[tx], event)]
  BY DEF StoreCandidate
<1>4. TypeOK' /\ (outbox \subseteq Sent)'
  BY <1>1, <1>2, <1>3 DEF IInv, TypeOK, StoreCandidate, topics, Sent
<1>5. ExecutedIsRegistered'
  BY <1>1 DEF IInv, ExecutedIsRegistered, StoreCandidate, Seen
<1>6. ExecutedOnce'
  BY DEF IInv, ExecutedOnce, StoreCandidate
<1>7. CountedAhead'
  <2>1. \A t \in Tx : state'[t].attempts = state[t].attempts
    BY <1>1, <1>3 DEF IInv, TypeOK, Received
  <2>2. \A t \in Tx : InHand(t) = 0 /\ InHand(t)' = 0
    BY DEF InHand, StoreCandidate
  <2>3. executed' = executed
    BY DEF StoreCandidate
  <2> QED BY <2>1, <2>2, <2>3 DEF IInv, CountedAhead
<1> QED BY <1>4, <1>5, <1>6, <1>7 DEF IInv

LEMMA RememberStep ==
    ASSUME IInv, RememberEvent
    PROVE  IInv'
<1>1. /\ tx \in Tx /\ event \in Nat /\ tx' = tx /\ event' = event /\ pc = "stored"
      /\ event \notin event_ids[tx]
  BY InHandTyped DEF IInv, RememberEvent, tx, event, ExecutedIsRegistered
<1>2. TypeOK' /\ (outbox \subseteq Sent)'
  BY <1>1 DEF IInv, TypeOK, RememberEvent, topics, Sent
<1>3. ExecutedIsRegistered'
  <2>1. event_ids' = [event_ids EXCEPT ![tx] = event_ids[tx] \cup {event}]
    BY DEF RememberEvent
  <2>2. \A t \in Tx : event_ids[t] \subseteq event_ids'[t]
    BY <1>1, <2>1 DEF IInv, TypeOK
  <2>3. \A t \in Tx : \A i \in 1..Len(executed[t]) : executed[t][i] \in event_ids[t]
    BY DEF IInv, ExecutedIsRegistered
  <2>4. event \in event_ids'[tx] /\ \A i \in 1..Len(executed[tx]) : executed[tx][i] # event
    BY <1>1, <2>1, <2>3, SMTT(20) DEF IInv, TypeOK
  <2>5. executed' = executed /\ pc' = "registered"
    BY DEF RememberEvent
  <2> QED BY <1>1, <2>2, <2>3, <2>4, <2>5 DEF ExecutedIsRegistered
<1>4. ExecutedOnce'
  BY DEF IInv, ExecutedOnce, RememberEvent
<1>5. CountedAhead'
  BY DEF IInv, CountedAhead, InHand, RememberEvent
<1> QED BY <1>2, <1>3, <1>4, <1>5 DEF IInv

LEMMA AssessStep ==
    ASSUME IInv, NEW a \in Action \cup {"none"}, Assess(a)
    PROVE  IInv'
<1>1. /\ tx \in Tx /\ event \in Nat /\ tx' = tx /\ event' = event /\ state[tx] \in State
      /\ pc = "registered" /\ pc' = "assessed"
  BY InHandTyped DEF IInv, Assess, tx, event
<1>2. state' = [state EXCEPT ![tx] = Assessed(state[tx], a)]
  BY DEF Assess
<1>3. /\ Assessed(state[tx], a) \in State
      /\ Assessed(state[tx], a).action = a
      /\ Assessed(state[tx], a).attempts
             = (IF a = "none" THEN state[tx].attempts ELSE state[tx].attempts + 1)
  <2>1. CASE a = "none"
    BY <1>1, <2>1 DEF Assessed, State, Status
  <2>2. CASE a # "none"
    <3>1. a \in Action \cup {"none"} /\ state[tx].attempts + 1 \in Nat
      BY <1>1 DEF State
    <3>2. Assessed(state[tx], a) = [state[tx] EXCEPT !.status = "COMPLETED", !.action = a,
                                                     !.attempts = state[tx].attempts + 1]
      BY <2>2 DEF Assessed
    <3>3. Assessed(state[tx], a) \in State
      BY <1>1, <3>1, <3>2 DEF State, Status
    <3>4. /\ Assessed(state[tx], a).action = a
          /\ Assessed(state[tx], a).attempts = state[tx].attempts + 1
      BY <1>1, <3>2 DEF State
    <3> QED BY <2>2, <3>3, <3>4
  <2> QED BY <2>1, <2>2
<1>4. TypeOK' /\ (outbox \subseteq Sent)'
  <2>1. state' \in [Tx -> State]
    BY <1>1, <1>2, <1>3 DEF IInv, TypeOK
  <2> QED BY <1>1, <2>1 DEF IInv, TypeOK, Assess, topics, Sent
<1>5. ExecutedIsRegistered'
  BY <1>1 DEF IInv, ExecutedIsRegistered, Assess
<1>6. ExecutedOnce'
  BY DEF IInv, ExecutedOnce, Assess
<1>7. CountedAhead'
  <2> SUFFICES ASSUME NEW t \in Tx
               PROVE  /\ Len(executed'[t]) + InHand(t)' <= state'[t].attempts
                      /\ state'[t].attempts <= MaxAttempts
    BY DEF CountedAhead
  <2>1. executed' = executed /\ Len(executed[t]) \in Nat /\ state[t].attempts \in Nat
    BY SMTT(20) DEF IInv, TypeOK, State, Assess
  <2>2. InHand(t) = 0 /\ Len(executed[t]) <= state[t].attempts /\ state[t].attempts <= MaxAttempts
    BY <1>1, <2>1 DEF IInv, CountedAhead, InHand
  <2>3. CASE t # tx
    <3>1. state'[t] = state[t] /\ InHand(t)' = 0
      BY <1>1, <1>2, <2>3 DEF IInv, TypeOK, InHand
    <3> QED BY <2>1, <2>2, <3>1
  <2>4. CASE t = tx
    <3>1. state'[t] = Assessed(state[tx], a)
      BY <1>1, <1>2, <2>4 DEF IInv, TypeOK
    <3>2. InHand(t)' = (IF a = "none" THEN 0 ELSE 1)
      BY <1>1, <1>3, <2>4, <3>1 DEF InHand
    <3>3. a # "none" => state[tx].attempts < MaxAttempts
      BY DEF Assess, Authorized
    <3>4. CASE a = "none"
      BY <1>3, <2>1, <2>2, <2>4, <3>1, <3>2, <3>4
    <3>5. CASE a # "none"
      <4>1. state'[t].attempts = state[t].attempts + 1 /\ InHand(t)' = 1
        BY <1>3, <2>4, <3>1, <3>2, <3>5
      <4>2. state[t].attempts < MaxAttempts /\ MaxAttempts \in Nat
        BY <2>4, <3>3, <3>5, NumbersAssumption
      <4> QED BY <2>1, <2>2, <4>1, <4>2
    <3> QED BY <3>4, <3>5
  <2> QED BY <2>3, <2>4
<1> QED BY <1>4, <1>5, <1>6, <1>7 DEF IInv

LEMMA FollowupsStep ==
    ASSUME IInv, SendFollowups
    PROVE  IInv'
<1>1. /\ tx \in Tx /\ event \in Nat /\ tx' = tx /\ event' = event
      /\ pc = "assessed" /\ pc' = "sent" /\ state' = state /\ event_ids' = event_ids
  BY InHandTyped DEF IInv, SendFollowups, tx, event, redis
<1>2. Followups \subseteq Sent
  BY <1>1 DEF Followups, Followup, Sent
<1>3. executed[tx] \in Seq(Nat)
  BY <1>1 DEF IInv, TypeOK
<1>4. Append(executed[tx], event) \in Seq(Nat)
  BY <1>1, <1>3
<1>5. TypeOK' /\ (outbox \subseteq Sent)'
  BY <1>1, <1>2, <1>4 DEF IInv, TypeOK, SendFollowups, topics, redis
<1>6. CASE state[tx].action = "none"
  <2>1. executed' = executed
    BY <1>6 DEF SendFollowups
  <2> QED BY <1>1, <1>5, <2>1, QuietStep DEF IInv
<1>7. CASE state[tx].action # "none"
  <2>1. executed' = [executed EXCEPT ![tx] = Append(executed[tx], event)]
    BY <1>7 DEF SendFollowups
  <2>2. /\ executed'[tx] = Append(executed[tx], event)
        /\ \A t \in Tx : t # tx => executed'[t] = executed[t]
    BY <1>1, <2>1 DEF IInv, TypeOK
  <2>3. /\ Len(executed'[tx]) = Len(executed[tx]) + 1
        /\ executed'[tx][Len(executed[tx]) + 1] = event
        /\ \A i \in 1..Len(executed[tx]) : executed'[tx][i] = executed[tx][i]
    BY <1>1, <1>3, <2>2
  <2>4. event \in event_ids[tx] /\ \A i \in 1..Len(executed[tx]) : executed[tx][i] # event
    BY <1>1 DEF IInv, ExecutedIsRegistered
  <2>5. Len(executed[tx]) \in Nat
    BY <1>3
  <2>6. ExecutedIsRegistered'
    <3>1. \A t \in Tx : \A i \in 1..Len(executed[t]) : executed[t][i] \in event_ids[t]
      BY DEF IInv, ExecutedIsRegistered
    <3>2. \A i \in 1..Len(executed'[tx]) : executed'[tx][i] \in event_ids[tx]
      BY <1>1, <2>3, <2>4, <2>5, <3>1, SMTT(20)
    <3> QED BY <1>1, <2>2, <3>1, <3>2 DEF ExecutedIsRegistered
  <2>7. ExecutedOnce'
    <3>1. \A i, j \in 1..Len(executed[tx]) : executed[tx][i] = executed[tx][j] => i = j
      BY <1>1 DEF IInv, ExecutedOnce
    <3>2. \A i \in 1..Len(executed'[tx]) :
              i \in 1..Len(executed[tx]) \/ i = Len(executed[tx]) + 1
      BY <2>3, <2>5
    <3>3. \A i, j \in 1..Len(executed'[tx]) : executed'[tx][i] = executed'[tx][j] => i = j
      <4> SUFFICES ASSUME NEW i \in 1..Len(executed'[tx]), NEW j \in 1..Len(executed'[tx]),
                          executed'[tx][i] = executed'[tx][j]
                   PROVE  i = j
        OBVIOUS
      <4>1. CASE i \in 1..Len(executed[tx]) /\ j \in 1..Len(executed[tx])
        BY <2>3, <3>1, <4>1
      <4>2. CASE i \in 1..Len(executed[tx]) /\ j = Len(executed[tx]) + 1
        BY <2>3, <2>4, <4>2
      <4>3. CASE i = Len(executed[tx]) + 1 /\ j \in 1..Len(executed[tx])
        BY <2>3, <2>4, <4>3
      <4> QED BY <3>2, <4>1, <4>2, <4>3
    <3> QED BY <2>2, <3>3 DEF IInv, ExecutedOnce
  <2>8. CountedAhead'
    <3> SUFFICES ASSUME NEW t \in Tx
                 PROVE  /\ Len(executed'[t]) + InHand(t)' <= state[t].attempts
                        /\ state[t].attempts <= MaxAttempts
      BY <1>1 DEF CountedAhead
    <3>1. InHand(t)' = 0
      BY <1>1 DEF InHand
    <3>2. /\ Len(executed[t]) + InHand(t) <= state[t].attempts
          /\ state[t].attempts <= MaxAttempts
      BY DEF IInv, CountedAhead
    <3>3. Len(executed[t]) \in Nat
      BY DEF IInv, TypeOK
    <3>4. CASE t = tx
      <4>1. InHand(t) = 1
        BY <1>1, <1>7, <3>4 DEF InHand
      <4> QED BY <2>3, <3>1, <3>2, <3>3, <3>4, <4>1
    <3>5. CASE t # tx
      <4>1. InHand(t) = 0
        BY <3>5 DEF InHand
      <4> QED BY <2>2, <3>1, <3>2, <3>3, <3>5, <4>1
    <3> QED BY <3>4, <3>5
  <2> QED BY <1>5, <2>6, <2>7, <2>8 DEF IInv
<1> QED BY <1>6, <1>7

LEMMA AckStep ==
    ASSUME IInv, SendAck
    PROVE  IInv'
<1>1. /\ tx \in Tx /\ event \in Nat /\ state[tx] \in State
      /\ UNCHANGED <<state, event_ids, executed>> /\ pc' = "flush"
  BY InHandTyped DEF IInv, SendAck, redis
<1>2. Acknowledgement \subseteq Sent
  BY <1>1 DEF Acknowledgement, Ack, Recovered, Sent, State
<1>3. TypeOK' /\ (outbox \subseteq Sent)'
  BY <1>2 DEF IInv, TypeOK, SendAck, topics, redis
<1> QED BY <1>1, <1>3, QuietStep DEF IInv

-----------------------------------------------------------------------------
LEMMA StepInvariant == IInv /\ [Next]_vars => IInv'
<1> SUFFICES ASSUME IInv, [Next]_vars PROVE IInv'
  OBVIOUS
<1>1. ASSUME NEW t \in Tx, Fail(t) \/ Take(t) \/ Leave(t) PROVE IInv'
  BY <1>1, FailStep, TakeStep
<1>2. ASSUME NEW t \in Tx, NEW n \in 1..failures[t], Detect(t, n) PROVE IInv'
  BY <1>2, DetectStep
<1>3. ASSUME NEW a \in Action \cup {"none"}, Assess(a) PROVE IInv'
  BY <1>3, AssessStep
<1>4. ASSUME NEW r \in outbox, Deliver(r) \/ GiveUp(r) PROVE IInv'
  BY <1>4, ProducerStep
<1>5. CASE Poll \/ SkipDuplicate \/ Flush \/ Error \/ Reconnect \/ Crash \/ Stop \/ Restart
  BY <1>5, LoopStep
<1>6. CASE StoreCandidate \/ RememberEvent \/ SendFollowups \/ SendAck
  BY <1>6, StoreStep, RememberStep, FollowupsStep, AckStep
<1>7. CASE UNCHANGED vars
  <2>1. TypeOK' /\ (outbox \subseteq Sent)'
    BY <1>7 DEF IInv, TypeOK, vars, Sent
  <2>2. UNCHANGED <<state, event_ids, executed>> /\ current' = current /\ pc' = pc
    BY <1>7 DEF vars
  <2> QED BY <2>1, <2>2, QuietStep DEF IInv
<1> QED BY <1>1, <1>2, <1>3, <1>4, <1>5, <1>6, <1>7 DEF Next

\* Every reachable state satisfies the inductive invariant.
THEOREM Inductive == Spec => []IInv
<1> QED BY InitInvariant, StepInvariant, PTL DEF Spec

\* The values of every variable, for any bounds.
THEOREM TypeCorrect == Spec => []TypeOK
<1>1. IInv => TypeOK
  BY DEF IInv
<1> QED BY Inductive, <1>1, PTL

\* A candidate's follow-ups are produced at most once, whatever is redelivered,
\* published again, killed or interrupted (store.py:156-186, consumer/main.py:250-265).
THEOREM ExecutedOnceHolds == Spec => []ExecutedOnce
<1>1. IInv => ExecutedOnce
  BY DEF IInv
<1> QED BY Inductive, <1>1, PTL

\* No transaction gets more executions than are counted, nor more than
\* maximum_recovery_attempts (store.py:216, policy/engine.py:32).
THEOREM AttemptsCountedHolds == Spec => []AttemptsCounted
<1>1. IInv => AttemptsCounted
  <2> SUFFICES ASSUME IInv, NEW t \in Tx
               PROVE  Len(executed[t]) <= state[t].attempts /\ state[t].attempts <= MaxAttempts
    BY DEF AttemptsCounted
  <2>1. /\ Len(executed[t]) + InHand(t) <= state[t].attempts
        /\ state[t].attempts <= MaxAttempts
    BY DEF IInv, CountedAhead
  <2>2. InHand(t) \in {0, 1} /\ Len(executed[t]) \in Nat /\ state[t].attempts \in Nat
    BY DEF IInv, TypeOK, State, InHand
  <2> QED BY <2>1, <2>2
<1> QED BY Inductive, <1>1, PTL
=============================================================================
