---------------------------- MODULE ReadersProofs ----------------------------
(***************************************************************************)
(* Theorems about the bridge and about the forwarder, each on topics that  *)
(* anybody may extend at any time, for every number of partitions, limit   *)
(* and poll size; about their composition; and about the pages of the      *)
(* dashboard, for any consistent history of the topics.                    *)
(***************************************************************************)
EXTENDS Readers, IntervalInduction, FiniteSetTheorems, TLAPS

-----------------------------------------------------------------------------
(* The bridge: its types *)

\* A trimmed sequence of records is one.
LEMMA TrimType ==
    ASSUME NEW s \in Seq(Record), limit \in Nat
    PROVE  Trim(s) \in Seq(Record)
<1>1. CASE limit = 0 \/ Len(s) <= limit
  BY <1>1 DEF Trim
<1>2. CASE ~ (limit = 0 \/ Len(s) <= limit)
  <2>1. Len(s) \in Nat /\ Len(s) - limit + 1 \in 1..Len(s)
    BY <1>2
  <2>2. SubSeq(s, Len(s) - limit + 1, Len(s)) \in Seq(Record)
    BY <2>1
  <2> QED BY <1>2, <2>2 DEF Trim
<1> QED BY <1>1, <1>2

\* The bridge's variables keep their types.
THEOREM BridgeTypeCorrect == BridgeSpec => []BridgeTypeOK
<1> USE CrashesAssumption, PollAssumption, LimitsAssumption
    DEF CrashesAssumption, PollAssumption, LimitsAssumption
<1>1. TopicsInit /\ BridgeInit => BridgeTypeOK
  <2>1. <<>> \in Seq(Record) /\ 0 \in 0..PollSize /\ 0 \in 0..MaxCrashes
    OBVIOUS
  <2>2. NoneRead \in [Partition -> Nat]
    BY DEF NoneRead
  <2> QED BY <2>1, <2>2 DEF TopicsInit, BridgeInit, BridgeTypeOK
<1>2. BridgeTypeOK /\ [BridgeNext]_bridgeVars => BridgeTypeOK'
  <2> SUFFICES ASSUME BridgeTypeOK, [BridgeNext]_bridgeVars
               PROVE  BridgeTypeOK'
    OBVIOUS
  <2> USE DEF BridgeTypeOK
  <2>0. limit \in Nat
    OBVIOUS
  <2>1. CASE StartBridge /\ UNCHANGED <<crashes, end_offset>>
    <3>1. Trim(snapshot) \in Seq(Record)
      BY TrimType, <2>0
    <3> QED BY <2>1, <3>1 DEF StartBridge
  <2>2. ASSUME NEW p \in Partition, Append1(p), UNCHANGED <<crashes, end_offset>>
        PROVE  BridgeTypeOK'
    <3>1. <<p, b_position[p] + 1>> \in Record
      BY DEF Record
    <3>2. Append(history, <<p, b_position[p] + 1>>) \in Seq(Record)
      BY <3>1
    <3>3. Trim(Append(history, <<p, b_position[p] + 1>>)) \in Seq(Record)
      BY <3>2, TrimType, <2>0
    <3>4. polled + 1 \in 0..PollSize
      BY <2>2 DEF Append1
    <3> QED BY <2>2, <3>3, <3>4 DEF Append1, Advanced
  <2>3. CASE EndPoll /\ UNCHANGED <<crashes, end_offset>>
    BY <2>3 DEF EndPoll
  <2>4. CASE CompleteReplay /\ UNCHANGED <<crashes, end_offset>>
    BY <2>4 DEF CompleteReplay
  <2>5. CASE PollOn /\ UNCHANGED <<crashes, end_offset>>
    BY <2>5 DEF PollOn
  <2>6. CASE WriteSnapshot /\ UNCHANGED <<crashes, end_offset>>
    BY <2>6 DEF WriteSnapshot
  <2>7. CASE Commit /\ UNCHANGED <<crashes, end_offset>>
    BY <2>7 DEF Commit
  <2>8. CASE CrashBridge /\ UNCHANGED end_offset
    <3>1. <<>> \in Seq(Record) /\ 0 \in 0..PollSize
      OBVIOUS
    <3>2. NoneRead \in [Partition -> Nat]
      BY DEF NoneRead
    <3>3. crashes' \in 0..MaxCrashes
      BY <2>8 DEF CrashBridge, Kill
    <3> QED BY <2>8, <3>1, <3>2, <3>3 DEF CrashBridge
  <2>9. CASE (\E p \in Partition : Grow(p)) /\ UNCHANGED <<bridge, crashes>>
    BY <2>9 DEF Grow, bridge
  <2>10. CASE UNCHANGED bridgeVars
    BY <2>10 DEF bridgeVars
  <2>11. CASE Kill /\ UNCHANGED <<bridge, end_offset>>
    BY <2>11 DEF Kill, bridge
  <2> QED
    BY <2>1, <2>2, <2>3, <2>4, <2>5, <2>6, <2>7, <2>8, <2>9, <2>10, <2>11
       DEF BridgeNext, BridgeStep, BridgeLoop
<1> QED BY <1>1, <1>2, PTL DEF BridgeSpec

-----------------------------------------------------------------------------
(* The bridge: what is committed is shown *)

Holds(s, r)   == \E i \in 1..Len(s) : s[i] = r
Bounded(s)    == limit # 0 => Len(s) <= limit
\* Every record before the positions at is in s, unless s is full.
Covers(s, at) == \A p \in Partition : \A i \in 1..at[p] : Holds(s, <<p, i>>) \/ Full(s)

\* A running bridge has read everything up to its positions into its history,
\* is never behind what it has committed, and commits only what it has written.
BridgeInv ==
    /\ Bounded(snapshot) /\ Bounded(history)
    /\ Covers(snapshot, b_committed)
    /\ b_pc # "down" => /\ Covers(history, b_position)
                        /\ \A p \in Partition : b_committed[p] <= b_position[p]
    /\ b_pc = "commit" => snapshot = history

\* A bounded sequence is not trimmed.
LEMMA TrimBounded ==
    ASSUME NEW s \in Seq(Record), limit \in Nat, Bounded(s)
    PROVE  Trim(s) = s
BY DEF Trim, Bounded

\* Appending to a bounded history either keeps everything and adds the record, or
\* leaves the history full.
LEMMA TrimAppend ==
    ASSUME NEW s \in Seq(Record), NEW r \in Record, limit \in Nat, Bounded(s)
    PROVE  /\ Bounded(Trim(Append(s, r)))
           /\ \/ Full(Trim(Append(s, r)))
              \/ /\ ~ Full(s)
                 /\ \A x : Holds(s, x) \/ x = r => Holds(Trim(Append(s, r)), x)
<1> DEFINE t == Append(s, r)
<1>1. t \in Seq(Record) /\ Len(t) = Len(s) + 1 /\ Len(s) \in Nat
  OBVIOUS
<1>2. CASE limit = 0 \/ Len(t) <= limit
  <2>1. Trim(t) = t
    BY <1>2 DEF Trim
  <2>2. Bounded(t) /\ ~ Full(s)
    BY <1>1, <1>2 DEF Bounded, Full
  <2>3. ASSUME NEW x, Holds(s, x) \/ x = r
        PROVE  Holds(t, x)
    <3>1. CASE x = r
      <4>1. t[Len(t)] = r /\ Len(t) \in 1..Len(t)
        BY <1>1
      <4> QED BY <3>1, <4>1 DEF Holds
    <3>2. CASE Holds(s, x)
      <4>1. PICK i \in 1..Len(s) : s[i] = x
        BY <3>2 DEF Holds
      <4>2. t[i] = x /\ i \in 1..Len(t)
        BY <4>1, <1>1
      <4> QED BY <4>2 DEF Holds
    <3> QED BY <2>3, <3>1, <3>2
  <2> QED BY <2>1, <2>2, <2>3
<1>3. CASE ~ (limit = 0 \/ Len(t) <= limit)
  <2>1. Len(t) = limit + 1 /\ limit \in Nat \ {0}
    BY <1>1, <1>3 DEF Bounded
  <2>2. Trim(t) = SubSeq(t, 2, limit + 1)
    <3>1. Len(t) - limit + 1 = 2
      BY <2>1
    <3> QED BY <1>3, <2>1, <3>1 DEF Trim
  <2>3. Len(SubSeq(t, 2, limit + 1)) = limit
    BY <1>1, <2>1
  <2> QED BY <2>1, <2>2, <2>3 DEF Full, Bounded
<1> QED BY <1>2, <1>3

LEMMA BridgeInvInit == TopicsInit /\ BridgeInit => BridgeInv
BY LimitsAssumption
   DEF LimitsAssumption, TopicsInit, BridgeInit, BridgeInv, Bounded, Covers, NoneRead

\* Appending a record keeps what the history has.
LEMMA AppendKeepsBridgeInv ==
    ASSUME BridgeTypeOK, BridgeInv, NEW p \in Partition, Append1(p)
    PROVE  BridgeInv'
<1> DEFINE r == <<p, b_position[p] + 1>>
<1>1. limit \in Nat /\ history \in Seq(Record) /\ r \in Record /\ Bounded(history)
  BY LimitsAssumption DEF LimitsAssumption, BridgeTypeOK, BridgeInv, Record
<1>2. history' = Trim(Append(history, r)) /\ limit' = limit /\ b_pc = "poll" /\ b_pc' = "poll"
  BY DEF Append1
<1>3. /\ Bounded(history')
      /\ \/ Full(history')
         \/ ~ Full(history) /\ \A x : Holds(history, x) \/ x = r => Holds(history', x)
  BY <1>1, <1>2, TrimAppend
<1>4. Covers(history, b_position)' /\ (\A q \in Partition : b_committed[q] <= b_position[q])'
  <2>1. b_position' = [b_position EXCEPT ![p] = @ + 1] /\ b_committed' = b_committed
    BY DEF Append1, Advanced
  <2>2. \A q \in Partition : b_committed[q] <= b_position[q]
    BY <1>2 DEF BridgeInv
  <2>3. \A q \in Partition : b_committed'[q] <= b_position'[q]
    BY <2>1, <2>2 DEF BridgeTypeOK
  <2>4. ASSUME NEW q \in Partition, NEW i \in 1..b_position'[q]
        PROVE  Holds(history', <<q, i>>) \/ Full(history')
    <3>1. CASE Full(history')
      BY <3>1
    <3>2. CASE ~ Full(history) /\ \A x : Holds(history, x) \/ x = r => Holds(history', x)
      <4>1. CASE i \in 1..b_position[q]
        <5>1. Holds(history, <<q, i>>)
          BY <1>2, <3>2, <4>1 DEF BridgeInv, Covers
        <5> QED BY <3>2, <5>1
      <4>2. CASE i \notin 1..b_position[q]
        <5>1. q = p /\ i = b_position[p] + 1
          BY <2>1, <4>2 DEF BridgeTypeOK
        <5> QED BY <3>2, <5>1
      <4> QED BY <4>1, <4>2
    <3> QED BY <1>3, <3>1, <3>2
  <2>5. Full(history)' <=> Full(history')
    BY <1>2 DEF Full
  <2> QED BY <2>3, <2>4, <2>5 DEF Covers
<1>5. snapshot' = snapshot /\ b_committed' = b_committed
  BY DEF Append1
<1>6. Bounded(history)' /\ Bounded(snapshot)'
  BY <1>2, <1>3, <1>5 DEF Bounded, BridgeInv
<1>7. Covers(snapshot, b_committed)'
  BY <1>2, <1>5 DEF BridgeInv, Covers, Full
<1> QED BY <1>2, <1>4, <1>6, <1>7 DEF BridgeInv

\* Every step of the bridge and of its environment keeps the invariant.
LEMMA BridgeInvStep ==
    ASSUME BridgeTypeOK, BridgeInv, [BridgeNext]_bridgeVars
    PROVE  BridgeInv'
<1>0. limit \in Nat /\ snapshot \in Seq(Record)
  BY LimitsAssumption DEF LimitsAssumption, BridgeTypeOK
<1>1. CASE StartBridge
  <2>1. Trim(snapshot) = snapshot
    BY <1>0, TrimBounded DEF BridgeInv
  <2>2. /\ snapshot' = snapshot /\ history' = snapshot /\ b_committed' = b_committed
        /\ b_position' = b_committed /\ limit' = limit /\ b_pc' = "poll"
    BY <1>1, <2>1 DEF StartBridge
  <2>3. \A p \in Partition : b_committed[p] <= b_committed[p]
    BY DEF BridgeTypeOK
  <2> QED BY <2>2, <2>3 DEF BridgeInv, Bounded, Covers, Full
<1>2. ASSUME NEW p \in Partition, Append1(p)
      PROVE  BridgeInv'
  BY <1>2, AppendKeepsBridgeInv
<1>3. CASE EndPoll \/ CompleteReplay \/ PollOn
  BY <1>3 DEF EndPoll, CompleteReplay, PollOn, BridgeInv, Bounded, Covers, Full
<1>4. CASE WriteSnapshot
  \* What the history has up to the positions, it has up to the committed ones.
  <2>1. /\ snapshot' = history /\ history' = history /\ b_committed' = b_committed
        /\ b_position' = b_position /\ limit' = limit /\ b_pc = "write" /\ b_pc' = "commit"
    BY <1>4 DEF WriteSnapshot
  <2>2. Covers(history, b_position) /\ \A p \in Partition : b_committed[p] <= b_position[p]
    BY <2>1 DEF BridgeInv
  <2>3. \A p \in Partition : 1..b_committed[p] \subseteq 1..b_position[p]
    BY <2>2 DEF BridgeTypeOK
  <2>4. Covers(history, b_committed)
    BY <2>2, <2>3 DEF Covers
  <2> QED BY <2>1, <2>2, <2>4 DEF BridgeInv, Bounded, Covers, Full
<1>5. CASE Commit
  <2>1. /\ snapshot' = snapshot /\ history' = history /\ b_committed' = b_position
        /\ b_position' = b_position /\ limit' = limit /\ b_pc = "commit" /\ b_pc' = "poll"
    BY <1>5 DEF Commit
  <2>2. Covers(history, b_position) /\ snapshot = history
    BY <2>1 DEF BridgeInv
  <2>3. \A p \in Partition : b_position[p] <= b_position[p]
    BY DEF BridgeTypeOK
  <2> QED BY <2>1, <2>2, <2>3 DEF BridgeInv, Bounded, Covers, Full
<1>6. CASE CrashBridge
  <2>1. /\ snapshot' = snapshot /\ history' = <<>> /\ b_committed' = b_committed
        /\ limit' = limit /\ b_pc' = "down"
    BY <1>6 DEF CrashBridge
  <2>2. Bounded(<<>>)
    BY <1>0 DEF Bounded
  <2> QED BY <2>1, <2>2 DEF BridgeInv, Bounded, Covers, Full
<1>7. CASE UNCHANGED bridge
  BY <1>7 DEF bridge, BridgeInv, Bounded, Covers, Full
<1> QED
  BY <1>1, <1>2, <1>3, <1>4, <1>5, <1>6, <1>7
     DEF BridgeNext, BridgeStep, BridgeLoop, bridgeVars, bridge

\* A record whose offset the bridge has committed is on the snapshot unless a limit
\* has pushed it out, for every interleaving of polls, kills and publications.
THEOREM CommittedShown == BridgeSpec => []CommittedOnSnapshot
<1>1. BridgeInv => CommittedOnSnapshot
  BY DEF BridgeInv, Covers, Holds, CommittedOnSnapshot, OnSnapshot
<1> QED BY <1>1, BridgeTypeCorrect, BridgeInvInit, BridgeInvStep, PTL DEF BridgeSpec

-----------------------------------------------------------------------------
(* The forwarder *)

\* The forwarder's variables keep their types.
THEOREM ForwarderTypeCorrect == ForwarderSpec => []ForwarderTypeOK
<1> USE CrashesAssumption, ForwarderAssumption DEF CrashesAssumption, ForwarderAssumption
<1>0. NoneRead \in [Partition -> Nat]
  BY DEF NoneRead
<1>1. TopicsInit /\ ForwarderInit => ForwarderTypeOK
  <2>1. 0 \in 0..MaxErrors /\ 0 \in 0..MaxCrashes
    OBVIOUS
  <2> QED BY <1>0, <2>1 DEF TopicsInit, ForwarderInit, ForwarderTypeOK
<1>2. ForwarderTypeOK /\ [ForwarderNext]_<<end_offset, crashes, forwarder>> => ForwarderTypeOK'
  <2> SUFFICES ASSUME ForwarderTypeOK, [ForwarderNext]_<<end_offset, crashes, forwarder>>
               PROVE  ForwarderTypeOK'
    OBVIOUS
  <2> USE DEF ForwarderTypeOK
  <2>1. CASE StartForwarder /\ UNCHANGED <<crashes, end_offset>>
    BY <2>1 DEF StartForwarder
  <2>2. CASE Poll /\ UNCHANGED <<crashes, end_offset>>
    BY <2>2 DEF Poll
  <2>3. ASSUME NEW p \in Partition, Yield(p), UNCHANGED <<crashes, end_offset>>
        PROVE  ForwarderTypeOK'
    <3>1. <<p, f_position[p] + 1>> \in Record /\ 1 \in 1..Attempts
      BY DEF Record
    <3> QED BY <2>3, <3>1 DEF Yield, Advanced
  <2>4. CASE Accepted /\ UNCHANGED <<crashes, end_offset>>
    BY <2>4 DEF Accepted
  <2>5. CASE Refused /\ UNCHANGED <<crashes, end_offset>>
    <3>1. attempt + 1 \in 1..Attempts /\ errors' \in 0..MaxErrors
      BY <2>5 DEF Refused, PostFails
    <3> QED BY <2>5, <3>1 DEF Refused, PostFails
  <2>6. CASE Raised /\ UNCHANGED <<crashes, end_offset>>
    <3>1. message \in Record /\ errors' \in 0..MaxErrors
      BY <2>6 DEF Raised, PostFails
    <3> QED BY <1>0, <2>6, <3>1 DEF Raised, Stop
  <2>7. CASE CrashForwarder /\ UNCHANGED end_offset
    <3>1. crashes' \in 0..MaxCrashes
      BY <2>7 DEF CrashForwarder, Kill
    <3> QED BY <1>0, <2>7, <3>1 DEF CrashForwarder, Stop
  <2>8. CASE (\E p \in Partition : Grow(p)) /\ UNCHANGED <<forwarder, crashes>>
    BY <2>8 DEF Grow, forwarder
  <2>9. CASE UNCHANGED <<end_offset, crashes, forwarder>>
    BY <2>9 DEF forwarder
  <2>10. CASE Kill /\ UNCHANGED <<forwarder, end_offset>>
    BY <2>10 DEF Kill, forwarder
  <2> QED
    BY <2>1, <2>2, <2>3, <2>4, <2>5, <2>6, <2>7, <2>8, <2>9, <2>10
       DEF ForwarderNext, ForwarderStep, ForwarderLoop
<1> QED BY <1>1, <1>2, PTL DEF ForwarderSpec

Settled(r) == r \in indexed \cup excused

\* Everything before the positions is in Splunk, but for the record being posted.
ForwarderInv ==
    /\ CommittedIsIndexed
    /\ f_pc # "down" =>
           \A p \in Partition : \A i \in 1..f_position[p] :
               Settled(<<p, i>>) \/ (f_pc = "emit" /\ message = <<p, i>>)

LEMMA ForwarderInvStep ==
    ASSUME ForwarderTypeOK, ForwarderInv,
           [ForwarderNext]_<<end_offset, crashes, forwarder>>
    PROVE  ForwarderInv'
<1> USE DEF ForwarderInv, CommittedIsIndexed, Settled
<1>1. CASE StartForwarder
  <2>1. /\ f_pc' = "idle" /\ f_committed' = f_committed /\ f_position' = f_committed
        /\ indexed' = indexed /\ excused' = excused
    BY <1>1 DEF StartForwarder
  <2>2. \A p \in Partition : \A i \in 1..f_committed[p] : Settled(<<p, i>>)
    OBVIOUS
  <2> QED BY <2>1, <2>2
<1>2. CASE Poll
  <2>1. /\ f_pc = "idle" /\ f_pc' = "idle" /\ f_committed' = f_position /\ f_position' = f_position
        /\ indexed' = indexed /\ excused' = excused /\ message' = message
    BY <1>2 DEF Poll
  <2>2. \A p \in Partition : \A i \in 1..f_position[p] : Settled(<<p, i>>)
    BY <2>1
  <2> QED BY <2>1, <2>2
<1>3. ASSUME NEW p \in Partition, Yield(p)
      PROVE  ForwarderInv'
  <2>1. /\ f_position' = [f_position EXCEPT ![p] = @ + 1] /\ f_committed' = f_committed
        /\ message' = <<p, f_position[p] + 1>> /\ f_pc = "idle" /\ f_pc' = "emit"
        /\ indexed' = indexed /\ excused' = excused
    BY <1>3 DEF Yield, Advanced
  <2>2. ASSUME NEW q \in Partition, NEW i \in 1..f_position'[q]
        PROVE  Settled(<<q, i>>) \/ message' = <<q, i>>
    <3>1. CASE i \in 1..f_position[q]
      BY <2>1, <3>1
    <3>2. CASE i \notin 1..f_position[q]
      <4>1. q = p /\ i = f_position[p] + 1
        BY <2>1, <3>2 DEF ForwarderTypeOK
      <4> QED BY <2>1, <4>1
    <3> QED BY <3>1, <3>2
  <2> QED BY <2>1, <2>2
<1>4. CASE Accepted
  BY <1>4 DEF Accepted
<1>5. CASE Refused
  BY <1>5 DEF Refused, PostFails
<1>6. CASE Raised
  <2>1. f_pc' = "down" /\ f_pc = "emit" /\ indexed \subseteq indexed' /\ excused \subseteq excused'
    BY <1>6 DEF Raised, Stop, PostFails
  <2>2. CASE f_committed' = f_committed
    BY <2>1, <2>2
  <2>3. CASE f_committed' = f_position
    <3>1. excused' = excused \cup {message}
      BY <1>6, <2>3 DEF Raised
    <3>2. ASSUME NEW p \in Partition, NEW i \in 1..f_position[p]
          PROVE  <<p, i>> \in indexed' \cup excused'
      <4>1. Settled(<<p, i>>) \/ message = <<p, i>>
        BY <2>1
      <4> QED BY <2>1, <3>1, <4>1
    <3> QED BY <2>1, <2>3, <3>2
  <2> QED BY <1>6, <2>2, <2>3 DEF Raised
<1>7. CASE CrashForwarder
  BY <1>7 DEF CrashForwarder, Stop
<1>8. CASE UNCHANGED forwarder
  BY <1>8 DEF forwarder
<1> QED
  BY <1>1, <1>2, <1>3, <1>4, <1>5, <1>6, <1>7, <1>8
     DEF ForwarderNext, ForwarderStep, ForwarderLoop, forwarder

\* A record whose offset the forwarder has committed is in Splunk, unless the post
\* of it raised and the process committed as it unwound.
THEOREM CommittedForwarded == ForwarderSpec => []CommittedIsIndexed
<1>1. TopicsInit /\ ForwarderInit => ForwarderInv
  BY DEF TopicsInit, ForwarderInit, ForwarderInv, CommittedIsIndexed, NoneRead
<1>2. ForwarderInv => CommittedIsIndexed
  BY DEF ForwarderInv
<1> QED BY <1>1, <1>2, ForwarderTypeCorrect, ForwarderInvStep, PTL DEF ForwarderSpec

-----------------------------------------------------------------------------
(* Both readers on one history of the topics *)

\* The history is one of the scenarios, and published as far as it goes.
HistoryOK == <<script, running>> \in Scenarios /\ published \in 0..Len(script)

LEMMA HistoryTyped ==
    ASSUME HistoryOK
    PROVE  /\ Len(script) \in Nat
           /\ \A i \in 1..Len(script) :
                  /\ script[i].partition \in Partition
                  /\ IsBatchEvent(script[i]) => ToSet(script[i].txs) # {}
           /\ \A i, j \in 1..Len(script) :
                  IsBatchEvent(script[i]) /\ IsBatchEvent(script[j])
                      /\ script[i].batch = script[j].batch => script[i].txs = script[j].txs
<1>1. <<script, running>>[1] = script
  OBVIOUS
<1>2. <<script, running>> \in Scenarios
  BY DEF HistoryOK
<1> QED BY <1>1, <1>2, ScenariosAssumption DEF ScenariosAssumption

LEMMA HistoryInit == Init => HistoryOK
<1> SUFFICES ASSUME Init PROVE HistoryOK
  OBVIOUS
<1>1. PICK s \in Scenarios : script = s[1] /\ running = s[2]
  BY DEF Init
<1>2. s = <<s[1], s[2]>> /\ Len(s[1]) \in Nat
  BY ScenariosAssumption DEF ScenariosAssumption
<1>3. <<script, running>> = s
  BY <1>1, <1>2
<1>4. 0 \in 0..Len(script)
  BY <1>1, <1>2
<1> QED BY <1>3, <1>4 DEF HistoryOK, Init

LEMMA HistoryStep ==
    ASSUME HistoryOK, [Next]_vars
    PROVE  HistoryOK'
<1>1. CASE Publish
  <2>1. published + 1 \in 0..Len(script)
    BY <1>1, HistoryTyped DEF HistoryOK, Publish
  <2> QED BY <1>1, <2>1 DEF HistoryOK, Publish
<1>2. CASE UNCHANGED world
  BY <1>2 DEF HistoryOK, world
<1> QED BY <1>1, <1>2 DEF Next, RunBridge, RunForwarder, vars, world

\* Each step of the composition is one of the bridge, of the process beside it, of
\* the services that publish, or none that the bridge can tell.
LEMMA StepOfBridge ==
    ASSUME HistoryOK, [Next]_vars
    PROVE  [BridgeNext]_bridgeVars
<1>1. CASE Publish
  <2>1. script[published + 1].partition \in Partition
    <3>1. published + 1 \in 1..Len(script)
      BY <1>1, HistoryTyped DEF HistoryOK, Publish
    <3> QED BY <3>1, HistoryTyped
  <2> QED BY <1>1, <2>1 DEF Publish, BridgeNext
<1>2. CASE RunBridge
  BY <1>2 DEF RunBridge, BridgeNext
<1>3. CASE RunForwarder
  <2>1. UNCHANGED crashes \/ Kill
    BY <1>3 DEF RunForwarder, ForwarderStep, CrashForwarder
  <2> QED BY <1>3, <2>1 DEF RunForwarder, BridgeNext, bridge, bridgeVars
<1>4. CASE UNCHANGED vars
  BY <1>4 DEF vars, bridge, bridgeVars
<1> QED BY <1>1, <1>2, <1>3, <1>4 DEF Next

LEMMA StepOfForwarder ==
    ASSUME HistoryOK, [Next]_vars
    PROVE  [ForwarderNext]_<<end_offset, crashes, forwarder>>
<1>1. CASE Publish
  <2>1. script[published + 1].partition \in Partition
    <3>1. published + 1 \in 1..Len(script)
      BY <1>1, HistoryTyped DEF HistoryOK, Publish
    <3> QED BY <3>1, HistoryTyped
  <2> QED BY <1>1, <2>1 DEF Publish, ForwarderNext
<1>2. CASE RunForwarder
  BY <1>2 DEF RunForwarder, ForwarderNext
<1>3. CASE RunBridge
  <2>1. UNCHANGED crashes \/ Kill
    BY <1>3 DEF RunBridge, BridgeStep, CrashBridge
  <2> QED BY <1>3, <2>1 DEF RunBridge, ForwarderNext
<1>4. CASE UNCHANGED vars
  BY <1>4 DEF vars
<1> QED BY <1>1, <1>2, <1>3, <1>4 DEF Next

\* In the composition the bridge and the forwarder behave as each is specified on its
\* own: the shared topics and kills are their only contact.
THEOREM RunsBridge == Spec => BridgeSpec
<1>1. Init => TopicsInit /\ BridgeInit
  BY DEF Init
<1> QED BY <1>1, HistoryInit, HistoryStep, StepOfBridge, PTL DEF Spec, BridgeSpec

\* The same for the forwarder.
THEOREM RunsForwarder == Spec => ForwarderSpec
<1>1. Init => TopicsInit /\ ForwarderInit
  BY DEF Init
<1> QED BY <1>1, HistoryInit, HistoryStep, StepOfForwarder, PTL DEF Spec, ForwarderSpec

\* Every variable of the composition keeps its type.
THEOREM TypeCorrect == Spec => []TypeOK
<1>1. BridgeTypeOK /\ ForwarderTypeOK /\ HistoryOK => TypeOK
  BY DEF TypeOK, HistoryOK
<1> QED
  BY <1>1, HistoryInit, HistoryStep, RunsBridge, RunsForwarder, BridgeTypeCorrect,
     ForwarderTypeCorrect, PTL DEF Spec

\* What the bridge has committed is on the snapshot, whatever the forwarder does.
THEOREM CommittedOnSnapshotHolds == Spec => []CommittedOnSnapshot
BY RunsBridge, CommittedShown, PTL

\* What the forwarder has committed is in Splunk, whatever the bridge does.
THEOREM CommittedIsIndexedHolds == Spec => []CommittedIsIndexed
BY RunsForwarder, CommittedForwarded, PTL

-----------------------------------------------------------------------------
(* The loop over the batch events *)

\* The states of the loop over the first n events of E.
IsRun(run, E, n) ==
    run[0] = NoBatches /\ \A i \in 1..n : run[i] = TakeBatchEvent(run[i - 1], E[i])

\* A fold by Max over the subsets of D, as FoldLeft does it.
Folded(g, E, D) ==
    g = [s \in SUBSET D |->
            IF s = {} THEN NoBatches ELSE TakeBatchEvent(g[s \ {Max(s)}], E[Max(s)])]

LEMMA MaxOfInterval ==
    ASSUME NEW k \in Nat, NEW s \in SUBSET (1..k), k \in s
    PROVE  Max(s) = k
<1>1. \A y \in s : k >= y
  OBVIOUS
<1>2. Max(s) \in s /\ \A y \in s : Max(s) >= y
  BY <1>1 DEF Max
<1>3. \A m \in s : m >= k => m = k
  OBVIOUS
<1> QED BY <1>2, <1>3

LEMMA FoldExists ==
    ASSUME NEW E, NEW n \in Nat
    PROVE  \E g : Folded(g, E, 1..n)
<1> DEFINE T == {k \in 0..n : \E g : Folded(g, E, 1..k)}
<1>1. 0 \in T
  <2> DEFINE g == [s \in SUBSET (1..0) |-> NoBatches]
  <2>1. \A s \in SUBSET (1..0) : s = {}
    OBVIOUS
  <2>2. Folded(g, E, 1..0)
    BY <2>1 DEF Folded
  <2> HIDE DEF g
  <2> QED BY <2>2
<1>2. ASSUME NEW k \in 0..(n - 1), k \in T
      PROVE  k + 1 \in T
  <2>1. PICK g : Folded(g, E, 1..k)
    BY <1>2
  <2> DEFINE h == [s \in SUBSET (1..(k + 1)) |->
                      IF k + 1 \in s THEN TakeBatchEvent(g[s \ {k + 1}], E[k + 1]) ELSE g[s]]
  <2>2. ASSUME NEW s \in SUBSET (1..(k + 1))
        PROVE  h[s] = IF s = {} THEN NoBatches
                      ELSE TakeBatchEvent(h[s \ {Max(s)}], E[Max(s)])
    <3>1. CASE k + 1 \in s
      <4>1. Max(s) = k + 1
        BY <3>1, MaxOfInterval
      <4>2. s \ {k + 1} \in SUBSET (1..(k + 1)) /\ k + 1 \notin s \ {k + 1}
        OBVIOUS
      <4>3. h[s \ {k + 1}] = g[s \ {k + 1}]
        BY <4>2
      <4>4. h[s] = TakeBatchEvent(g[s \ {k + 1}], E[k + 1])
        BY <3>1
      <4> HIDE DEF h
      <4> QED BY <3>1, <4>1, <4>3, <4>4
    <3>2. CASE k + 1 \notin s
      <4>1. s \in SUBSET (1..k)
        BY <3>2
      <4>2. s \ {Max(s)} \in SUBSET (1..k) /\ s \ {Max(s)} \in SUBSET (1..(k + 1))
        BY <4>1
      <4>3. h[s] = g[s] /\ h[s \ {Max(s)}] = g[s \ {Max(s)}]
        BY <3>2, <4>1, <4>2
      <4>4. g[s] = IF s = {} THEN NoBatches
                   ELSE TakeBatchEvent(g[s \ {Max(s)}], E[Max(s)])
        BY <2>1, <4>1 DEF Folded
      <4> HIDE DEF h
      <4> QED BY <4>3, <4>4
    <3> QED BY <3>1, <3>2
  <2>3. Folded(h, E, 1..(k + 1))
    BY <2>2 DEF Folded
  <2>4. k + 1 \in 0..n
    OBVIOUS
  <2> HIDE DEF h
  <2> QED BY <2>3, <2>4
<1>3. \A k \in 0..n : k \in T
  <2> HIDE DEF T
  <2>1. 0 \in Nat
    OBVIOUS
  <2> QED BY <1>1, <1>2, <2>1, UpTo
<1> QED BY <1>3

LEMMA FoldWithin ==
    ASSUME NEW E, NEW n \in Nat, NEW D \in SUBSET (1..n)
    PROVE  \E g : Folded(g, E, D)
<1>1. PICK g : Folded(g, E, 1..n)
  BY FoldExists
<1> DEFINE h == [s \in SUBSET D |-> g[s]]
<1>2. ASSUME NEW s \in SUBSET D
      PROVE  h[s] = IF s = {} THEN NoBatches
                    ELSE TakeBatchEvent(h[s \ {Max(s)}], E[Max(s)])
  <2>1. s \in SUBSET (1..n) /\ s \ {Max(s)} \in SUBSET D
    OBVIOUS
  <2>2. h[s] = g[s] /\ h[s \ {Max(s)}] = g[s \ {Max(s)}]
    BY <2>1
  <2>3. g[s] = IF s = {} THEN NoBatches ELSE TakeBatchEvent(g[s \ {Max(s)}], E[Max(s)])
    BY <1>1, <2>1 DEF Folded
  <2> HIDE DEF h
  <2> QED BY <2>2, <2>3
<1>3. Folded(h, E, D)
  BY <1>2 DEF Folded
<1> HIDE DEF h
<1> QED BY <1>3

\* The states of the loop over those of the first n places at which E has an event.
IsPartRun(run, E, n) ==
    /\ run[0] = NoBatches
    /\ \A i \in 1..n :
           run[i] = IF i \in DOMAIN E THEN TakeBatchEvent(run[i - 1], E[i]) ELSE run[i - 1]

\* The loop has states, and ends in the last of them.
LEMMA PartRun ==
    ASSUME NEW E, NEW n \in Nat, DOMAIN E \subseteq 1..n
    PROVE  \E run : IsPartRun(run, E, n) /\ Batches(E) = run[n]
<1>0. PICK D \in SUBSET (1..n) : D = DOMAIN E
  OBVIOUS
<1> DEFINE iter == CHOOSE g : Folded(g, E, D)
           run  == [i \in 0..n |-> iter[D \cap 1..i]]
<1>1. Batches(E) = iter[D]
  BY <1>0, SMT DEF Batches, FoldLeft, MapThenFoldSet, Folded
<1>2. Folded(iter, E, D)
  BY FoldWithin
<1>3. run[0] = NoBatches
  <2>1. D \cap 1..0 = {} /\ {} \in SUBSET D /\ 0 \in 0..n
    OBVIOUS
  <2>2. iter[{}] = NoBatches
    <3> HIDE DEF iter
    <3> QED BY <1>2, <2>1 DEF Folded
  <2> QED BY <2>1, <2>2
<1>4. ASSUME NEW i \in 1..n
      PROVE  run[i] = IF i \in D THEN TakeBatchEvent(run[i - 1], E[i]) ELSE run[i - 1]
  <2>1. i \in 0..n /\ i - 1 \in 0..n /\ i \in Nat
    OBVIOUS
  <2> HIDE DEF iter
  <2>2. run[i] = iter[D \cap 1..i] /\ run[i - 1] = iter[D \cap 1..(i - 1)]
    BY <2>1
  <2>3. CASE i \notin D
    <3>1. D \cap 1..i = D \cap 1..(i - 1)
      BY <2>3
    <3> HIDE DEF iter, run
    <3> QED BY <2>2, <2>3, <3>1
  <2>4. CASE i \in D
    <3>1. PICK s : s = D \cap 1..i
      OBVIOUS
    <3>2. s \in SUBSET D /\ s \in SUBSET (1..i) /\ i \in s
      BY <2>4, <3>1
    <3>3. Max(s) = i /\ s # {}
      BY <2>1, <3>2, MaxOfInterval
    <3>4. s \ {i} = D \cap 1..(i - 1)
      BY <3>1
    <3> HIDE DEF iter, run
    <3>5. iter[s] = TakeBatchEvent(iter[s \ {i}], E[i])
      BY <1>2, <3>2, <3>3 DEF Folded
    <3> QED BY <2>2, <2>4, <3>1, <3>4, <3>5
  <2> QED BY <2>3, <2>4
<1>5. run[n] = iter[D]
  <2> HIDE DEF iter
  <2>1. n \in 0..n
    OBVIOUS
  <2>2. \A i \in D : i \in 1..n
    OBVIOUS
  <2>3. D \cap 1..n = D
    BY <2>2
  <2> QED BY <2>1, <2>3
<1> HIDE DEF run, iter
<1>6. IsPartRun(run, E, n)
  BY <1>0, <1>3, <1>4 DEF IsPartRun
<1> QED BY <1>1, <1>5, <1>6

LEMMA BatchesRun ==
    ASSUME NEW E, NEW n \in Nat, DOMAIN E = 1..n
    PROVE  \E run : IsRun(run, E, n) /\ Batches(E) = run[n]
BY PartRun DEF IsPartRun, IsRun

\* Any states of the loop end in its result.
LEMMA RunDetermines ==
    ASSUME NEW E, NEW n \in Nat, DOMAIN E = 1..n, NEW run, IsRun(run, E, n)
    PROVE  Batches(E) = run[n]
<1>1. PICK r : IsRun(r, E, n) /\ Batches(E) = r[n]
  BY BatchesRun
<1> DEFINE T == {i \in 0..n : r[i] = run[i]}
<1>2. 0 \in T
  BY <1>1 DEF IsRun
<1>3. ASSUME NEW i \in 0..(n - 1), i \in T
      PROVE  i + 1 \in T
  <2>1. i + 1 \in 1..n /\ (i + 1) - 1 = i /\ i + 1 \in 0..n
    OBVIOUS
  <2>2. r[i + 1] = TakeBatchEvent(r[i], E[i + 1]) /\ run[i + 1] = TakeBatchEvent(run[i], E[i + 1])
    BY <1>1, <2>1 DEF IsRun
  <2> QED BY <1>3, <2>1, <2>2
<1>4. \A i \in 0..n : i \in T
  <2> HIDE DEF T
  <2>1. 0 \in Nat
    OBVIOUS
  <2> QED BY <1>2, <1>3, <2>1, UpTo
<1> QED BY <1>1, <1>4

-----------------------------------------------------------------------------
(* Settlement rows *)

IsState(st)   == \E R, A, C : st = [rows |-> R, assigned |-> A, completed |-> C]
FinalRows(st) == {b \in DOMAIN st.rows : st.rows[b].status \in Final}

\* An event is left out, or its batch gets a row of it.
LeftOut(st, t) == t.rows = st.rows /\ t.completed = st.completed
Taken(st, t, e) ==
    /\ IsBatchEvent(e) /\ ~ Late(st.rows, e) /\ ~ SettledAgain(st.completed, e)
    /\ t.rows = [b \in DOMAIN st.rows \cup {e.batch} |->
                    IF b = e.batch THEN BatchRow(e) ELSE st.rows[b]]
    /\ t.completed = IF BatchStatus[e.type] \in Final
                     THEN st.completed \cup ToSet(e.txs) ELSE st.completed

LEMMA TakeStep ==
    ASSUME NEW st, NEW e, IsState(st)
    PROVE  /\ IsState(TakeBatchEvent(st, e))
           /\ \/ LeftOut(st, TakeBatchEvent(st, e))
              \/ Taken(st, TakeBatchEvent(st, e), e)
<1>1. PICK R, A, C : st = [rows |-> R, assigned |-> A, completed |-> C]
  BY DEF IsState
<1>2. CASE ~ IsBatchEvent(e)
  BY <1>2 DEF TakeBatchEvent, LeftOut
<1>3. CASE IsBatchEvent(e) /\ (Late(st.rows, e) \/ SettledAgain(st.completed, e))
  <2>1. TakeBatchEvent(st, e)
            = [rows |-> R, assigned |-> A \cup ToSet(e.txs), completed |-> C]
    BY <1>1, <1>3 DEF TakeBatchEvent
  <2> DEFINE t == TakeBatchEvent(st, e)
  <2>2. IsState(t)
    BY <2>1 DEF IsState
  <2>3. t.rows = R /\ t.completed = C /\ st.rows = R /\ st.completed = C
    BY <1>1, <2>1
  <2> QED BY <2>2, <2>3 DEF LeftOut
<1>4. CASE IsBatchEvent(e) /\ ~ (Late(st.rows, e) \/ SettledAgain(st.completed, e))
  <2>1. TakeBatchEvent(st, e)
            = [rows      |-> [b \in DOMAIN st.rows \cup {e.batch} |->
                                 IF b = e.batch THEN BatchRow(e) ELSE st.rows[b]],
               assigned  |-> st.assigned \cup ToSet(e.txs),
               completed |-> IF BatchStatus[e.type] \in Final
                             THEN st.completed \cup ToSet(e.txs) ELSE st.completed]
    BY <1>4 DEF TakeBatchEvent
  <2> DEFINE t == TakeBatchEvent(st, e)
  <2>2. IsState(t)
    BY <2>1 DEF IsState
  <2>3. Taken(st, t, e)
    BY <1>4, <2>1 DEF Taken
  <2> QED BY <2>2, <2>3
<1> QED BY <1>2, <1>3, <1>4

\* Final rows have completed transactions, and no two of them have one in common.
Apart(st) ==
    /\ \A b \in FinalRows(st) : ToSet(st.rows[b].txs) \subseteq st.completed
    /\ \A a, b \in FinalRows(st) :
           a # b => ToSet(st.rows[a].txs) \cap ToSet(st.rows[b].txs) = {}

LEMMA TakeApart ==
    ASSUME NEW st, NEW t, NEW e, Apart(st), LeftOut(st, t) \/ Taken(st, t, e)
    PROVE  Apart(t)
<1>1. CASE LeftOut(st, t)
  BY <1>1 DEF LeftOut, Apart, FinalRows
<1>2. CASE Taken(st, t, e)
  <2>1. BatchRow(e).txs = e.txs /\ BatchRow(e).status = BatchStatus[e.type]
    BY DEF BatchRow
  <2>2. t.rows[e.batch] = BatchRow(e) /\ st.completed \subseteq t.completed
    BY <1>2 DEF Taken
  <2>3. \A b \in FinalRows(t) : b # e.batch => b \in FinalRows(st) /\ t.rows[b] = st.rows[b]
    BY <1>2 DEF Taken, FinalRows
  <2>4. e.batch \in FinalRows(t) =>
            ToSet(e.txs) \subseteq t.completed /\ st.completed \cap ToSet(e.txs) = {}
    BY <1>2, <2>1, <2>2 DEF Taken, FinalRows, SettledAgain
  <2>5. ASSUME NEW b \in FinalRows(t)
        PROVE  ToSet(t.rows[b].txs) \subseteq t.completed
    BY <2>1, <2>2, <2>3, <2>4 DEF Apart
  <2>6. ASSUME NEW a \in FinalRows(t), NEW b \in FinalRows(t), a # b
        PROVE  ToSet(t.rows[a].txs) \cap ToSet(t.rows[b].txs) = {}
    <3>1. CASE a # e.batch /\ b # e.batch
      BY <2>3, <2>6, <3>1 DEF Apart
    <3>2. CASE a = e.batch
      <4>1. ToSet(t.rows[b].txs) \subseteq st.completed
        BY <2>3, <2>6, <3>2 DEF Apart
      <4> QED BY <2>1, <2>2, <2>4, <3>2, <4>1
    <3>3. CASE b = e.batch
      <4>1. ToSet(t.rows[a].txs) \subseteq st.completed
        BY <2>3, <2>6, <3>3 DEF Apart
      <4> QED BY <2>1, <2>2, <2>4, <3>3, <4>1
    <3> QED BY <3>1, <3>2, <3>3
  <2> QED BY <2>5, <2>6 DEF Apart
<1> QED BY <1>1, <1>2

\* So it is after every event of any list.
LEMMA RunApart ==
    ASSUME NEW E, NEW n \in Nat, NEW run, IsRun(run, E, n)
    PROVE  \A i \in 0..n : IsState(run[i]) /\ Apart(run[i])
<1> DEFINE T == {i \in 0..n : IsState(run[i]) /\ Apart(run[i])}
<1>1. 0 \in T
  <2>1. run[0] = NoBatches /\ 0 \in 0..n
    BY DEF IsRun
  <2>2. NoBatches.rows = <<>> /\ DOMAIN <<>> = {}
    BY DEF NoBatches
  <2>3. IsState(NoBatches)
    BY DEF NoBatches, IsState
  <2>4. Apart(NoBatches)
    BY <2>2 DEF Apart, FinalRows
  <2> QED BY <2>1, <2>3, <2>4
<1>2. ASSUME NEW i \in 0..(n - 1), i \in T
      PROVE  i + 1 \in T
  <2>1. i + 1 \in 1..n /\ (i + 1) - 1 = i /\ i + 1 \in 0..n
    OBVIOUS
  <2>2. run[i + 1] = TakeBatchEvent(run[i], E[i + 1])
    BY <2>1 DEF IsRun
  <2>3. IsState(run[i]) /\ Apart(run[i])
    BY <1>2
  <2>4. IsState(run[i + 1]) /\ (LeftOut(run[i], run[i + 1]) \/ Taken(run[i], run[i + 1], E[i + 1]))
    BY <2>2, <2>3, TakeStep
  <2>5. Apart(run[i + 1])
    BY <2>3, <2>4, TakeApart
  <2> QED BY <2>1, <2>4, <2>5
<1>3. \A i \in 0..n : i \in T
  <2> HIDE DEF T
  <2>1. 0 \in Nat
    OBVIOUS
  <2> QED BY <1>1, <1>2, <2>1, UpTo
<1> QED BY <1>3

\* No transaction is shown as settled, or at stake, in two batches: of any events
\* on the snapshot, in any order, repeated or about overlapping batches.
THEOREM SettledRowsDisjointHolds == Spec => []SettledRowsDisjoint
<1>1. TypeOK => SettledRowsDisjoint
  <2> SUFFICES ASSUME TypeOK PROVE SettledRowsDisjoint
    OBVIOUS
  <2>1. PICK E : E = Events(snapshot) /\ \E n \in Nat : DOMAIN E = 1..n
    <3>1. snapshot \in Seq(Record)
      BY DEF TypeOK, BridgeTypeOK
    <3>2. DOMAIN snapshot = 1..Len(snapshot) /\ Len(snapshot) \in Nat
      BY <3>1
    <3>3. DOMAIN Events(snapshot) = DOMAIN snapshot
      BY DEF Events
    <3> QED BY <3>2, <3>3
  <2>0. PICK n \in Nat : DOMAIN E = 1..n
    BY <2>1
  <2>2. PICK run : IsRun(run, E, n) /\ Batches(E) = run[n]
    BY <2>0, BatchesRun
  <2>3. Apart(Batches(E))
    BY <2>2, RunApart
  <2> QED BY <2>1, <2>3 DEF Apart, FinalRows, SettledRowsDisjoint, ShownRows, Shown, SettlementRows
<1> QED BY <1>1, TypeCorrect, PTL

-----------------------------------------------------------------------------
(* Outcomes stay as the list of events grows *)

\* The events of one batch name the same transactions, at least one.
Consistent(E) ==
    /\ \A i \in DOMAIN E : IsBatchEvent(E[i]) => ToSet(E[i].txs) # {}
    /\ \A i, j \in DOMAIN E :
           IsBatchEvent(E[i]) /\ IsBatchEvent(E[j]) /\ E[i].batch = E[j].batch
               => E[i].txs = E[j].txs

\* Every row is one of the events of its batch.
RowsOf(E, n, st) ==
    \A b \in DOMAIN st.rows :
        \E j \in 1..n : IsBatchEvent(E[j]) /\ E[j].batch = b /\ st.rows[b] = BatchRow(E[j])

LEMMA RunRows ==
    ASSUME NEW E, NEW n \in Nat, NEW run, IsRun(run, E, n)
    PROVE  \A i \in 0..n : RowsOf(E, i, run[i])
<1> DEFINE T == {i \in 0..n : RowsOf(E, i, run[i])}
<1>1. 0 \in T
  <2>1. run[0] = NoBatches /\ 0 \in 0..n
    BY DEF IsRun
  <2>2. NoBatches.rows = <<>> /\ DOMAIN <<>> = {}
    BY DEF NoBatches
  <2> QED BY <2>1, <2>2 DEF RowsOf
<1>2. ASSUME NEW i \in 0..(n - 1), i \in T
      PROVE  i + 1 \in T
  <2>1. i + 1 \in 1..n /\ (i + 1) - 1 = i /\ i + 1 \in 0..n /\ i \in 0..n
    OBVIOUS
  <2>2. run[i + 1] = TakeBatchEvent(run[i], E[i + 1])
    BY <2>1 DEF IsRun
  <2>3. RowsOf(E, i, run[i])
    BY <1>2
  <2>4. LeftOut(run[i], run[i + 1]) \/ Taken(run[i], run[i + 1], E[i + 1])
    BY <2>1, <2>2, TakeStep, RunApart
  <2>5. RowsOf(E, i + 1, run[i + 1])
    <3> SUFFICES ASSUME NEW b \in DOMAIN run[i + 1].rows
                 PROVE  \E j \in 1..(i + 1) : /\ IsBatchEvent(E[j]) /\ E[j].batch = b
                                              /\ run[i + 1].rows[b] = BatchRow(E[j])
      BY DEF RowsOf
    <3>1. CASE b \in DOMAIN run[i].rows /\ run[i + 1].rows[b] = run[i].rows[b]
      <4>1. PICK j \in 1..i : /\ IsBatchEvent(E[j]) /\ E[j].batch = b
                              /\ run[i].rows[b] = BatchRow(E[j])
        BY <2>3, <3>1 DEF RowsOf
      <4>2. j \in 1..(i + 1)
        BY <2>1
      <4> QED BY <3>1, <4>1, <4>2
    <3>2. CASE Taken(run[i], run[i + 1], E[i + 1]) /\ b = E[i + 1].batch
      <4>1. IsBatchEvent(E[i + 1]) /\ run[i + 1].rows[b] = BatchRow(E[i + 1])
        BY <3>2 DEF Taken
      <4>2. i + 1 \in 1..(i + 1)
        BY <2>1
      <4> QED BY <3>2, <4>1, <4>2
    <3>3. \/ b \in DOMAIN run[i].rows /\ run[i + 1].rows[b] = run[i].rows[b]
          \/ Taken(run[i], run[i + 1], E[i + 1]) /\ b = E[i + 1].batch
      <4>1. CASE LeftOut(run[i], run[i + 1])
        BY <4>1 DEF LeftOut
      <4>2. CASE Taken(run[i], run[i + 1], E[i + 1])
        BY <4>2 DEF Taken
      <4> QED BY <2>4, <4>1, <4>2
    <3> QED BY <3>1, <3>2, <3>3
  <2> QED BY <2>1, <2>5
<1>3. \A i \in 0..n : i \in T
  <2> HIDE DEF T
  <2>1. 0 \in Nat
    OBVIOUS
  <2> QED BY <1>1, <1>2, <2>1, UpTo
<1> QED BY <1>3

\* A row with an outcome is not replaced: not by a late event, and not by another
\* outcome, because the transactions of its batch are completed.
LEMMA FinalRowKept ==
    ASSUME NEW E, NEW n \in Nat, DOMAIN E = 1..n, Consistent(E), NEW run, IsRun(run, E, n),
           NEW i \in 0..(n - 1), NEW b \in FinalRows(run[i])
    PROVE  b \in DOMAIN run[i + 1].rows /\ run[i + 1].rows[b] = run[i].rows[b]
<1>1. i + 1 \in 1..n /\ (i + 1) - 1 = i /\ i \in 0..n
  OBVIOUS
<1>2. run[i + 1] = TakeBatchEvent(run[i], E[i + 1])
  BY <1>1 DEF IsRun
<1>3. IsState(run[i]) /\ Apart(run[i]) /\ RowsOf(E, i, run[i])
  BY <1>1, RunApart, RunRows
<1>4. CASE LeftOut(run[i], run[i + 1])
  BY <1>4 DEF LeftOut, FinalRows
<1>5. CASE Taken(run[i], run[i + 1], E[i + 1])
  <2>1. CASE E[i + 1].batch # b
    BY <1>5, <2>1 DEF Taken, FinalRows
  <2>2. CASE E[i + 1].batch = b
    <3>1. BatchStatus[E[i + 1].type] \in Final
      BY <1>5, <2>2 DEF Taken, Late, FinalRows
    <3>2. run[i].completed \cap ToSet(E[i + 1].txs) = {}
      BY <1>5, <3>1 DEF Taken, SettledAgain
    <3>3. PICK j \in 1..i : /\ IsBatchEvent(E[j]) /\ E[j].batch = b
                            /\ run[i].rows[b] = BatchRow(E[j])
      BY <1>3 DEF RowsOf, FinalRows
    <3>4. run[i].rows[b].txs = E[j].txs
      BY <3>3 DEF BatchRow
    <3>5. j \in DOMAIN E /\ i + 1 \in DOMAIN E /\ IsBatchEvent(E[i + 1])
      BY <1>1, <1>5 DEF Taken
    <3>6. E[i + 1].txs = E[j].txs /\ ToSet(E[i + 1].txs) # {}
      BY <2>2, <3>3, <3>5 DEF Consistent
    <3>7. ToSet(E[j].txs) \subseteq run[i].completed
      BY <1>3, <3>4 DEF Apart
    <3> QED BY <3>2, <3>6, <3>7
  <2> QED BY <2>1, <2>2
<1> QED BY <1>2, <1>3, <1>4, <1>5, TakeStep

\* The outcomes of a list are those of every list that continues it.
LEMMA OutcomesKept ==
    ASSUME NEW E, NEW F, NEW m \in Nat, NEW n \in Nat, m <= n,
           DOMAIN E = 1..m, DOMAIN F = 1..n, \A i \in 1..m : E[i] = F[i], Consistent(F)
    PROVE  \A b \in DOMAIN SettlementRows(E) :
               SettlementRows(E)[b].status \in Final =>
                   b \in DOMAIN SettlementRows(F) /\ SettlementRows(F)[b] = SettlementRows(E)[b]
<1>1. PICK run : IsRun(run, F, n) /\ Batches(F) = run[n]
  BY BatchesRun
<1>2. IsRun(run, E, m)
  <2>1. \A i \in 1..m : i \in 1..n
    OBVIOUS
  <2> QED BY <1>1, <2>1 DEF IsRun
<1>3. Batches(E) = run[m]
  BY <1>2, RunDetermines
<1> SUFFICES ASSUME NEW b \in FinalRows(run[m])
             PROVE  b \in DOMAIN run[n].rows /\ run[n].rows[b] = run[m].rows[b]
  BY <1>1, <1>3 DEF SettlementRows, FinalRows
<1> DEFINE T == {i \in m..n : b \in DOMAIN run[i].rows /\ run[i].rows[b] = run[m].rows[b]}
<1>4. m \in T
  BY DEF FinalRows
<1>5. ASSUME NEW i \in m..(n - 1), i \in T
      PROVE  i + 1 \in T
  <2>1. i \in 0..(n - 1) /\ i + 1 \in m..n
    OBVIOUS
  <2>2. b \in FinalRows(run[i])
    BY <1>5 DEF FinalRows
  <2>3. b \in DOMAIN run[i + 1].rows /\ run[i + 1].rows[b] = run[i].rows[b]
    BY <1>1, <2>1, <2>2, FinalRowKept
  <2> QED BY <1>5, <2>1, <2>3
<1>6. \A i \in m..n : i \in T
  <2> HIDE DEF T
  <2> QED BY <1>4, <1>5, UpTo
<1> QED BY <1>6

-----------------------------------------------------------------------------
(* What is on the snapshot was published, and stays *)

\* A partition has as many records as the history put there, and its n-th record has
\* a place in the history.
CountOK == \A p \in Partition : end_offset[p] = Cardinality(Places(p, published))
PlacesOK ==
    \A p \in Partition : \A n \in 1..end_offset[p] :
        \E i \in Places(p, Len(script)) : Cardinality(Places(p, i)) = n

\* Only records that exist are read, and no position is beyond them.
Exists(r)  == r[1] \in Partition /\ r[2] \in 1..end_offset[r[1]]
AllExist(s) == \A i \in 1..Len(s) : Exists(s[i])
RecordsExist ==
    /\ AllExist(snapshot) /\ AllExist(history)
    /\ \A p \in Partition : b_position[p] <= end_offset[p] /\ b_committed[p] <= end_offset[p]

\* The history of a running bridge continues the snapshot, unless records leave it.
Continues(s, t) == Len(s) <= Len(t) /\ \A i \in 1..Len(s) : s[i] = t[i]
Grown == limit = 0 /\ b_pc # "down" => Continues(snapshot, history)

ViewInv == CountOK /\ PlacesOK /\ RecordsExist /\ Grown

LEMMA PlacesFinite ==
    ASSUME NEW p, NEW n \in Nat
    PROVE  IsFiniteSet(Places(p, n)) /\ Cardinality(Places(p, n)) \in Nat
<1>1. IsFiniteSet(1..n)
  <2>1. 1 \in Int /\ n \in Int
    OBVIOUS
  <2> QED BY <2>1, FS_Interval
<1>2. Places(p, n) \subseteq 1..n
  BY DEF Places
<1>3. IsFiniteSet(Places(p, n))
  BY <1>1, <1>2, FS_Subset
<1> QED BY <1>3, FS_CardinalityType

\* One more record of the history is one more of its partition.
LEMMA PlacesMore ==
    ASSUME NEW p, NEW n \in Nat
    PROVE  Cardinality(Places(p, n + 1))
               = Cardinality(Places(p, n)) + (IF script[n + 1].partition = p THEN 1 ELSE 0)
<1>1. IsFiniteSet(Places(p, n)) /\ Cardinality(Places(p, n)) \in Nat
  BY PlacesFinite
<1>2. CASE script[n + 1].partition = p
  <2>1. Places(p, n + 1) = Places(p, n) \cup {n + 1} /\ n + 1 \notin Places(p, n)
    BY <1>2 DEF Places
  <2>2. Cardinality(Places(p, n) \cup {n + 1}) = Cardinality(Places(p, n)) + 1
    BY <1>1, <2>1, FS_AddElement
  <2> QED BY <1>2, <2>1, <2>2
<1>3. CASE script[n + 1].partition # p
  <2>1. Places(p, n + 1) = Places(p, n)
    BY <1>3 DEF Places
  <2> QED BY <1>1, <1>3, <2>1
<1> QED BY <1>2, <1>3

LEMMA TrimPart ==
    ASSUME NEW s \in Seq(Record), limit \in Nat
    PROVE  /\ \A i \in 1..Len(Trim(s)) : \E j \in 1..Len(s) : Trim(s)[i] = s[j]
           /\ limit = 0 => Trim(s) = s
<1>1. CASE limit = 0 \/ Len(s) <= limit
  <2>1. Trim(s) = s
    BY <1>1 DEF Trim
  <2> QED BY <2>1
<1>2. CASE ~ (limit = 0 \/ Len(s) <= limit)
  <2>1. Trim(s) = SubSeq(s, Len(s) - limit + 1, Len(s)) /\ Len(s) \in Nat /\ limit < Len(s)
    BY <1>2 DEF Trim
  <2> DEFINE a == Len(s) - limit + 1
  <2>2. a \in 1..Len(s) /\ limit # 0
    BY <1>2, <2>1
  <2>3. Len(SubSeq(s, a, Len(s))) = limit
    BY <2>1, <2>2
  <2>4. ASSUME NEW i \in 1..limit
        PROVE  SubSeq(s, a, Len(s))[i] = s[a + i - 1] /\ a + i - 1 \in 1..Len(s)
    BY <2>1, <2>2
  <2> QED BY <2>1, <2>2, <2>3, <2>4
<1> QED BY <1>1, <1>2

\* Publishing the next record.
LEMMA PublishKeepsViewInv ==
    ASSUME TypeOK, HistoryOK, ViewInv, Publish
    PROVE  ViewInv'
<1> DEFINE q == script[published + 1].partition
<1>1. published \in Nat /\ published + 1 \in 1..Len(script) /\ Len(script) \in Nat
  BY HistoryTyped DEF HistoryOK, Publish
<1>2. q \in Partition
  BY <1>1, HistoryTyped
<1>3. /\ end_offset' = [end_offset EXCEPT ![q] = @ + 1] /\ published' = published + 1
      /\ script' = script /\ UNCHANGED bridge
  BY DEF Publish, Grow
<1>4. end_offset \in [Partition -> Nat]
  BY DEF TypeOK, BridgeTypeOK
<1>5. \A p \in Partition : end_offset'[p] = end_offset[p] + (IF q = p THEN 1 ELSE 0)
  BY <1>2, <1>3, <1>4
<1>6. CountOK'
  <2> SUFFICES ASSUME NEW p \in Partition
               PROVE  (end_offset[p] = Cardinality(Places(p, published)))'
    BY DEF CountOK
  <2>1. Places(p, published)' = Places(p, published + 1)
    BY <1>3 DEF Places
  <2>2. Cardinality(Places(p, published + 1))
            = Cardinality(Places(p, published)) + (IF q = p THEN 1 ELSE 0)
    BY <1>1, PlacesMore
  <2>3. end_offset[p] = Cardinality(Places(p, published))
    BY DEF ViewInv, CountOK
  <2> QED BY <1>5, <2>1, <2>2, <2>3
<1>7. PlacesOK'
  <2> SUFFICES ASSUME NEW p \in Partition, NEW n \in 1..end_offset'[p]
               PROVE  (\E i \in Places(p, Len(script)) : Cardinality(Places(p, i)) = n)'
    BY DEF PlacesOK
  <2>0. ASSUME \E i \in Places(p, Len(script)) : Cardinality(Places(p, i)) = n
        PROVE  (\E i \in Places(p, Len(script)) : Cardinality(Places(p, i)) = n)'
    BY <1>3, <2>0 DEF Places
  <2>1. CASE n \in 1..end_offset[p]
    BY <2>0, <2>1 DEF ViewInv, PlacesOK
  <2>2. CASE n \notin 1..end_offset[p]
    <3>1. q = p /\ n = end_offset[p] + 1
      BY <1>4, <1>5, <2>2
    <3>2. end_offset[p] = Cardinality(Places(p, published))
      BY DEF ViewInv, CountOK
    <3>3. Cardinality(Places(p, published + 1)) = n
      BY <1>1, <1>4, <3>1, <3>2, PlacesMore
    <3>4. published + 1 \in Places(p, Len(script))
      BY <1>1, <3>1 DEF Places
    <3> QED BY <2>0, <3>3, <3>4
  <2> QED BY <2>1, <2>2
<1>8. RecordsExist'
  <2>1. \A r : Exists(r) => Exists(r)'
    <3> SUFFICES ASSUME NEW r, Exists(r)
                 PROVE  r[2] \in 1..end_offset'[r[1]]
      BY DEF Exists
    <3> QED BY <1>4, <1>5 DEF Exists
  <2>2. AllExist(snapshot) /\ AllExist(history)
    BY DEF ViewInv, RecordsExist
  <2>3. snapshot' = snapshot /\ history' = history /\ b_position' = b_position
        /\ b_committed' = b_committed
    BY <1>3 DEF bridge
  <2>4. AllExist(snapshot)' /\ AllExist(history)'
    BY <2>1, <2>2, <2>3 DEF AllExist
  <2>5. ASSUME NEW p \in Partition
        PROVE  b_position'[p] <= end_offset'[p] /\ b_committed'[p] <= end_offset'[p]
    <3>1. b_position[p] \in Nat /\ b_committed[p] \in Nat /\ end_offset[p] \in Nat
      BY DEF TypeOK, BridgeTypeOK
    <3>2. b_position[p] <= end_offset[p] /\ b_committed[p] <= end_offset[p]
      BY DEF ViewInv, RecordsExist
    <3> QED BY <1>5, <2>3, <3>1, <3>2
  <2> QED BY <2>4, <2>5 DEF RecordsExist
<1>9. Grown'
  BY <1>3 DEF ViewInv, Grown, Continues, bridge
<1> QED BY <1>6, <1>7, <1>8, <1>9 DEF ViewInv

\* Appending the next record of a partition.
LEMMA AppendKeepsViews ==
    ASSUME TypeOK, ViewInv, NEW p \in Partition, Append1(p), UNCHANGED end_offset
    PROVE  RecordsExist' /\ Grown'
<1> DEFINE r == <<p, b_position[p] + 1>>
           t == Append(history, r)
<1>1. /\ limit \in Nat /\ history \in Seq(Record) /\ snapshot \in Seq(Record)
      /\ b_position \in [Partition -> Nat] /\ end_offset \in [Partition -> Nat]
  BY LimitsAssumption DEF LimitsAssumption, TypeOK, BridgeTypeOK
<1>2. /\ history' = Trim(t) /\ limit' = limit /\ b_pc = "poll" /\ snapshot' = snapshot
      /\ b_position' = [b_position EXCEPT ![p] = @ + 1] /\ b_position[p] < end_offset[p]
      /\ b_committed' = b_committed /\ end_offset' = end_offset
  BY DEF Append1, Advanced, Available
<1>3. r \in Record /\ r[1] = p /\ r[2] = b_position[p] + 1
  BY <1>1 DEF Record
<1>4. /\ t \in Seq(Record) /\ Len(t) = Len(history) + 1 /\ Len(history) \in Nat
      /\ \A i \in 1..Len(t) : t[i] = IF i \in 1..Len(history) THEN history[i] ELSE r
  <2>1. t \in Seq(Record) /\ Len(t) = Len(history) + 1 /\ Len(history) \in Nat
    BY <1>1, <1>3
  <2> QED BY <1>1, <1>3, <2>1
<1>5. Exists(r)
  BY <1>1, <1>2, <1>3 DEF Exists
<1>6. AllExist(t)
  BY <1>4, <1>5 DEF AllExist, ViewInv, RecordsExist
<1>7. \A i \in 1..Len(Trim(t)) : \E j \in 1..Len(t) : Trim(t)[i] = t[j]
  <2> HIDE DEF t
  <2> QED BY <1>1, <1>4, TrimPart
<1>8. AllExist(Trim(t))
  <2> HIDE DEF t
  <2> QED BY <1>6, <1>7 DEF AllExist
<1>9. AllExist(history)' /\ AllExist(snapshot)'
  <2> HIDE DEF t
  <2> QED BY <1>2, <1>8 DEF AllExist, Exists, ViewInv, RecordsExist
<1>10. \A q \in Partition : b_position'[q] <= end_offset'[q] /\ b_committed'[q] <= end_offset'[q]
  BY <1>1, <1>2 DEF ViewInv, RecordsExist
<1>11. ASSUME limit = 0
       PROVE  Continues(snapshot, history')
  <2>1. history' = t
    <3> HIDE DEF t
    <3> QED BY <1>1, <1>2, <1>4, <1>11, TrimPart
  <2>2. Continues(snapshot, history) /\ Len(snapshot) \in Nat
    BY <1>1, <1>2, <1>11 DEF ViewInv, Grown
  <2> HIDE DEF t, r
  <2> QED BY <1>4, <2>1, <2>2 DEF Continues
<1> QED BY <1>2, <1>9, <1>10, <1>11 DEF RecordsExist, Grown, Continues

LEMMA ViewInvInit == Init => ViewInv
<1> SUFFICES ASSUME Init PROVE ViewInv
  OBVIOUS
<1>1. /\ end_offset = NoneRead /\ snapshot = <<>> /\ history = <<>> /\ b_position = NoneRead
      /\ b_committed = NoneRead /\ b_pc = "down" /\ published = 0
  BY DEF Init, TopicsInit, BridgeInit
<1>2. CountOK
  <2>1. ASSUME NEW p \in Partition
        PROVE  Places(p, published) = {}
    <3>1. 1..published = {}
      BY <1>1
    <3> QED BY <3>1 DEF Places
  <2>2. \A p \in Partition : end_offset[p] = 0
    BY <1>1 DEF NoneRead
  <2> QED BY <2>1, <2>2, FS_EmptySet DEF CountOK
<1>3. PlacesOK
  BY <1>1 DEF PlacesOK, NoneRead
<1>4. RecordsExist
  BY <1>1 DEF RecordsExist, AllExist, NoneRead
<1>5. Grown
  BY <1>1 DEF Grown
<1> QED BY <1>2, <1>3, <1>4, <1>5 DEF ViewInv

\* The steps that do not publish leave the places of the records alone.
LEMMA SamePlaces ==
    ASSUME CountOK, PlacesOK, UNCHANGED <<end_offset, script, published>>
    PROVE  CountOK' /\ PlacesOK'
<1>1. \A p : Places(p, published)' = Places(p, published)
  BY DEF Places
<1>2. CountOK'
  BY <1>1 DEF CountOK
<1>3. PlacesOK'
  <2> SUFFICES ASSUME NEW p \in Partition, NEW n \in 1..end_offset[p]
               PROVE  (\E i \in Places(p, Len(script)) : Cardinality(Places(p, i)) = n)'
    BY DEF PlacesOK
  <2>1. \E i \in Places(p, Len(script)) : Cardinality(Places(p, i)) = n
    BY DEF PlacesOK
  <2> QED BY <2>1 DEF Places
<1> QED BY <1>2, <1>3

\* A step of the bridge.
LEMMA BridgeKeepsViews ==
    ASSUME TypeOK, ViewInv, BridgeStep, UNCHANGED end_offset
    PROVE  RecordsExist' /\ Grown'
<1>0. /\ limit \in Nat /\ snapshot \in Seq(Record) /\ Len(snapshot) \in Nat
      /\ b_committed \in [Partition -> Nat] /\ end_offset \in [Partition -> Nat]
  BY LimitsAssumption DEF LimitsAssumption, TypeOK, BridgeTypeOK
<1>1. CASE StartBridge
  <2>1. /\ snapshot' = Trim(snapshot) /\ history' = Trim(snapshot) /\ b_position' = b_committed
        /\ b_committed' = b_committed /\ limit' = limit
    BY <1>1 DEF StartBridge
  <2>2. AllExist(Trim(snapshot))
    BY <1>0, TrimPart DEF AllExist, ViewInv, RecordsExist
  <2>3. RecordsExist'
    BY <2>1, <2>2 DEF RecordsExist, AllExist, Exists, ViewInv
  <2>4. Grown'
    <3>1. limit = 0 => Trim(snapshot) = snapshot
      BY <1>0, TrimPart
    <3> QED BY <1>0, <2>1, <3>1 DEF Grown, Continues
  <2> QED BY <2>3, <2>4
<1>2. ASSUME NEW p \in Partition, Append1(p)
      PROVE  RecordsExist' /\ Grown'
  BY <1>2, AppendKeepsViews
<1>3. CASE EndPoll \/ CompleteReplay \/ PollOn
  BY <1>3
     DEF EndPoll, CompleteReplay, PollOn, ViewInv, RecordsExist, AllExist, Exists, Grown, Continues
<1>4. CASE WriteSnapshot
  <2>1. /\ snapshot' = history /\ history' = history /\ b_position' = b_position
        /\ b_committed' = b_committed /\ limit' = limit
    BY <1>4 DEF WriteSnapshot
  <2>2. Len(history) \in Nat
    BY DEF TypeOK, BridgeTypeOK
  <2> QED BY <2>1, <2>2 DEF ViewInv, RecordsExist, AllExist, Exists, Grown, Continues
<1>5. CASE Commit
  BY <1>5 DEF Commit, ViewInv, RecordsExist, AllExist, Exists, Grown, Continues
<1>6. CASE CrashBridge
  <2>1. /\ snapshot' = snapshot /\ history' = <<>> /\ b_position' = NoneRead
        /\ b_committed' = b_committed /\ b_pc' = "down"
    BY <1>6 DEF CrashBridge
  <2>2. \A p \in Partition : NoneRead[p] <= end_offset[p]
    BY <1>0 DEF NoneRead
  <2> QED BY <2>1, <2>2 DEF ViewInv, RecordsExist, AllExist, Exists, Grown
<1> QED BY <1>1, <1>2, <1>3, <1>4, <1>5, <1>6 DEF BridgeStep, BridgeLoop

LEMMA ViewInvStep ==
    ASSUME TypeOK, HistoryOK, ViewInv, [Next]_vars
    PROVE  ViewInv'
<1>1. CASE Publish
  BY <1>1, PublishKeepsViewInv
<1>2. CASE RunBridge
  BY <1>2, BridgeKeepsViews, SamePlaces DEF RunBridge, world, ViewInv
<1>3. CASE UNCHANGED <<end_offset, bridge, world>>
  <2>1. RecordsExist' /\ Grown'
    BY <1>3 DEF bridge, ViewInv, RecordsExist, AllExist, Exists, Grown, Continues
  <2> QED BY <1>3, <2>1, SamePlaces DEF world, ViewInv
<1> QED BY <1>1, <1>2, <1>3 DEF Next, RunForwarder, vars, world

\* A record that exists has the content the history gives it.
LEMMA ContentInHistory ==
    ASSUME HistoryOK, PlacesOK, NEW r, Exists(r)
    PROVE  \E i \in 1..Len(script) : Content(r) = script[i]
<1> DEFINE S == {i \in Places(r[1], Len(script)) : Cardinality(Places(r[1], i)) = r[2]}
           c == CHOOSE i \in Places(r[1], Len(script)) : Cardinality(Places(r[1], i)) = r[2]
<1>1. \E i \in Places(r[1], Len(script)) : Cardinality(Places(r[1], i)) = r[2]
  BY DEF PlacesOK, Exists
<1>2. c \in Places(r[1], Len(script))
  BY <1>1
<1>3. c \in 1..Len(script)
  BY <1>2 DEF Places
<1>4. Content(r) = script[c]
  BY DEF Content
<1> HIDE DEF c
<1> QED BY <1>3, <1>4

\* So the events of the bridge's history are consistent, as those of the topics are.
LEMMA EventsConsistent ==
    ASSUME HistoryOK, PlacesOK, NEW s, NEW n \in Nat, DOMAIN s = 1..n, Len(s) = n, AllExist(s)
    PROVE  DOMAIN Events(s) = 1..n /\ Consistent(Events(s))
<1>1. DOMAIN Events(s) = 1..n /\ \A i \in 1..n : Events(s)[i] = Content(s[i])
  BY DEF Events
<1>2. \A i \in 1..n : \E j \in 1..Len(script) : Events(s)[i] = script[j]
  BY <1>1, ContentInHistory DEF AllExist
<1> DEFINE E == Events(s)
<1>3. \A i \in DOMAIN E : \E j \in 1..Len(script) : E[i] = script[j]
  BY <1>1, <1>2
<1>4. ASSUME NEW i \in DOMAIN E, IsBatchEvent(E[i])
      PROVE  ToSet(E[i].txs) # {}
  <2> HIDE DEF E
  <2> QED BY <1>3, <1>4, HistoryTyped
<1>5. ASSUME NEW i \in DOMAIN E, NEW j \in DOMAIN E,
             IsBatchEvent(E[i]), IsBatchEvent(E[j]), E[i].batch = E[j].batch
      PROVE  E[i].txs = E[j].txs
  <2> HIDE DEF E
  <2>1. PICK k \in 1..Len(script) : E[i] = script[k]
    BY <1>3
  <2>2. PICK l \in 1..Len(script) : E[j] = script[l]
    BY <1>3
  <2> QED BY <1>5, <2>1, <2>2, HistoryTyped
<1>6. Consistent(E)
  <2> HIDE DEF E
  <2> QED BY <1>4, <1>5 DEF Consistent
<1> QED BY <1>1, <1>6

\* Without a limit every write continues the list of events.
LEMMA SnapshotGrows ==
    ASSUME TypeOK, ViewInv, [Next]_vars, limit = 0
    PROVE  Continues(snapshot, snapshot') /\ (snapshot' = snapshot \/ snapshot' = history)
<1>0. snapshot \in Seq(Record) /\ limit \in Nat
  BY LimitsAssumption DEF LimitsAssumption, TypeOK, BridgeTypeOK
<1>1. CASE snapshot' = snapshot
  BY <1>0, <1>1 DEF Continues
<1>2. CASE StartBridge
  BY <1>0, <1>1, <1>2, TrimPart DEF StartBridge
<1>3. CASE WriteSnapshot
  BY <1>3 DEF WriteSnapshot, ViewInv, Grown
<1>4. snapshot' = snapshot \/ StartBridge \/ WriteSnapshot
  BY DEF Next, Publish, RunBridge, RunForwarder, vars, bridge, BridgeStep, BridgeLoop, Append1,
         EndPoll, CompleteReplay, PollOn, Commit, CrashBridge
<1> QED BY <1>1, <1>2, <1>3, <1>4

LEMMA OutcomeStep ==
    ASSUME TypeOK, HistoryOK, ViewInv, [Next]_vars, limit = 0,
           NEW b \in DOMAIN SettlementRows(Events(snapshot)),
           SettlementRows(Events(snapshot))[b].status \in Final
    PROVE  /\ b \in DOMAIN SettlementRows(Events(snapshot'))
           /\ SettlementRows(Events(snapshot'))[b] = SettlementRows(Events(snapshot))[b]
<1>1. PICK s : s = snapshot
  OBVIOUS
<1>2. PICK t : t = snapshot'
  OBVIOUS
<1>3. PICK E : E = Events(s)
  OBVIOUS
<1>4. PICK F : F = Events(t)
  OBVIOUS
<1>5. snapshot \in Seq(Record) /\ history \in Seq(Record)
  BY DEF TypeOK, BridgeTypeOK
<1>6. Continues(s, t) /\ (t = snapshot \/ t = history)
  BY <1>1, <1>2, SnapshotGrows
<1>7. AllExist(s) /\ AllExist(t)
  BY <1>1, <1>6 DEF ViewInv, RecordsExist
<1>8. PICK m \in Nat : DOMAIN s = 1..m /\ Len(s) = m
  BY <1>1, <1>5
<1>9. PICK n \in Nat : DOMAIN t = 1..n /\ Len(t) = n
  BY <1>5, <1>6
<1>10. DOMAIN E = 1..m
  BY <1>3, <1>8 DEF Events
<1>11. DOMAIN F = 1..n /\ Consistent(F)
  BY <1>4, <1>7, <1>9, EventsConsistent DEF ViewInv
<1>12. m <= n /\ \A i \in 1..m : E[i] = F[i]
  BY <1>3, <1>4, <1>6, <1>8, <1>9 DEF Continues, Events
<1>13. b \in DOMAIN SettlementRows(E) /\ SettlementRows(E)[b].status \in Final
  BY <1>1, <1>3
<1>14. b \in DOMAIN SettlementRows(F) /\ SettlementRows(F)[b] = SettlementRows(E)[b]
  BY <1>10, <1>11, <1>12, <1>13, OutcomesKept
<1> QED BY <1>1, <1>2, <1>3, <1>4, <1>14

\* The outcome of a batch, once on the dashboard, is not taken back or replaced: by no
\* late, repeated or contrary event, and by no restart of the bridge.
THEOREM OutcomeShownIsFinalHolds == Spec => OutcomeShownIsFinal
<1>1. TypeOK /\ HistoryOK /\ ViewInv /\ [Next]_vars =>
        [LET before == SettlementRows(Events(snapshot))
             after  == SettlementRows(Events(snapshot'))
         IN  limit = 0 =>
                 \A b \in DOMAIN before : before[b].status \in Final =>
                     b \in DOMAIN after /\ after[b] = before[b]]_snapshot
  BY OutcomeStep
<1> QED
  BY <1>1, HistoryInit, HistoryStep, TypeCorrect, ViewInvInit, ViewInvStep, PTL
     DEF Spec, OutcomeShownIsFinal

-----------------------------------------------------------------------------
(* Sets of places in order *)

\* The members of F up to i.
UpToPlace(F, i) == {j \in F : j <= i}

\* A later member has more members up to it.
LEMMA RankGrows ==
    ASSUME NEW F \in SUBSET Nat, IsFiniteSet(F), NEW i \in F, NEW j \in F, i < j
    PROVE  /\ Cardinality(UpToPlace(F, i)) \in 1..Cardinality(F)
           /\ Cardinality(UpToPlace(F, i)) < Cardinality(UpToPlace(F, j))
<1>1. /\ UpToPlace(F, i) \subseteq UpToPlace(F, j) /\ UpToPlace(F, j) \subseteq F
      /\ i \in UpToPlace(F, i) /\ j \in UpToPlace(F, j) /\ j \notin UpToPlace(F, i)
  <2>1. i \in Nat /\ j \in Nat /\ \A k \in F : k \in Nat
    OBVIOUS
  <2>2. \A k \in F : (k <= i => k <= j) /\ i <= i /\ j <= j /\ ~ (j <= i)
    BY <2>1
  <2> QED BY <2>2 DEF UpToPlace
<1>2. IsFiniteSet(UpToPlace(F, i)) /\ IsFiniteSet(UpToPlace(F, j))
  BY <1>1, FS_Subset
<1>3. /\ Cardinality(UpToPlace(F, i)) \in Nat /\ Cardinality(UpToPlace(F, j)) \in Nat
      /\ Cardinality(F) \in Nat
  BY <1>2, FS_CardinalityType
<1>4. /\ Cardinality(UpToPlace(F, i)) <= Cardinality(UpToPlace(F, j))
      /\ Cardinality(UpToPlace(F, i)) # Cardinality(UpToPlace(F, j))
  BY <1>1, <1>2, FS_Subset
<1>5. Cardinality(UpToPlace(F, j)) <= Cardinality(F)
  BY <1>1, FS_Subset
<1>6. Cardinality(UpToPlace(F, i)) # 0
  BY <1>1, <1>2, FS_EmptySet
<1> QED BY <1>3, <1>4, <1>5, <1>6

\* Ascending lists the members of a set, each once.
LEMMA AscendingLists ==
    ASSUME NEW F \in SUBSET Nat, IsFiniteSet(F)
    PROVE  /\ Cardinality(F) \in Nat /\ Ascending(F) \in [1..Cardinality(F) -> F]
           /\ \A i \in F : \E k \in 1..Cardinality(F) : Ascending(F)[k] = i
           /\ \A k, l \in 1..Cardinality(F) : Ascending(F)[k] = Ascending(F)[l] => k = l
<1> DEFINE n    == Cardinality(F)
           rank == [i \in F |-> Cardinality(UpToPlace(F, i))]
<1>1. n \in Nat
  BY FS_CardinalityType
<1>2. ASSUME NEW i \in F
      PROVE  rank[i] \in 1..n
  <2>1. UpToPlace(F, i) \subseteq F /\ i \in UpToPlace(F, i)
    BY DEF UpToPlace
  <2>2. IsFiniteSet(UpToPlace(F, i)) /\ Cardinality(UpToPlace(F, i)) <= n
    BY <2>1, FS_Subset
  <2>3. Cardinality(UpToPlace(F, i)) \in Nat /\ Cardinality(UpToPlace(F, i)) # 0
    BY <2>1, <2>2, FS_CardinalityType, FS_EmptySet
  <2> QED BY <1>1, <2>2, <2>3
<1>3. ASSUME NEW i \in F, NEW j \in F, rank[i] = rank[j]
      PROVE  i = j
  <2>1. rank[i] = Cardinality(UpToPlace(F, i)) /\ rank[j] = Cardinality(UpToPlace(F, j))
    OBVIOUS
  <2>2. Cardinality(UpToPlace(F, i)) = Cardinality(UpToPlace(F, j))
    BY <1>3, <2>1
  <2>3. Cardinality(UpToPlace(F, i)) \in 1..n /\ i \in Nat /\ j \in Nat
    BY <1>2, <2>1
  <2>4. ~ (Cardinality(UpToPlace(F, i)) < Cardinality(UpToPlace(F, j)))
    BY <2>2, <2>3
  <2>5. ~ (Cardinality(UpToPlace(F, j)) < Cardinality(UpToPlace(F, i)))
    BY <2>2, <2>3
  <2> HIDE DEF rank, n
  <2>6. ~ (i < j)
    BY <2>4, RankGrows
  <2>7. ~ (j < i)
    BY <2>5, RankGrows
  <2> QED BY <2>3, <2>6, <2>7
<1>4. rank \in [F -> 1..n]
  BY <1>2
<1>5. rank \in Injection(F, 1..n)
  <2> HIDE DEF rank
  <2> QED BY <1>3, <1>4 DEF Injection, IsInjective
<1>6. IsFiniteSet(1..n) /\ Cardinality(1..n) = n
  <2>1. 1 \in Int /\ n \in Int
    BY <1>1
  <2>2. (IF 1 > n THEN 0 ELSE n - 1 + 1) = n
    BY <1>1
  <2> HIDE DEF n
  <2> QED BY <2>1, <2>2, FS_Interval
<1>7. rank \in Surjection(F, 1..n)
  <2>1. Cardinality(F) = Cardinality(1..n)
    BY <1>6
  <2> HIDE DEF rank, n
  <2> QED BY <1>5, <1>6, <2>1, FS_Injection
<1>8. \A k \in 1..n : \E i \in F : Cardinality(UpToPlace(F, i)) = k
  BY <1>7 DEF Surjection
<1>9. ASSUME NEW k \in 1..n
      PROVE  Ascending(F)[k] \in F /\ rank[Ascending(F)[k]] = k
  <2>1. Ascending(F)[k] = CHOOSE i \in F : Cardinality(UpToPlace(F, i)) = k
    BY DEF Ascending, UpToPlace
  <2> QED BY <1>8, <2>1
<1>10. Ascending(F) \in [1..n -> F]
  BY <1>9 DEF Ascending
<1>11. ASSUME NEW i \in F
       PROVE  \E k \in 1..n : Ascending(F)[k] = i
  <2>1. rank[i] \in 1..n
    BY <1>2
  <2> HIDE DEF rank, n
  <2>2. Ascending(F)[rank[i]] \in F /\ rank[Ascending(F)[rank[i]]] = rank[i]
    BY <1>9, <2>1
  <2> QED BY <1>3, <2>1, <2>2
<1>12. \A k, l \in 1..n : Ascending(F)[k] = Ascending(F)[l] => k = l
  <2> HIDE DEF rank
  <2> QED BY <1>9
<1> QED BY <1>1, <1>10, <1>11, <1>12

-----------------------------------------------------------------------------
(* The collecting rows *)

\* The transactions of which E has a capture, and that no batch event names.
Captured(E)  == {E[i].tx : i \in {i \in DOMAIN E : IsCapture(E[i])}}
Unbatched(E) == Captured(E) \ Batches(E).assigned

\* Each of them is pending once.
LEMMA PendingOnce ==
    ASSUME NEW E, NEW n \in Nat, DOMAIN E \subseteq 1..n
    PROVE  \E m \in Nat :
               /\ PendingCaptures(E) \in [1..m -> Unbatched(E)]
               /\ \A t \in Unbatched(E) : \E k \in 1..m : PendingCaptures(E)[k] = t
               /\ \A k, l \in 1..m : PendingCaptures(E)[k] = PendingCaptures(E)[l] => k = l
<1> DEFINE picked == {i \in DOMAIN E : IsCapture(E[i]) /\ E[i].tx \notin Batches(E).assigned}
           F      == {i \in picked : \A j \in picked : j < i => E[j].tx # E[i].tx}
<1>1. F \in SUBSET Nat /\ picked \in SUBSET Nat
  OBVIOUS
<1>2. IsFiniteSet(F)
  <2>1. IsFiniteSet(1..n)
    <3>1. 1 \in Int /\ n \in Int
      OBVIOUS
    <3> QED BY <3>1, FS_Interval
  <2>2. F \subseteq 1..n
    OBVIOUS
  <2> HIDE DEF F
  <2> QED BY <2>1, <2>2, FS_Subset
<1>3. PICK order : order = Ascending(F)
  OBVIOUS
<1>4. PICK m \in Nat : /\ order \in [1..m -> F]
                       /\ \A i \in F : \E k \in 1..m : order[k] = i
                       /\ \A k, l \in 1..m : order[k] = order[l] => k = l
  <2> HIDE DEF F
  <2> QED BY <1>1, <1>2, <1>3, AscendingLists
<1>5. PICK pending : pending = PendingCaptures(E)
  OBVIOUS
<1>6. pending = [k \in 1..m |-> E[order[k]].tx]
  <2>1. pending = [k \in DOMAIN Ascending(F) |-> E[Ascending(F)[k]].tx]
    BY <1>5 DEF PendingCaptures, KeysInOrder
  <2> HIDE DEF F
  <2> QED BY <1>3, <1>4, <2>1
<1>7. \A i \in picked : E[i].tx \in Unbatched(E)
  BY DEF Unbatched, Captured
<1>8. ASSUME NEW i \in F, NEW j \in F, E[i].tx = E[j].tx
      PROVE  i = j
  <2>1. ~ (i < j) /\ ~ (j < i) /\ i \in Nat /\ j \in Nat
    BY <1>8
  <2> QED BY <2>1
<1>9. ASSUME NEW t \in Unbatched(E)
      PROVE  \E i \in F : E[i].tx = t
  <2> DEFINE T == {i \in picked : E[i].tx = t}
  <2>1. T # {}
    BY DEF Unbatched, Captured
  <2>2. T \in SUBSET Nat
    BY <1>1
  <2>3. PICK i \in T : \A j \in T : i <= j
    <3> HIDE DEF T
    <3> QED BY <2>1, <2>2, LeastNat
  <2>4. ASSUME NEW j \in picked, j < i
        PROVE  E[j].tx # E[i].tx
    <3>1. i \in Nat /\ j \in Nat /\ ~ (i <= j)
      BY <1>1, <2>4
    <3> QED BY <2>3, <3>1
  <2>5. i \in F
    BY <2>4
  <2> QED BY <2>5
<1> HIDE DEF F
<1>10. pending \in [1..m -> Unbatched(E)]
  <2>1. \A k \in 1..m : order[k] \in picked
    BY <1>4 DEF F
  <2> HIDE DEF picked
  <2> QED BY <1>6, <1>7, <2>1
<1> HIDE DEF picked
<1>11. \A t \in Unbatched(E) : \E k \in 1..m : pending[k] = t
  BY <1>4, <1>6, <1>9
<1>12. \A k, l \in 1..m : pending[k] = pending[l] => k = l
  BY <1>4, <1>6, <1>8
<1> QED BY <1>5, <1>10, <1>11, <1>12

\* Which collecting rows have transaction t.
Collecting(E, t) ==
    {k \in DOMAIN CollectingRows(E) : t \in ToSet(CollectingRows(E)[k].txs)}

\* The part of a sequence between two places.
LEMMA PartOfSequence ==
    ASSUME NEW S, NEW s \in Seq(S), NEW a \in Nat \ {0}, NEW b \in 0..Len(s), a <= b + 1
    PROVE  /\ DOMAIN SubSeq(s, a, b) = 1..(b - a + 1)
           /\ \A x \in 1..(b - a + 1) : SubSeq(s, a, b)[x] = s[a + x - 1]
<1>1. SubSeq(s, a, b) \in Seq(S) /\ Len(SubSeq(s, a, b)) = b - a + 1
  OBVIOUS
<1> QED BY <1>1

\* The pending captures are dealt out to the collecting rows, each to one.
LEMMA CollectedOnce ==
    ASSUME NEW E, NEW n \in Nat, DOMAIN E \subseteq 1..n, NEW t
    PROVE  IF t \in Unbatched(E) THEN \E k : Collecting(E, t) = {k} ELSE Collecting(E, t) = {}
<1>1. PICK pending : pending = PendingCaptures(E)
  OBVIOUS
<1>2. PICK m \in Nat :
          /\ pending \in [1..m -> Unbatched(E)]
          /\ \A u \in Unbatched(E) : \E k \in 1..m : pending[k] = u
          /\ \A k, l \in 1..m : pending[k] = pending[l] => k = l
  <2>1. \E m \in Nat :
            /\ PendingCaptures(E) \in [1..m -> Unbatched(E)]
            /\ \A u \in Unbatched(E) : \E k \in 1..m : PendingCaptures(E)[k] = u
            /\ \A k, l \in 1..m : PendingCaptures(E)[k] = PendingCaptures(E)[l] => k = l
    BY PendingOnce
  <2> QED BY <1>1, <2>1
<1>3. pending \in Seq(Unbatched(E)) /\ Len(pending) = m
  BY <1>2
<1>4. PICK d \in Nat \ {0} : d = PageSize
  BY PageAssumption DEF PageAssumption
<1> DEFINE last(k) == IF m <= (k + 1) * d THEN m ELSE (k + 1) * d
<1>5. DOMAIN CollectingRows(E) = 0..(m \div d)
  BY <1>1, <1>3, <1>4 DEF CollectingRows
<1>6. ASSUME NEW k \in 0..(m \div d)
      PROVE  ToSet(CollectingRows(E)[k].txs) = {pending[x] : x \in (k * d + 1)..last(k)}
  <2>1. k \in Nat /\ m \div d \in Nat /\ d * (m \div d) <= m /\ k * d \in Nat /\ (k + 1) * d \in Nat
    OBVIOUS
  <2>2. k * d <= m /\ k * d <= (k + 1) * d
    <3>1. k * d <= (m \div d) * d
      BY <2>1
    <3> QED BY <2>1, <3>1
  <2>3. Min({m, (k + 1) * d}) = last(k)
    <3>1. (k + 1) * d \in Nat
      BY <2>1
    <3> QED BY <3>1 DEF Min
  <2>4. CollectingRows(E)[k].txs = SubSeq(pending, k * d + 1, last(k))
    BY <1>1, <1>3, <1>4, <2>3 DEF CollectingRows
  <2>5. PICK a \in Nat : a = k * d
    BY <2>1
  <2>6. PICK b \in 0..m : b = last(k)
    BY <2>1
  <2>7. a <= b
    BY <2>1, <2>2, <2>5, <2>6
  <2> HIDE DEF last
  <2>8. PICK page : page = SubSeq(pending, a + 1, b)
    OBVIOUS
  <2>9. /\ DOMAIN page = 1..(b - a)
        /\ \A x \in 1..(b - a) : page[x] = pending[a + x]
    <3>1. a + 1 \in Nat \ {0} /\ b \in 0..Len(pending) /\ a + 1 <= b + 1
      BY <1>3, <2>5, <2>6, <2>7
    <3>2. b - (a + 1) + 1 = b - a /\ \A x \in 1..(b - a) : (a + 1) + x - 1 = a + x
      BY <2>5, <2>6
    <3>3. /\ DOMAIN SubSeq(pending, a + 1, b) = 1..(b - (a + 1) + 1)
          /\ \A x \in 1..(b - (a + 1) + 1) :
                 SubSeq(pending, a + 1, b)[x] = pending[(a + 1) + x - 1]
      BY <1>3, <3>1, PartOfSequence
    <3> QED BY <2>8, <3>2, <3>3
  <2>10. {page[x] : x \in 1..(b - a)} = {pending[x] : x \in (a + 1)..b}
    <3>1. \A x \in 1..(b - a) : a + x \in (a + 1)..b
      BY <2>6
    <3>2. \A y \in (a + 1)..b : y - a \in 1..(b - a) /\ a + (y - a) = y
      BY <2>6
    <3>3. {page[x] : x \in 1..(b - a)} \subseteq {pending[x] : x \in (a + 1)..b}
      BY <2>9, <3>1
    <3>4. ASSUME NEW y \in (a + 1)..b
          PROVE  pending[y] \in {page[x] : x \in 1..(b - a)}
      <4>1. page[y - a] = pending[y]
        BY <2>9, <3>2
      <4> QED BY <3>2, <4>1
    <3> QED BY <3>3, <3>4
  <2>11. CollectingRows(E)[k].txs = page
    BY <2>4, <2>5, <2>6, <2>8
  <2>12. ToSet(page) = {pending[x] : x \in (a + 1)..b}
    BY <2>9, <2>10 DEF ToSet
  <2> QED BY <2>5, <2>6, <2>11, <2>12
<1>7. \A k : k \in Collecting(E, t) <=>
          k \in 0..(m \div d) /\ \E x \in (k * d + 1)..last(k) : pending[x] = t
  <2> HIDE DEF last
  <2>1. ASSUME NEW k \in 0..(m \div d)
        PROVE  t \in ToSet(CollectingRows(E)[k].txs)
                   <=> \E x \in (k * d + 1)..last(k) : pending[x] = t
    BY <1>6
  <2> QED BY <1>5, <2>1 DEF Collecting
<1>8. ASSUME NEW k \in 0..(m \div d), NEW x \in (k * d + 1)..last(k)
      PROVE  x \in 1..m /\ k * d < x /\ x <= (k + 1) * d
  <2>1. k * d \in Nat /\ (k + 1) * d \in Nat
    OBVIOUS
  <2> QED BY <2>1
<1>9. CASE t \notin Unbatched(E)
  <2>1. \A x \in 1..m : pending[x] # t
    BY <1>2, <1>9
  <2> HIDE DEF last
  <2> QED BY <1>7, <1>8, <1>9, <2>1
<1>10. CASE t \in Unbatched(E)
  <2>1. PICK x \in 1..m : pending[x] = t
    BY <1>2, <1>10
  <2>2. PICK k \in Nat : k = (x - 1) \div d
    OBVIOUS
  <2>3. k * d <= x - 1 /\ x - 1 < (k + 1) * d /\ k * d \in Nat /\ (k + 1) * d \in Nat
    BY <2>2
  <2>4. k <= m \div d
    <3>1. k * d <= m
      BY <2>3
    <3> QED BY <3>1
  <2>5. x \in (k * d + 1)..last(k)
    BY <2>3
  <2>6. m \div d \in Nat
    OBVIOUS
  <2>7. k \in Collecting(E, t)
    <3> HIDE DEF last
    <3> QED BY <1>7, <2>1, <2>4, <2>5, <2>6
  <2>8. ASSUME NEW l \in Collecting(E, t)
        PROVE  l = k
    <3>1. PICK y \in (l * d + 1)..last(l) : pending[y] = t
      BY <1>7
    <3>2. l \in 0..(m \div d)
      BY <1>7
    <3> HIDE DEF last
    <3>3. y \in 1..m /\ l * d < y /\ y <= (l + 1) * d
      BY <1>8, <3>1, <3>2
    <3>4. y = x
      BY <1>2, <2>1, <3>1, <3>3
    <3>5. l \in Nat
      BY <2>6, <3>2
    <3>6. x \in Nat /\ k * d < x /\ x <= (k + 1) * d
      BY <2>3
    <3> QED BY <3>3, <3>4, <3>5, <3>6
  <2>9. Collecting(E, t) = {k}
    BY <2>7, <2>8
  <2> QED BY <1>10, <2>9
<1> QED BY <1>9, <1>10

-----------------------------------------------------------------------------
(* What the loop over the batch events has noted *)

\* An event leaves its transactions assigned; some of them completed, if it tells an
\* outcome, and a row of its batch, if it does not.
Noted(st, e) ==
    IsBatchEvent(e) =>
        /\ ToSet(e.txs) \subseteq st.assigned
        /\ IF BatchStatus[e.type] \in Final THEN st.completed \cap ToSet(e.txs) # {}
           ELSE e.batch \in DOMAIN st.rows

LEMMA TakeAssigns ==
    ASSUME NEW st, NEW e, IsState(st)
    PROVE  TakeBatchEvent(st, e).assigned
               = IF IsBatchEvent(e) THEN st.assigned \cup ToSet(e.txs) ELSE st.assigned
<1>1. PICK R, A, C : st = [rows |-> R, assigned |-> A, completed |-> C]
  BY DEF IsState
<1>2. CASE ~ IsBatchEvent(e)
  BY <1>2 DEF TakeBatchEvent
<1>3. CASE IsBatchEvent(e) /\ (Late(st.rows, e) \/ SettledAgain(st.completed, e))
  <2>1. TakeBatchEvent(st, e)
            = [rows |-> R, assigned |-> A \cup ToSet(e.txs), completed |-> C]
    BY <1>1, <1>3 DEF TakeBatchEvent
  <2> QED BY <1>1, <1>3, <2>1
<1>4. CASE IsBatchEvent(e) /\ ~ (Late(st.rows, e) \/ SettledAgain(st.completed, e))
  BY <1>4 DEF TakeBatchEvent
<1> QED BY <1>2, <1>3, <1>4

LEMMA TakeNotes ==
    ASSUME NEW st, NEW e, IsState(st), IsBatchEvent(e) => ToSet(e.txs) # {}
    PROVE  /\ Noted(TakeBatchEvent(st, e), e)
           /\ \A f : Noted(st, f) => Noted(TakeBatchEvent(st, e), f)
<1>1. PICK t : t = TakeBatchEvent(st, e)
  OBVIOUS
<1>2. t.assigned = IF IsBatchEvent(e) THEN st.assigned \cup ToSet(e.txs) ELSE st.assigned
  BY <1>1, TakeAssigns
<1>3. LeftOut(st, t) \/ Taken(st, t, e)
  BY <1>1, TakeStep
<1>4. DOMAIN st.rows \subseteq DOMAIN t.rows /\ st.completed \subseteq t.completed
  BY <1>3 DEF LeftOut, Taken
<1>5. ASSUME IsBatchEvent(e)
      PROVE  IF BatchStatus[e.type] \in Final THEN t.completed \cap ToSet(e.txs) # {}
             ELSE e.batch \in DOMAIN t.rows
  <2>1. CASE Taken(st, t, e)
    BY <1>5, <2>1 DEF Taken
  <2>2. CASE Late(st.rows, e) /\ LeftOut(st, t)
    BY <2>2 DEF Late, LeftOut
  <2>3. CASE SettledAgain(st.completed, e) /\ LeftOut(st, t)
    BY <2>3 DEF SettledAgain, LeftOut
  <2>4. CASE LeftOut(st, t) /\ ~ Late(st.rows, e) /\ ~ SettledAgain(st.completed, e)
    <3>1. e.batch \in DOMAIN t.rows /\ (BatchStatus[e.type] \in Final => ToSet(e.txs) \subseteq t.completed)
      BY <1>1, <1>5, <2>4 DEF TakeBatchEvent
    <3> QED BY <1>5, <3>1
  <2> QED BY <1>3, <2>1, <2>2, <2>3, <2>4
<1>6. Noted(t, e)
  BY <1>2, <1>5 DEF Noted
<1>7. \A f : Noted(st, f) => Noted(t, f)
  BY <1>2, <1>4 DEF Noted
<1> QED BY <1>1, <1>6, <1>7

\* What is assigned is in an event, and what is completed on the row of an outcome.
Backed(E, n, st) ==
    /\ \A u \in st.assigned : \E j \in 1..n : IsBatchEvent(E[j]) /\ u \in ToSet(E[j].txs)
    /\ \A u \in st.completed : \E b \in FinalRows(st) : u \in ToSet(st.rows[b].txs)

LEMMA RunNotes ==
    ASSUME NEW E, NEW n \in Nat, DOMAIN E = 1..n, Consistent(E), NEW run, IsRun(run, E, n)
    PROVE  \A i \in 0..n : Backed(E, i, run[i]) /\ \A j \in 1..i : Noted(run[i], E[j])
<1> DEFINE T == {i \in 0..n : Backed(E, i, run[i]) /\ \A j \in 1..i : Noted(run[i], E[j])}
<1>1. 0 \in T
  <2>1. run[0] = NoBatches /\ 0 \in 0..n
    BY DEF IsRun
  <2>2. NoBatches.assigned = {} /\ NoBatches.completed = {}
    BY DEF NoBatches
  <2>3. Backed(E, 0, run[0])
    BY <2>1, <2>2 DEF Backed
  <2> QED BY <2>1, <2>3
<1>2. ASSUME NEW i \in 0..(n - 1), i \in T
      PROVE  i + 1 \in T
  <2>1. i + 1 \in 1..n /\ (i + 1) - 1 = i /\ i + 1 \in 0..n /\ i \in 0..n /\ i \in Nat
    OBVIOUS
  <2>2. PICK e : e = E[i + 1]
    OBVIOUS
  <2>3. run[i + 1] = TakeBatchEvent(run[i], e)
    BY <2>1, <2>2 DEF IsRun
  <2>4. IsState(run[i])
    BY <2>1, RunApart
  <2>5. IsBatchEvent(e) => ToSet(e.txs) # {}
    BY <2>1, <2>2 DEF Consistent
  <2>6. \A j \in 1..(i + 1) : Noted(run[i + 1], E[j])
    <3>1. \A j \in 1..i : Noted(run[i], E[j])
      BY <1>2
    <3>2. Noted(run[i + 1], e) /\ \A f : Noted(run[i], f) => Noted(run[i + 1], f)
      BY <2>3, <2>4, <2>5, TakeNotes
    <3>3. \A j \in 1..(i + 1) : j \in 1..i \/ j = i + 1
      BY <2>1
    <3> QED BY <2>2, <3>1, <3>2, <3>3
  <2>7. Backed(E, i, run[i])
    BY <1>2
  <2>8. ASSUME NEW u \in run[i + 1].assigned
        PROVE  \E j \in 1..(i + 1) : IsBatchEvent(E[j]) /\ u \in ToSet(E[j].txs)
    <3>1. u \in run[i].assigned \/ (IsBatchEvent(e) /\ u \in ToSet(e.txs))
      <4>1. run[i + 1].assigned
                = IF IsBatchEvent(e) THEN run[i].assigned \cup ToSet(e.txs) ELSE run[i].assigned
        <5>1. TakeBatchEvent(run[i], e).assigned
                  = IF IsBatchEvent(e) THEN run[i].assigned \cup ToSet(e.txs)
                    ELSE run[i].assigned
          BY <2>4, TakeAssigns
        <5> QED BY <2>3, <5>1
      <4> QED BY <2>8, <4>1
    <3>2. i + 1 \in 1..(i + 1) /\ \A j \in 1..i : j \in 1..(i + 1)
      BY <2>1
    <3> QED BY <2>2, <2>7, <3>1, <3>2 DEF Backed
  <2>9. ASSUME NEW u \in run[i + 1].completed
        PROVE  \E b \in FinalRows(run[i + 1]) : u \in ToSet(run[i + 1].rows[b].txs)
    <3>1. CASE u \in run[i].completed
      <4>1. PICK b \in FinalRows(run[i]) : u \in ToSet(run[i].rows[b].txs)
        BY <2>7, <3>1 DEF Backed
      <4>2. b \in DOMAIN run[i + 1].rows /\ run[i + 1].rows[b] = run[i].rows[b]
        BY FinalRowKept
      <4> QED BY <4>1, <4>2 DEF FinalRows
    <3>2. CASE u \notin run[i].completed
      <4>1. Taken(run[i], run[i + 1], e)
        BY <2>3, <2>4, <2>9, <3>2, TakeStep DEF LeftOut
      <4>2. BatchStatus[e.type] \in Final /\ u \in ToSet(e.txs)
        BY <2>9, <3>2, <4>1 DEF Taken
      <4>3. e.batch \in DOMAIN run[i + 1].rows /\ run[i + 1].rows[e.batch] = BatchRow(e)
        BY <4>1 DEF Taken
      <4>4. BatchRow(e).txs = e.txs /\ BatchRow(e).status = BatchStatus[e.type]
        BY DEF BatchRow
      <4> QED BY <4>2, <4>3, <4>4 DEF FinalRows
    <3> QED BY <3>1, <3>2
  <2>10. Backed(E, i + 1, run[i + 1])
    BY <2>8, <2>9 DEF Backed
  <2> QED BY <2>1, <2>6, <2>10
<1>3. \A i \in 0..n : i \in T
  <2> HIDE DEF T
  <2>1. 0 \in Nat
    OBVIOUS
  <2> QED BY <1>1, <1>2, <2>1, UpTo
<1> QED BY <1>3

\* An outcome that has a transaction of another batch comes after an announcement.
Announced(E, n) ==
    \A x, y \in 1..n :
        /\ IsBatchEvent(E[x]) /\ BatchStatus[E[x].type] \in Final
        /\ IsBatchEvent(E[y]) /\ E[y].batch # E[x].batch
        /\ ToSet(E[x].txs) \cap ToSet(E[y].txs) # {}
        => \E z \in 1..n : /\ IsBatchEvent(E[z]) /\ BatchStatus[E[z].type] \notin Final
                           /\ E[z].batch = E[x].batch

\* Then the transactions that batch events name are those on the rows of batches.
LEMMA AssignedIsOnRows ==
    ASSUME NEW E, NEW n \in Nat, DOMAIN E = 1..n, Consistent(E), Announced(E, n), NEW u
    PROVE  u \in Batches(E).assigned
               <=> \E b \in DOMAIN SettlementRows(E) : u \in ToSet(SettlementRows(E)[b].txs)
<1>1. PICK run : IsRun(run, E, n) /\ Batches(E) = run[n]
  BY BatchesRun
<1>2. PICK st : st = run[n]
  OBVIOUS
<1>3. SettlementRows(E) = st.rows /\ Batches(E) = st
  BY <1>1, <1>2 DEF SettlementRows
<1>4. RowsOf(E, n, st) /\ Backed(E, n, st) /\ \A j \in 1..n : Noted(st, E[j])
  <2>1. n \in 0..n
    OBVIOUS
  <2> QED BY <1>1, <1>2, <2>1, RunRows, RunNotes
<1>5. \A f : BatchRow(f).txs = f.txs
  BY DEF BatchRow
<1>6. ASSUME NEW b \in DOMAIN st.rows
      PROVE  /\ u \in ToSet(st.rows[b].txs) => u \in st.assigned
             /\ \A j \in 1..n : IsBatchEvent(E[j]) /\ E[j].batch = b => st.rows[b].txs = E[j].txs
  <2>1. PICK j \in 1..n : IsBatchEvent(E[j]) /\ E[j].batch = b /\ st.rows[b] = BatchRow(E[j])
    BY <1>4 DEF RowsOf
  <2>2. st.rows[b].txs = E[j].txs /\ ToSet(E[j].txs) \subseteq st.assigned
    BY <1>4, <1>5, <2>1 DEF Noted
  <2> QED BY <2>1, <2>2 DEF Consistent
<1>7. ASSUME u \in st.assigned
      PROVE  \E b \in DOMAIN st.rows : u \in ToSet(st.rows[b].txs)
  <2>1. PICK x \in 1..n : IsBatchEvent(E[x]) /\ u \in ToSet(E[x].txs)
    BY <1>4, <1>7 DEF Backed
  <2>2. CASE E[x].batch \in DOMAIN st.rows
    BY <1>6, <2>1, <2>2
  <2>3. CASE E[x].batch \notin DOMAIN st.rows
    <3>1. BatchStatus[E[x].type] \in Final /\ st.completed \cap ToSet(E[x].txs) # {}
      BY <1>4, <2>1, <2>3 DEF Noted
    <3>2. PICK v : v \in st.completed /\ v \in ToSet(E[x].txs)
      BY <3>1
    <3>3. PICK a \in DOMAIN st.rows : v \in ToSet(st.rows[a].txs)
      BY <1>4, <3>2 DEF Backed, FinalRows
    <3>4. PICK y \in 1..n : IsBatchEvent(E[y]) /\ E[y].batch = a /\ st.rows[a] = BatchRow(E[y])
      BY <1>4 DEF RowsOf
    <3>5. v \in ToSet(E[y].txs) /\ E[y].batch # E[x].batch
      BY <1>5, <2>3, <3>3, <3>4
    <3>6. PICK z \in 1..n : /\ IsBatchEvent(E[z]) /\ BatchStatus[E[z].type] \notin Final
                            /\ E[z].batch = E[x].batch
      BY <2>1, <3>1, <3>2, <3>4, <3>5 DEF Announced
    <3> QED BY <1>4, <2>3, <3>6 DEF Noted
  <2> QED BY <2>2, <2>3
<1> QED BY <1>3, <1>6, <1>7

-----------------------------------------------------------------------------
(* The order of the records of a partition *)

\* Before a record come the earlier records of its partition.
Ordered(s) ==
    \A i \in 1..Len(s) : \A m \in 1..(s[i][2] - 1) : \E j \in 1..(i - 1) : s[j] = <<s[i][1], m>>
InOrder == limit = 0 => Ordered(snapshot) /\ Ordered(history)

LEMMA InOrderInit == TopicsInit /\ BridgeInit => InOrder
BY DEF BridgeInit, InOrder, Ordered

LEMMA InOrderStep ==
    ASSUME BridgeTypeOK, BridgeInv, InOrder, [BridgeNext]_bridgeVars
    PROVE  InOrder'
<1>0. limit \in Nat /\ snapshot \in Seq(Record) /\ history \in Seq(Record)
  BY LimitsAssumption DEF LimitsAssumption, BridgeTypeOK
<1>1. CASE StartBridge
  <2>1. limit = 0 => Trim(snapshot) = snapshot
    BY <1>0, TrimPart
  <2>2. history' = Trim(snapshot) /\ snapshot' = Trim(snapshot) /\ limit' = limit
    BY <1>1 DEF StartBridge
  <2> SUFFICES ASSUME limit = 0 PROVE Ordered(history)' /\ Ordered(snapshot)'
    BY <2>2 DEF InOrder
  <2>3. history' = snapshot /\ snapshot' = snapshot /\ Ordered(snapshot)
    BY <2>1, <2>2 DEF InOrder
  <2> QED BY <2>3 DEF Ordered
<1>2. ASSUME NEW p \in Partition, Append1(p)
      PROVE  InOrder'
  <2> SUFFICES ASSUME limit = 0 PROVE Ordered(history)' /\ Ordered(snapshot)'
    BY <1>2 DEF InOrder, Append1
  <2>1. PICK r : r = <<p, b_position[p] + 1>>
    OBVIOUS
  <2>2. b_position[p] \in Nat /\ r \in Record
    BY <2>1 DEF BridgeTypeOK, Record
  <2>3. PICK t : t = Append(history, r)
    OBVIOUS
  <2>4. PICK l \in Nat : l = Len(history)
    BY <1>0
  <2>5. t \in Seq(Record) /\ Len(t) = l + 1 /\ t[l + 1] = r /\ \A i \in 1..l : t[i] = history[i]
    BY <1>0, <2>2, <2>3, <2>4
  <2>6. history' = t /\ snapshot' = snapshot
    BY <1>0, <1>2, <2>1, <2>3, <2>5, TrimPart DEF Append1
  <2>7. ASSUME NEW i \in 1..l, NEW m \in 1..(t[i][2] - 1)
        PROVE  \E j \in 1..(i - 1) : t[j] = <<t[i][1], m>>
    <3>1. PICK j \in 1..(i - 1) : history[j] = <<history[i][1], m>>
      BY <2>4, <2>5, <2>7 DEF InOrder, Ordered
    <3>2. j \in 1..l
      BY <2>4
    <3> QED BY <2>5, <3>1, <3>2
  <2>8. ASSUME NEW m \in 1..(r[2] - 1)
        PROVE  \E j \in 1..l : t[j] = <<r[1], m>>
    <3>1. m \in 1..b_position[p] /\ r[1] = p
      BY <2>1, <2>2, <2>8
    <3>2. Holds(history, <<p, m>>)
      <4>1. b_pc # "down" /\ ~ Full(history)
        BY <1>2 DEF Append1, Full
      <4> QED BY <3>1, <4>1 DEF BridgeInv, Covers
    <3> QED BY <2>4, <2>5, <3>1, <3>2 DEF Holds
  <2>9. Ordered(t)
    <3> SUFFICES ASSUME NEW i \in 1..(l + 1), NEW m \in 1..(t[i][2] - 1)
                 PROVE  \E j \in 1..(i - 1) : t[j] = <<t[i][1], m>>
      BY <2>5 DEF Ordered
    <3>1. CASE i \in 1..l
      BY <2>7, <3>1
    <3>2. CASE i = l + 1
      <4>1. 1..(i - 1) = 1..l /\ t[i] = r
        BY <2>5, <3>2
      <4> QED BY <2>8, <4>1
    <3> QED BY <3>1, <3>2
  <2> QED BY <2>6, <2>9 DEF InOrder, Ordered
<1>3. CASE EndPoll \/ CompleteReplay \/ PollOn
  BY <1>3 DEF EndPoll, CompleteReplay, PollOn, InOrder, Ordered
<1>4. CASE WriteSnapshot
  BY <1>4 DEF WriteSnapshot, InOrder, Ordered
<1>5. CASE Commit
  BY <1>5 DEF Commit, InOrder, Ordered
<1>6. CASE CrashBridge
  <2>1. history' = <<>> /\ snapshot' = snapshot /\ limit' = limit
    BY <1>6 DEF CrashBridge
  <2>2. Ordered(<<>>)
    BY DEF Ordered
  <2> QED BY <2>1, <2>2 DEF InOrder, Ordered
<1>7. CASE UNCHANGED bridge
  BY <1>7 DEF bridge, InOrder, Ordered
<1> QED
  BY <1>1, <1>2, <1>3, <1>4, <1>5, <1>6, <1>7
     DEF BridgeNext, BridgeStep, BridgeLoop, bridgeVars, bridge

\* The place in the history of a record that exists, and the record at a place.
LEMMA PlaceOfRecord ==
    ASSUME HistoryOK, PlacesOK, NEW r, Exists(r)
    PROVE  \E i \in Places(r[1], Len(script)) :
               Cardinality(Places(r[1], i)) = r[2] /\ Content(r) = script[i]
<1>1. \E i \in Places(r[1], Len(script)) : Cardinality(Places(r[1], i)) = r[2]
  BY DEF PlacesOK, Exists
<1> QED BY <1>1 DEF Content

LEMMA RecordAtPlace ==
    ASSUME HistoryOK, NEW p, NEW i \in Places(p, Len(script)), NEW j \in Places(p, Len(script)),
           i < j
    PROVE  /\ Cardinality(Places(p, i)) \in Nat \ {0}
           /\ Cardinality(Places(p, i)) < Cardinality(Places(p, j))
<1>1. PICK n \in Nat : n = Len(script)
  BY HistoryTyped
<1>2. PICK F : F = Places(p, n)
  OBVIOUS
<1>3. F \in SUBSET Nat /\ IsFiniteSet(F)
  <2>1. F \in SUBSET Nat
    BY <1>2 DEF Places
  <2> QED BY <1>2, <2>1, PlacesFinite
<1>4. ASSUME NEW k \in F
      PROVE  UpToPlace(F, k) = Places(p, k)
  <2>1. k \in 1..n
    BY <1>2 DEF Places
  <2>2. \A x \in 1..n : x <= k <=> x \in 1..k
    BY <2>1
  <2>3. \A x \in 1..k : x \in 1..n
    BY <2>1
  <2> QED BY <1>2, <2>2, <2>3 DEF Places, UpToPlace
<1>5. i \in F /\ j \in F
  BY <1>1, <1>2
<1>6. Cardinality(F) \in Nat
  BY <1>3, FS_CardinalityType
<1>7. /\ Cardinality(UpToPlace(F, i)) \in 1..Cardinality(F)
      /\ Cardinality(UpToPlace(F, i)) < Cardinality(UpToPlace(F, j))
  BY <1>3, <1>5, RankGrows
<1> QED BY <1>4, <1>5, <1>6, <1>7

\* An earlier record of the partition of a record on the snapshot is there before it.
LEMMA EarlierIsBefore ==
    ASSUME TypeOK, HistoryOK, ViewInv, InOrder, limit = 0, NEW x \in 1..Len(snapshot),
           NEW i \in Places(snapshot[x][1], Len(script)), NEW j \in 1..(i - 1),
           Cardinality(Places(snapshot[x][1], i)) = snapshot[x][2],
           script[j].partition = script[i].partition
    PROVE  \E z \in 1..(x - 1) : Content(snapshot[z]) = script[j]
<1>1. PICK p \in Partition : p = snapshot[x][1]
  BY DEF ViewInv, RecordsExist, AllExist, Exists
<1>2. PICK n \in Nat : n = Len(script)
  BY HistoryTyped
<1>3. i \in 1..n /\ j \in 1..n /\ j < i /\ script[j].partition = p
  BY <1>1, <1>2 DEF Places
<1>4. i \in Places(p, Len(script)) /\ j \in Places(p, Len(script))
  BY <1>1, <1>2, <1>3 DEF Places
<1>5. PICK m \in Nat \ {0} : m = Cardinality(Places(p, j)) /\ m < snapshot[x][2]
  BY <1>1, <1>3, <1>4, RecordAtPlace
<1>6. snapshot \in Seq(Record) /\ snapshot[x][2] \in Nat
  <2>1. snapshot \in Seq(Record)
    BY DEF TypeOK, BridgeTypeOK
  <2>2. snapshot[x] \in Record
    BY <2>1
  <2> QED BY <2>1, <2>2 DEF Record
<1>7. m \in 1..(snapshot[x][2] - 1)
  BY <1>5, <1>6
<1>8. PICK z \in 1..(x - 1) : snapshot[z] = <<p, m>>
  BY <1>1, <1>7 DEF InOrder, Ordered
<1>9. Exists(<<p, m>>)
  <2>1. z \in 1..Len(snapshot)
    BY <1>6
  <2> QED BY <1>8, <2>1 DEF ViewInv, RecordsExist, AllExist
<1>10. PICK k \in Places(p, Len(script)) : /\ Cardinality(Places(p, k)) = m
                                           /\ Content(<<p, m>>) = script[k]
  BY <1>9, PlaceOfRecord DEF ViewInv
<1>11. k = j
  <2>1. k \in Nat /\ j \in Nat
    BY <1>2, <1>3, <1>10 DEF Places
  <2>2. ~ (k < j)
    BY <1>4, <1>5, <1>10, RecordAtPlace
  <2>3. ~ (j < k)
    BY <1>4, <1>5, <1>10, RecordAtPlace
  <2> QED BY <2>1, <2>2, <2>3
<1> QED BY <1>8, <1>10, <1>11

LEMMA SnapshotAnnounced ==
    ASSUME TypeOK, HistoryOK, ViewInv, InOrder, limit = 0, OverlapsAnnounced
    PROVE  Announced(Shown, Len(snapshot))
<1>1. PICK n \in Nat : n = Len(snapshot) /\ DOMAIN snapshot = 1..n
  BY DEF TypeOK, BridgeTypeOK
<1>2. \A x \in 1..n : Shown[x] = Content(snapshot[x]) /\ Exists(snapshot[x])
  BY <1>1 DEF Shown, Events, ViewInv, RecordsExist, AllExist
<1> SUFFICES ASSUME NEW x \in 1..n, NEW y \in 1..n,
                    IsBatchEvent(Shown[x]), BatchStatus[Shown[x].type] \in Final,
                    IsBatchEvent(Shown[y]), Shown[y].batch # Shown[x].batch,
                    ToSet(Shown[x].txs) \cap ToSet(Shown[y].txs) # {}
             PROVE  \E z \in 1..n : /\ IsBatchEvent(Shown[z])
                                    /\ BatchStatus[Shown[z].type] \notin Final
                                    /\ Shown[z].batch = Shown[x].batch
  BY <1>1 DEF Announced
<1>3. PICK i \in Places(snapshot[x][1], Len(script)) :
          Cardinality(Places(snapshot[x][1], i)) = snapshot[x][2] /\ Shown[x] = script[i]
  BY <1>2, PlaceOfRecord DEF ViewInv
<1>4. i \in 1..Len(script)
  BY <1>3 DEF Places
<1>5. PICK k \in 1..Len(script) : Shown[y] = script[k]
  BY <1>2, ContentInHistory DEF ViewInv
<1>6. PICK j \in 1..(i - 1) :
          /\ IsBatchEvent(script[j]) /\ BatchStatus[script[j].type] \notin Final
          /\ script[j].batch = script[i].batch
          /\ script[j].partition = script[i].partition
  <2>1. /\ IsBatchEvent(script[i]) /\ BatchStatus[script[i].type] \in Final
        /\ IsBatchEvent(script[k]) /\ script[k].batch # script[i].batch
        /\ ToSet(script[i].txs) \cap ToSet(script[k].txs) # {}
    BY <1>3, <1>5
  <2> QED BY <1>4, <1>5, <2>1 DEF OverlapsAnnounced
<1>7. PICK z \in 1..(x - 1) : Content(snapshot[z]) = script[j]
  BY <1>1, <1>3, <1>6, EarlierIsBefore
<1>8. z \in 1..n
  OBVIOUS
<1> QED BY <1>2, <1>3, <1>6, <1>7, <1>8

\* No capture is lost from the settlement page or shown on it twice, neither as batches
\* overlap nor as a killed bridge repeats events: while no batch event names it, a
\* transaction is on one collecting row, and after that on the row of a batch.
THEOREM EveryCaptureShownHolds == Spec => []EveryCaptureShown
<1>1. TypeOK /\ HistoryOK /\ ViewInv /\ InOrder => EveryCaptureShown
  <2> SUFFICES ASSUME TypeOK, HistoryOK, ViewInv, InOrder, limit = 0, OverlapsAnnounced,
                      NEW t \in DOMAIN CaptureIndex(Shown)
               PROVE  IF \E b \in DOMAIN ShownRows : t \in ToSet(ShownRows[b].txs)
                      THEN Collecting(Shown, t) = {} ELSE Cardinality(Collecting(Shown, t)) = 1
    BY DEF EveryCaptureShown, Collecting
  <2>1. PICK E : E = Shown
    OBVIOUS
  <2>2. PICK n \in Nat : n = Len(snapshot) /\ DOMAIN snapshot = 1..n
    BY DEF TypeOK, BridgeTypeOK
  <2>3. DOMAIN E = 1..n /\ Consistent(E)
    BY <2>1, <2>2, EventsConsistent DEF Shown, ViewInv, RecordsExist
  <2>4. Announced(E, n)
    BY <2>1, <2>2, SnapshotAnnounced
  <2>5. t \in Captured(E)
    BY <2>1 DEF CaptureIndex, Latest, Captured
  <2>6. t \in Batches(E).assigned
            <=> \E b \in DOMAIN SettlementRows(E) : t \in ToSet(SettlementRows(E)[b].txs)
    BY <2>3, <2>4, AssignedIsOnRows
  <2>7. IF t \in Unbatched(E) THEN \E k : Collecting(E, t) = {k} ELSE Collecting(E, t) = {}
    BY <2>3, CollectedOnce
  <2>8. \A k : Cardinality({k}) = 1
    BY FS_Singleton
  <2> QED BY <2>1, <2>5, <2>6, <2>7, <2>8 DEF Unbatched, ShownRows
<1>2. Init => TopicsInit /\ BridgeInit
  BY DEF Init
<1>3. TypeOK => BridgeTypeOK
  BY DEF TypeOK
<1> QED
  BY <1>1, <1>2, <1>3, HistoryInit, HistoryStep, TypeCorrect, ViewInvInit, ViewInvStep,
     BridgeInvInit, BridgeInvStep, StepOfBridge, InOrderInit, InOrderStep, PTL DEF Spec

-----------------------------------------------------------------------------
(* Lists of events with the repeats left out *)

\* F has events of E at their places, and of each event of E the first at least.
Thinned(E, F, n) ==
    /\ DOMAIN E = 1..n /\ DOMAIN F \subseteq 1..n
    /\ \A i \in DOMAIN F : F[i] = E[i]
    /\ \A i \in 1..n : \E j \in DOMAIN F : j <= i /\ F[j] = E[i]

\* Two states of the loop that differ in the rows without an outcome at most.
Alike(st, t) ==
    /\ DOMAIN st.rows = DOMAIN t.rows /\ FinalRows(st) = FinalRows(t)
    /\ \A b \in FinalRows(st) : st.rows[b] = t.rows[b]
    /\ st.assigned = t.assigned /\ st.completed = t.completed

LEMMA TakeLeaves ==
    ASSUME NEW st, NEW e, IsState(st),
           ~ IsBatchEvent(e) \/ Late(st.rows, e) \/ SettledAgain(st.completed, e)
    PROVE  LeftOut(st, TakeBatchEvent(st, e))
<1>1. PICK R, A, C : st = [rows |-> R, assigned |-> A, completed |-> C]
  BY DEF IsState
<1>2. CASE ~ IsBatchEvent(e)
  BY <1>2 DEF TakeBatchEvent, LeftOut
<1>3. CASE IsBatchEvent(e) /\ (Late(st.rows, e) \/ SettledAgain(st.completed, e))
  <2>1. TakeBatchEvent(st, e)
            = [rows |-> R, assigned |-> A \cup ToSet(e.txs), completed |-> C]
    BY <1>1, <1>3 DEF TakeBatchEvent
  <2> QED BY <1>1, <2>1 DEF LeftOut
<1> QED BY <1>2, <1>3

LEMMA TakeTakes ==
    ASSUME NEW st, NEW e, IsState(st),
           IsBatchEvent(e), ~ Late(st.rows, e), ~ SettledAgain(st.completed, e)
    PROVE  Taken(st, TakeBatchEvent(st, e), e)
BY DEF Taken, TakeBatchEvent

\* An event leaves states that are alike alike.
LEMMA TakeAlike ==
    ASSUME NEW st, NEW t, NEW e, IsState(st), IsState(t), Alike(st, t)
    PROVE  Alike(TakeBatchEvent(st, e), TakeBatchEvent(t, e))
<1>1. PICK u : u = TakeBatchEvent(st, e)
  OBVIOUS
<1>2. PICK v : v = TakeBatchEvent(t, e)
  OBVIOUS
<1>3. u.assigned = v.assigned
  <2>1. /\ TakeBatchEvent(st, e).assigned
               = IF IsBatchEvent(e) THEN st.assigned \cup ToSet(e.txs) ELSE st.assigned
        /\ TakeBatchEvent(t, e).assigned
               = IF IsBatchEvent(e) THEN t.assigned \cup ToSet(e.txs) ELSE t.assigned
    BY TakeAssigns
  <2> QED BY <1>1, <1>2, <2>1 DEF Alike
<1>4. /\ Late(st.rows, e) <=> Late(t.rows, e)
      /\ SettledAgain(st.completed, e) <=> SettledAgain(t.completed, e)
  BY DEF Alike, Late, SettledAgain, FinalRows
<1>5. CASE ~ IsBatchEvent(e) \/ Late(st.rows, e) \/ SettledAgain(st.completed, e)
  <2>1. LeftOut(st, u) /\ LeftOut(t, v)
    BY <1>1, <1>2, <1>4, <1>5, TakeLeaves
  <2>2. FinalRows(u) = FinalRows(st) /\ FinalRows(v) = FinalRows(t)
    BY <2>1 DEF LeftOut, FinalRows
  <2> QED BY <1>1, <1>2, <1>3, <2>1, <2>2 DEF Alike, LeftOut
<1>6. CASE ~ (~ IsBatchEvent(e) \/ Late(st.rows, e) \/ SettledAgain(st.completed, e))
  <2>1. Taken(st, u, e) /\ Taken(t, v, e)
    BY <1>1, <1>2, <1>4, <1>6, TakeTakes
  <2>2. /\ DOMAIN u.rows = DOMAIN st.rows \cup {e.batch}
        /\ DOMAIN v.rows = DOMAIN t.rows \cup {e.batch}
        /\ u.rows[e.batch] = BatchRow(e) /\ v.rows[e.batch] = BatchRow(e)
        /\ \A b \in DOMAIN st.rows : b # e.batch => u.rows[b] = st.rows[b]
        /\ \A b \in DOMAIN t.rows : b # e.batch => v.rows[b] = t.rows[b]
    BY <2>1 DEF Taken
  <2>3. DOMAIN u.rows = DOMAIN v.rows /\ u.completed = v.completed
    BY <2>1, <2>2 DEF Taken, Alike
  <2>4. ASSUME NEW b \in DOMAIN u.rows
        PROVE  /\ u.rows[b].status \in Final <=> v.rows[b].status \in Final
               /\ u.rows[b].status \in Final => u.rows[b] = v.rows[b]
    <3>1. CASE b = e.batch
      BY <2>2, <3>1
    <3>2. CASE b # e.batch
      <4>1. b \in DOMAIN st.rows /\ b \in DOMAIN t.rows
        BY <2>2, <2>3, <3>2
      <4>2. u.rows[b] = st.rows[b] /\ v.rows[b] = t.rows[b]
        BY <2>2, <3>2, <4>1
      <4> QED BY <4>1, <4>2 DEF Alike, FinalRows
    <3> QED BY <3>1, <3>2
  <2>5. FinalRows(u) = FinalRows(v) /\ \A b \in FinalRows(u) : u.rows[b] = v.rows[b]
    BY <2>3, <2>4 DEF FinalRows
  <2> QED BY <1>1, <1>2, <1>3, <2>3, <2>5 DEF Alike
<1> QED BY <1>5, <1>6

\* An event that has been noted changes the row of a batch without an outcome at most.
LEMMA RepeatAlike ==
    ASSUME NEW st, NEW e, IsState(st), Noted(st, e)
    PROVE  Alike(TakeBatchEvent(st, e), st)
<1>1. PICK u : u = TakeBatchEvent(st, e)
  OBVIOUS
<1>2. u.assigned = st.assigned
  <2>1. TakeBatchEvent(st, e).assigned
            = IF IsBatchEvent(e) THEN st.assigned \cup ToSet(e.txs) ELSE st.assigned
    BY TakeAssigns
  <2> QED BY <1>1, <2>1 DEF Noted
<1>3. CASE ~ IsBatchEvent(e) \/ Late(st.rows, e) \/ SettledAgain(st.completed, e)
  <2>1. LeftOut(st, u)
    BY <1>1, <1>3, TakeLeaves
  <2>2. FinalRows(u) = FinalRows(st)
    BY <2>1 DEF LeftOut, FinalRows
  <2> QED BY <1>1, <1>2, <2>1, <2>2 DEF Alike, LeftOut
<1>4. CASE ~ (~ IsBatchEvent(e) \/ Late(st.rows, e) \/ SettledAgain(st.completed, e))
  <2>1. Taken(st, u, e)
    BY <1>1, <1>4, TakeTakes
  <2>2. BatchStatus[e.type] \notin Final /\ e.batch \in DOMAIN st.rows
    BY <1>4 DEF Noted, SettledAgain
  <2>3. st.rows[e.batch].status \notin Final
    BY <1>4, <2>2 DEF Late
  <2>4. /\ DOMAIN u.rows = DOMAIN st.rows /\ u.completed = st.completed
        /\ \A b \in DOMAIN st.rows : b # e.batch => u.rows[b] = st.rows[b]
        /\ u.rows[e.batch].status = BatchStatus[e.type]
    BY <2>1, <2>2 DEF Taken, BatchRow
  <2>5. FinalRows(u) = FinalRows(st) /\ \A b \in FinalRows(u) : u.rows[b] = st.rows[b]
    BY <2>2, <2>3, <2>4 DEF FinalRows
  <2> QED BY <1>1, <1>2, <2>4, <2>5 DEF Alike
<1> QED BY <1>3, <1>4

\* So the repeats do not matter to the end of the loop.
LEMMA BatchesAlike ==
    ASSUME NEW E, NEW F, NEW n \in Nat, Thinned(E, F, n), Consistent(E)
    PROVE  Alike(Batches(E), Batches(F))
<1>1. DOMAIN E = 1..n /\ DOMAIN F \subseteq 1..n
  BY DEF Thinned
<1>2. PICK run : IsRun(run, E, n) /\ Batches(E) = run[n]
  BY <1>1, BatchesRun
<1>3. PICK part : IsPartRun(part, F, n) /\ Batches(F) = part[n]
  BY <1>1, PartRun
<1> DEFINE T == {i \in 0..n : IsState(part[i]) /\ Alike(run[i], part[i])}
<1>4. 0 \in T
  <2>1. run[0] = NoBatches /\ part[0] = NoBatches /\ 0 \in 0..n
    BY <1>2, <1>3 DEF IsRun, IsPartRun
  <2>2. IsState(NoBatches)
    BY DEF NoBatches, IsState
  <2> QED BY <2>1, <2>2 DEF Alike
<1>5. ASSUME NEW i \in 0..(n - 1), i \in T
      PROVE  i + 1 \in T
  <2>1. i + 1 \in 1..n /\ (i + 1) - 1 = i /\ i + 1 \in 0..n /\ i \in 0..n
    OBVIOUS
  <2>2. run[i + 1] = TakeBatchEvent(run[i], E[i + 1])
    BY <1>2, <2>1 DEF IsRun
  <2>3. part[i + 1] = IF i + 1 \in DOMAIN F THEN TakeBatchEvent(part[i], F[i + 1]) ELSE part[i]
    BY <1>3, <2>1 DEF IsPartRun
  <2>4. IsState(run[i]) /\ IsState(part[i]) /\ Alike(run[i], part[i])
    BY <1>2, <1>5, <2>1, RunApart
  <2>5. CASE i + 1 \in DOMAIN F
    <3>1. F[i + 1] = E[i + 1]
      BY <2>5 DEF Thinned
    <3>2. part[i + 1] = TakeBatchEvent(part[i], E[i + 1])
      BY <2>3, <2>5, <3>1
    <3>3. IsState(part[i + 1])
      BY <2>4, <3>2, TakeStep
    <3>4. Alike(run[i + 1], part[i + 1])
      BY <2>2, <2>4, <3>2, TakeAlike
    <3> QED BY <2>1, <3>3, <3>4
  <2>6. CASE i + 1 \notin DOMAIN F
    <3>1. PICK j \in DOMAIN F : j <= i + 1 /\ F[j] = E[i + 1] /\ F[j] = E[j]
      BY <2>1 DEF Thinned
    <3>2. j \in 1..i
      BY <1>1, <2>1, <2>6, <3>1
    <3>3. Noted(run[i], E[j])
      BY <1>1, <1>2, <2>1, <3>2, RunNotes
    <3>4. Alike(run[i + 1], run[i])
      BY <2>2, <2>4, <3>1, <3>3, RepeatAlike
    <3>5. part[i + 1] = part[i]
      BY <2>3, <2>6
    <3>6. Alike(run[i + 1], part[i])
      BY <2>4, <3>4 DEF Alike
    <3> QED BY <2>1, <2>4, <3>5, <3>6
  <2> QED BY <2>5, <2>6
<1>6. \A i \in 0..n : i \in T
  <2> HIDE DEF T
  <2>1. 0 \in Nat
    OBVIOUS
  <2> QED BY <1>4, <1>5, <2>1, UpTo
<1> QED BY <1>2, <1>3, <1>6

\* A set of places has a greatest.
LEMMA MaxOfPlaces ==
    ASSUME NEW n \in Nat, NEW S \in SUBSET (1..n), S # {}
    PROVE  Max(S) \in S
<1> DEFINE T == {n - i : i \in S}
<1>1. T \in SUBSET Nat /\ T # {}
  <2>1. \A i \in S : i \in 1..n
    OBVIOUS
  <2>2. \A i \in S : n - i \in Nat
    BY <2>1
  <2> QED BY <2>2
<1>2. PICK x \in T : \A y \in T : x <= y
  <2> HIDE DEF T
  <2> QED BY <1>1, LeastNat
<1>3. PICK m \in S : x = n - m
  OBVIOUS
<1>4. \A i \in S : m >= i
  <2> SUFFICES ASSUME NEW i \in S PROVE m >= i
    OBVIOUS
  <2>1. x <= n - i
    BY <1>2
  <2>2. i \in 1..n /\ m \in 1..n
    OBVIOUS
  <2> QED BY <1>3, <2>1, <2>2
<1> QED BY <1>4 DEF Max

\* Where the keys of a dictionary first come, when some places of known keys are left out.
Firsts(P, key) == {i \in P : \A j \in P : j < i => key[j] # key[i]}

LEMMA FirstOfKeys ==
    ASSUME NEW P \in SUBSET Nat, NEW Q \in SUBSET P, NEW key,
           \A i \in P : \E j \in Q : j <= i /\ key[j] = key[i]
    PROVE  Firsts(P, key) = Firsts(Q, key)
<1>1. \A i \in P : i \in Nat
  OBVIOUS
<1>2. ASSUME NEW i \in P, \A j \in P : j < i => key[j] # key[i]
      PROVE  i \in Q
  <2>1. PICK j \in Q : j <= i /\ key[j] = key[i]
    OBVIOUS
  <2>2. j = i
    BY <1>1, <1>2, <2>1
  <2> QED BY <2>2
<1>3. ASSUME NEW i \in Q, \A j \in Q : j < i => key[j] # key[i], NEW j \in P, j < i
      PROVE  key[j] # key[i]
  <2>1. PICK k \in Q : k <= j /\ key[k] = key[j]
    OBVIOUS
  <2>2. k < i
    BY <1>1, <1>3, <2>1
  <2> QED BY <1>3, <2>1, <2>2
<1> QED BY <1>2, <1>3 DEF Firsts

\* An acknowledgement names its candidate's row, a detection its failure's.
Agreed(E) ==
    \A i, j \in DOMAIN E :
        /\ IsAck(E[i]) /\ IsAck(E[j]) /\ E[i].event = E[j].event
               => E[i].tx = E[j].tx /\ E[i].status = E[j].status /\ E[i].action = E[j].action
        /\ E[i].topic \in Annotation /\ E[j].topic \in Annotation /\ E[i].event = E[j].event
               => E[i].tx = E[j].tx /\ E[i].stage = E[j].stage
        /\ IsCapture(E[i]) /\ IsCapture(E[j]) /\ E[i].tx = E[j].tx => E[i].event = E[j].event

\* The last of the places P with key k is one of them.
LastOf(P, key, k) == Max({i \in P : key[i] = k})
InList(P) == \E n \in Nat : P \in SUBSET (1..n)

LEMMA LastOfKey ==
    ASSUME NEW P, InList(P), NEW key, NEW k, NEW i \in P, key[i] = k
    PROVE  LastOf(P, key, k) \in P /\ key[LastOf(P, key, k)] = k
<1>1. PICK n \in Nat : P \in SUBSET (1..n)
  BY DEF InList
<1>2. {j \in P : key[j] = k} \in SUBSET (1..n) /\ {j \in P : key[j] = k} # {}
  BY <1>1
<1>3. Max({j \in P : key[j] = k}) \in {j \in P : key[j] = k}
  BY <1>2, MaxOfPlaces
<1> QED BY <1>3 DEF LastOf

\* A dictionary of the events of E at the places P, of which key has the keys.
Dict(E, P, key) == [k \in {key[i] : i \in P} |-> E[LastOf(P, key, k)]]

\* With repeats left out it has the same keys, each with an event that has the key.
SameKeys(D, G, E, P, key) ==
    /\ DOMAIN D = DOMAIN G
    /\ \A k \in DOMAIN D : \E a, b \in P : key[a] = key[b] /\ D[k] = E[a] /\ G[k] = E[b]

LEMMA DictThinned ==
    ASSUME NEW E, NEW F, NEW P, InList(P), NEW Q \in SUBSET P, NEW key,
           \A i \in P : \E j \in Q : key[j] = key[i],
           \A i \in Q : F[i] = E[i]
    PROVE  SameKeys(Dict(E, P, key), Dict(F, Q, key), E, P, key)
<1>1. InList(Q)
  BY DEF InList
<1>2. ASSUME NEW k \in {key[i] : i \in P}
      PROVE  \E a, b \in P : /\ key[a] = key[b]
                             /\ Dict(E, P, key)[k] = E[a] /\ Dict(F, Q, key)[k] = E[b]
  <2>1. (\E i \in P : key[i] = k) /\ (\E i \in Q : key[i] = k)
    OBVIOUS
  <2>2. LastOf(P, key, k) \in P /\ key[LastOf(P, key, k)] = k
    BY <2>1, LastOfKey
  <2>3. LastOf(Q, key, k) \in Q /\ key[LastOf(Q, key, k)] = k
    BY <1>1, <2>1, LastOfKey
  <2>4. Dict(E, P, key)[k] = E[LastOf(P, key, k)] /\ Dict(F, Q, key)[k] = F[LastOf(Q, key, k)]
    BY <2>1 DEF Dict
  <2> QED BY <2>2, <2>3, <2>4
<1>3. {key[i] : i \in P} = {key[i] : i \in Q}
  OBVIOUS
<1>4. DOMAIN Dict(E, P, key) = {key[i] : i \in P} /\ DOMAIN Dict(F, Q, key) = {key[i] : i \in Q}
  BY DEF Dict
<1> QED BY <1>2, <1>3, <1>4 DEF SameKeys

\* The acknowledgements, the captures, the failures and the detections of E and F.
LEMMA AcksThinned ==
    ASSUME NEW E, NEW F, NEW n \in Nat, Thinned(E, F, n), Agreed(E)
    PROVE  RecoveryRows(E) = RecoveryRows(F)
<1> DEFINE P   == {i \in DOMAIN E : IsAck(E[i])}
           Q   == {i \in DOMAIN F : IsAck(F[i])}
           key == [i \in 1..n |-> E[i].event]
           row(e) == [tx |-> e.tx, status |-> e.status, action |-> e.action,
                      recovered |-> IF e.status = "RECOVERED" THEN 1 ELSE 0]
<1>1. /\ P \in SUBSET (1..n) /\ Q \in SUBSET P
      /\ \A i \in Q : F[i] = E[i] /\ F[i].event = key[i]
      /\ \A i \in P : i \in 1..n /\ E[i].event = key[i]
  BY DEF Thinned
<1>2. \A i \in P : \E j \in Q : key[j] = key[i]
  BY DEF Thinned
<1>3. SameKeys(Dict(E, P, key), Dict(F, Q, key), E, P, key)
  <2> HIDE DEF P, Q, key
  <2>1. InList(P) /\ Q \in SUBSET P /\ \A i \in Q : F[i] = E[i]
    BY <1>1 DEF InList
  <2> QED BY <1>2, <2>1, DictThinned
<1>4. Dict(E, P, key) = Latest(E, IsAck, LAMBDA e : e.event)
  <2>1. {E[i].event : i \in P} = {key[i] : i \in P}
        /\ \A k : {i \in P : E[i].event = k} = {i \in P : key[i] = k}
    BY <1>1
  <2>2. Latest(E, IsAck, LAMBDA e : e.event)
            = [k \in {E[i].event : i \in P} |-> E[Max({i \in P : E[i].event = k})]]
    BY DEF Latest
  <2> HIDE DEF P, key
  <2> QED BY <2>1, <2>2 DEF Dict, LastOf
<1>5. Dict(F, Q, key) = Latest(F, IsAck, LAMBDA e : e.event)
  <2>1. {F[i].event : i \in Q} = {key[i] : i \in Q}
        /\ \A k : {i \in Q : F[i].event = k} = {i \in Q : key[i] = k}
    BY <1>1
  <2>2. Latest(F, IsAck, LAMBDA e : e.event)
            = [k \in {F[i].event : i \in Q} |-> F[Max({i \in Q : F[i].event = k})]]
    BY DEF Latest
  <2> HIDE DEF Q, key
  <2> QED BY <2>1, <2>2 DEF Dict, LastOf
<1>6. PICK D : D = Dict(E, P, key)
  OBVIOUS
<1>7. PICK G : G = Dict(F, Q, key)
  OBVIOUS
<1>8. RecoveryRows(E) = [k \in DOMAIN D |-> row(D[k])]
  <2> HIDE DEF P, key
  <2> QED BY <1>4, <1>6 DEF RecoveryRows
<1>9. RecoveryRows(F) = [k \in DOMAIN G |-> row(G[k])]
  <2> HIDE DEF Q, key
  <2> QED BY <1>5, <1>7 DEF RecoveryRows
<1>10. DOMAIN D = DOMAIN G
  <2> HIDE DEF P, Q, key
  <2> QED BY <1>3, <1>6, <1>7 DEF SameKeys
<1>11. ASSUME NEW k \in DOMAIN D
       PROVE  row(D[k]) = row(G[k])
  <2>1. PICK a \in P, b \in P : key[a] = key[b] /\ D[k] = E[a] /\ G[k] = E[b]
    <3> HIDE DEF P, Q, key
    <3> QED BY <1>3, <1>6, <1>7 DEF SameKeys
  <2>2. E[a].event = E[b].event
    BY <1>1, <2>1
  <2> QED BY <2>1, <2>2 DEF Agreed
<1> HIDE DEF row
<1> QED BY <1>8, <1>9, <1>10, <1>11

LEMMA CapturesThinned ==
    ASSUME NEW E, NEW F, NEW n \in Nat, Thinned(E, F, n), Agreed(E)
    PROVE  /\ DOMAIN CaptureIndex(E) = DOMAIN CaptureIndex(F)
           /\ \A t \in DOMAIN CaptureIndex(E) :
                  CaptureIndex(E)[t].event = CaptureIndex(F)[t].event
<1> DEFINE P   == {i \in DOMAIN E : IsCapture(E[i])}
           Q   == {i \in DOMAIN F : IsCapture(F[i])}
           key == [i \in 1..n |-> E[i].tx]
<1>1. /\ P \in SUBSET (1..n) /\ Q \in SUBSET P
      /\ \A i \in Q : F[i] = E[i] /\ F[i].tx = key[i]
      /\ \A i \in P : i \in 1..n /\ E[i].tx = key[i]
  BY DEF Thinned
<1>2. \A i \in P : \E j \in Q : key[j] = key[i]
  BY DEF Thinned
<1>3. SameKeys(Dict(E, P, key), Dict(F, Q, key), E, P, key)
  <2> HIDE DEF P, Q, key
  <2>1. InList(P) /\ Q \in SUBSET P /\ \A i \in Q : F[i] = E[i]
    BY <1>1 DEF InList
  <2> QED BY <1>2, <2>1, DictThinned
<1>4. Dict(E, P, key) = CaptureIndex(E)
  <2>1. {E[i].tx : i \in P} = {key[i] : i \in P}
        /\ \A k : {i \in P : E[i].tx = k} = {i \in P : key[i] = k}
    BY <1>1
  <2>2. CaptureIndex(E) = [k \in {E[i].tx : i \in P} |-> E[Max({i \in P : E[i].tx = k})]]
    BY DEF CaptureIndex, Latest
  <2> HIDE DEF P, key
  <2> QED BY <2>1, <2>2 DEF Dict, LastOf
<1>5. Dict(F, Q, key) = CaptureIndex(F)
  <2>1. {F[i].tx : i \in Q} = {key[i] : i \in Q}
        /\ \A k : {i \in Q : F[i].tx = k} = {i \in Q : key[i] = k}
    BY <1>1
  <2>2. CaptureIndex(F) = [k \in {F[i].tx : i \in Q} |-> F[Max({i \in Q : F[i].tx = k})]]
    BY DEF CaptureIndex, Latest
  <2> HIDE DEF Q, key
  <2> QED BY <2>1, <2>2 DEF Dict, LastOf
<1>6. SameKeys(CaptureIndex(E), CaptureIndex(F), E, P, key)
  BY <1>3, <1>4, <1>5
<1>7. ASSUME NEW t \in DOMAIN CaptureIndex(E)
      PROVE  CaptureIndex(E)[t].event = CaptureIndex(F)[t].event
  <2>1. PICK a \in P, b \in P : /\ key[a] = key[b]
                                /\ CaptureIndex(E)[t] = E[a] /\ CaptureIndex(F)[t] = E[b]
    <3> HIDE DEF P, key
    <3> QED BY <1>6 DEF SameKeys
  <2>2. E[a].tx = E[b].tx
    BY <1>1, <2>1
  <2> QED BY <2>1, <2>2 DEF Agreed
<1> HIDE DEF P, key
<1> QED BY <1>6, <1>7 DEF SameKeys

LEMMA FailuresThinned ==
    ASSUME NEW E, NEW F, NEW n \in Nat, Thinned(E, F, n)
    PROVE  /\ DOMAIN FailuresShown(E) = DOMAIN FailuresShown(F)
           /\ {E[i].tx : i \in DOMAIN E} = {F[i].tx : i \in DOMAIN F}
<1> DEFINE failed(e) == e.status = "failure" /\ e.stage # "settlement" /\ e.topic \notin Derived
<1>1. /\ DOMAIN FailuresShown(E) = {E[i].event : i \in {i \in DOMAIN E : failed(E[i])}}
      /\ DOMAIN FailuresShown(F) = {F[i].event : i \in {i \in DOMAIN F : failed(F[i])}}
  BY DEF FailuresShown, Latest
<1> HIDE DEF failed
<1>2. \A i \in DOMAIN F : i \in DOMAIN E /\ F[i] = E[i]
  BY DEF Thinned
<1>3. \A i \in DOMAIN E : \E j \in DOMAIN F : F[j] = E[i]
  BY DEF Thinned
<1> QED BY <1>1, <1>2, <1>3

LEMMA DetectionsThinned ==
    ASSUME NEW E, NEW F, NEW n \in Nat, Thinned(E, F, n), Agreed(E)
    PROVE  DetectionRows(E) = DetectionRows(F)
<1> DEFINE assessed(e) == e.topic \in Annotation
           rejected(e) == IsBatchEvent(e) /\ BatchStatus[e.type] = "FAILED"
           id(e) == IF assessed(e) THEN <<"event", e.event>> ELSE <<"batch", e.batch>>
           P   == {i \in DOMAIN E : assessed(E[i]) \/ rejected(E[i])}
           Q   == {i \in DOMAIN F : assessed(F[i]) \/ rejected(F[i])}
           key == [i \in 1..n |-> id(E[i])]
           row(e) == IF assessed(e)
                     THEN [tx |-> e.tx, stage |-> e.stage,
                           recoverability |->
                               IF e.stage \in {"checkout", "payment", "authorization", "capture"}
                               THEN "RECOVERABLE" ELSE "OBSERVED"]
                     ELSE [tx |-> None, stage |-> "settlement", recoverability |-> "ESCALATED"]
<1>1. /\ P \in SUBSET (1..n) /\ Q \in SUBSET P
      /\ \A i \in Q : F[i] = E[i] /\ id(F[i]) = key[i]
      /\ \A i \in P : i \in 1..n /\ id(E[i]) = key[i]
  <2> HIDE DEF id, assessed, rejected
  <2> QED BY DEF Thinned
<1>2. \A i \in P : \E j \in Q : key[j] = key[i]
  <2> HIDE DEF id, assessed, rejected
  <2> QED BY DEF Thinned
<1>3. SameKeys(Dict(E, P, key), Dict(F, Q, key), E, P, key)
  <2> HIDE DEF P, Q, key
  <2>1. InList(P) /\ Q \in SUBSET P /\ \A i \in Q : F[i] = E[i]
    BY <1>1 DEF InList
  <2> QED BY <1>2, <2>1, DictThinned
<1>4. PICK D : D = Dict(E, P, key)
  OBVIOUS
<1>5. PICK G : G = Dict(F, Q, key)
  OBVIOUS
<1>6. DetectionRows(E) = [k \in DOMAIN D |-> row(D[k])]
  <2>1. {id(E[i]) : i \in P} = {key[i] : i \in P}
        /\ \A k : {i \in P : id(E[i]) = k} = {i \in P : key[i] = k}
    <3> HIDE DEF id, P, key
    <3> QED BY <1>1
  <2>2. D = [k \in {id(E[i]) : i \in P} |-> E[Max({i \in P : id(E[i]) = k})]]
    <3> HIDE DEF id, P, key
    <3> QED BY <1>4, <2>1 DEF Dict, LastOf
  <2> QED BY <2>2 DEF DetectionRows, Latest
<1>7. DetectionRows(F) = [k \in DOMAIN G |-> row(G[k])]
  <2>1. {id(F[i]) : i \in Q} = {key[i] : i \in Q}
        /\ \A k : {i \in Q : id(F[i]) = k} = {i \in Q : key[i] = k}
    <3> HIDE DEF id, Q, key
    <3> QED BY <1>1
  <2>2. G = [k \in {id(F[i]) : i \in Q} |-> F[Max({i \in Q : id(F[i]) = k})]]
    <3> HIDE DEF id, Q, key
    <3> QED BY <1>5, <2>1 DEF Dict, LastOf
  <2> QED BY <2>2 DEF DetectionRows, Latest
<1>8. DOMAIN D = DOMAIN G
  <2> HIDE DEF P, Q, key
  <2> QED BY <1>3, <1>4, <1>5 DEF SameKeys
<1>9. ASSUME NEW k \in DOMAIN D
      PROVE  row(D[k]) = row(G[k])
  <2>1. PICK a \in P, b \in P : key[a] = key[b] /\ D[k] = E[a] /\ G[k] = E[b]
    <3> HIDE DEF P, Q, key
    <3> QED BY <1>3, <1>4, <1>5 DEF SameKeys
  <2>2. a \in DOMAIN E /\ b \in DOMAIN E /\ id(E[a]) = id(E[b])
    <3> HIDE DEF id
    <3> QED BY <1>1, <2>1
  <2>3. assessed(E[a]) <=> assessed(E[b])
    BY <2>2
  <2>4. assessed(E[a]) => E[a].event = E[b].event
    BY <2>2, <2>3
  <2> QED BY <2>1, <2>2, <2>3, <2>4 DEF Agreed
<1> HIDE DEF row
<1> QED BY <1>6, <1>7, <1>8, <1>9

\* The places at which the keys first come, in order.
LEMMA PendingThinned ==
    ASSUME NEW E, NEW F, NEW n \in Nat, Thinned(E, F, n),
           Batches(E).assigned = Batches(F).assigned
    PROVE  PendingCaptures(E) = PendingCaptures(F)
<1>1. PICK A : A = Batches(E).assigned
  OBVIOUS
<1> DEFINE P   == {i \in DOMAIN E : IsCapture(E[i]) /\ E[i].tx \notin A}
           Q   == {i \in DOMAIN F : IsCapture(F[i]) /\ F[i].tx \notin A}
           key == [i \in 1..n |-> E[i].tx]
           U   == {i \in P : \A j \in P : j < i => E[j].tx # E[i].tx}
           V   == {i \in Q : \A j \in Q : j < i => F[j].tx # F[i].tx}
<1>2. /\ P \in SUBSET (1..n) /\ Q \in SUBSET P
      /\ \A i \in Q : F[i] = E[i] /\ F[i].tx = key[i]
      /\ \A i \in P : i \in 1..n /\ E[i].tx = key[i]
      /\ \A i \in P : \E j \in Q : j <= i /\ key[j] = key[i]
  BY DEF Thinned
<1>3. U = V
  <2>1. /\ \A i \in P : E[i].tx = key[i]
        /\ \A i \in Q : F[i].tx = key[i]
    <3> HIDE DEF P, Q, key
    <3> QED BY <1>2
  <2>2. U = Firsts(P, key)
    <3> HIDE DEF P, key
    <3> QED BY <2>1 DEF Firsts
  <2>3. V = Firsts(Q, key)
    <3> HIDE DEF Q, key
    <3> QED BY <2>1 DEF Firsts
  <2> HIDE DEF P, Q, key, U, V
  <2>4. P \in SUBSET Nat /\ Q \in SUBSET P /\ \A i \in P : \E j \in Q : j <= i /\ key[j] = key[i]
    BY <1>2
  <2>5. Firsts(P, key) = Firsts(Q, key)
    BY <2>4, FirstOfKeys
  <2> QED BY <2>2, <2>3, <2>5
<1>4. PendingCaptures(E) = [k \in DOMAIN Ascending(U) |-> E[Ascending(U)[k]].tx]
  BY <1>1 DEF PendingCaptures, KeysInOrder
<1>5. PendingCaptures(F) = [k \in DOMAIN Ascending(V) |-> F[Ascending(V)[k]].tx]
  BY <1>1 DEF PendingCaptures, KeysInOrder
<1>6. ASSUME NEW k \in DOMAIN Ascending(V)
      PROVE  Ascending(V)[k] \in Q
  <2>1. V \in SUBSET Nat /\ V \in SUBSET (1..n) /\ V \subseteq Q
    <3> HIDE DEF P, Q, key
    <3>1. V \subseteq Q
      OBVIOUS
    <3> HIDE DEF V
    <3> QED BY <1>2, <3>1
  <2>2. IsFiniteSet(V)
    <3>1. 1 \in Int /\ n \in Int
      OBVIOUS
    <3> HIDE DEF V
    <3> QED BY <2>1, <3>1, FS_Interval, FS_Subset
  <2> HIDE DEF V, Q
  <2>3. Ascending(V) \in [1..Cardinality(V) -> V]
    BY <2>1, <2>2, AscendingLists
  <2> QED BY <2>1, <2>3
<1>7. \A k \in DOMAIN Ascending(V) : F[Ascending(V)[k]].tx = E[Ascending(V)[k]].tx
  <2> HIDE DEF Q, V, key
  <2> QED BY <1>2, <1>6
<1> HIDE DEF U, V
<1> QED BY <1>3, <1>4, <1>5, <1>7

LEMMA LinksThinned ==
    ASSUME NEW E, NEW F, NEW n \in Nat, Thinned(E, F, n), RecoveryRows(E) = RecoveryRows(F)
    PROVE  CustomerView(E) = CustomerView(F)
<1>1. PICK rows : rows = RecoveryRows(E) /\ rows = RecoveryRows(F)
  OBVIOUS
<1> DEFINE sent(e) == IsAck(e) /\ rows[e.event].action = "SEND_PAYMENT_LINK"
           P   == {i \in DOMAIN E : sent(E[i])}
           Q   == {i \in DOMAIN F : sent(F[i])}
           key == [i \in 1..n |-> E[i].event]
           U   == {i \in P : \A j \in P : j < i => E[j].event # E[i].event}
           V   == {i \in Q : \A j \in Q : j < i => F[j].event # F[i].event}
<1>2. /\ P \in SUBSET (1..n) /\ Q \in SUBSET P
      /\ \A i \in Q : F[i] = E[i] /\ F[i].event = key[i]
      /\ \A i \in P : i \in 1..n /\ E[i].event = key[i]
      /\ \A i \in P : \E j \in Q : j <= i /\ key[j] = key[i]
  <2> HIDE DEF sent
  <2> QED BY DEF Thinned
<1>3. U = V
  <2>1. /\ \A i \in P : E[i].event = key[i]
        /\ \A i \in Q : F[i].event = key[i]
    <3> HIDE DEF P, Q, key
    <3> QED BY <1>2
  <2>2. U = Firsts(P, key)
    <3> HIDE DEF P, key
    <3> QED BY <2>1 DEF Firsts
  <2>3. V = Firsts(Q, key)
    <3> HIDE DEF Q, key
    <3> QED BY <2>1 DEF Firsts
  <2> HIDE DEF P, Q, key, U, V
  <2>4. P \in SUBSET Nat /\ Q \in SUBSET P /\ \A i \in P : \E j \in Q : j <= i /\ key[j] = key[i]
    BY <1>2
  <2>5. Firsts(P, key) = Firsts(Q, key)
    BY <2>4, FirstOfKeys
  <2> QED BY <2>2, <2>3, <2>5
<1>4. PICK links : links = [k \in DOMAIN Ascending(U) |-> E[Ascending(U)[k]].event]
  OBVIOUS
<1>5. ASSUME NEW k \in DOMAIN Ascending(V)
      PROVE  Ascending(V)[k] \in Q
  <2>1. V \in SUBSET Nat /\ V \in SUBSET (1..n) /\ V \subseteq Q
    <3> HIDE DEF P, Q, key
    <3>1. V \subseteq Q
      OBVIOUS
    <3> HIDE DEF V
    <3> QED BY <1>2, <3>1
  <2>2. IsFiniteSet(V)
    <3>1. 1 \in Int /\ n \in Int
      OBVIOUS
    <3> HIDE DEF V
    <3> QED BY <2>1, <3>1, FS_Interval, FS_Subset
  <2> HIDE DEF V, Q
  <2>3. Ascending(V) \in [1..Cardinality(V) -> V]
    BY <2>1, <2>2, AscendingLists
  <2> QED BY <2>1, <2>3
<1>6. links = [k \in DOMAIN Ascending(V) |-> F[Ascending(V)[k]].event]
  <2>1. \A k \in DOMAIN Ascending(V) : F[Ascending(V)[k]].event = E[Ascending(V)[k]].event
    <3> HIDE DEF Q, V, key
    <3> QED BY <1>2, <1>5
  <2> HIDE DEF U, V
  <2> QED BY <1>3, <1>4, <2>1
<1> DEFINE last == SubSeq(links, Len(links) - Min({Len(links), ViewSize}) + 1, Len(links))
<1>7. CustomerView(E) = [i \in 1..Len(last) |-> rows[last[i]]]
  BY <1>1, <1>4 DEF CustomerView, KeysInOrder
<1>8. CustomerView(F) = [i \in 1..Len(last) |-> rows[last[i]]]
  BY <1>1, <1>6 DEF CustomerView, KeysInOrder
<1> QED BY <1>7, <1>8

\* The record of an overview with its event_rate left out.
LEMMA RateAside ==
    ASSUME NEW a, NEW b, NEW c, NEW d, NEW e, NEW f, NEW g, NEW h, NEW i, NEW j, NEW r
    PROVE  [[transactions_processed |-> a, failures |-> b, recoverable |-> c, recovered |-> d,
             escalated |-> e, amount_captured |-> f, amount_recovered |-> g,
             amount_settled |-> h, settlement_at_risk |-> i, batch_health |-> j,
             event_rate |-> r] EXCEPT !.event_rate = 0]
               = [transactions_processed |-> a, failures |-> b, recoverable |-> c,
                  recovered |-> d, escalated |-> e, amount_captured |-> f,
                  amount_recovered |-> g, amount_settled |-> h, settlement_at_risk |-> i,
                  batch_health |-> j, event_rate |-> 0]
  OBVIOUS

\* The rows of batches with an outcome, the sums and counts of them, and the other
\* figures of the overview.
LEMMA OverviewThinned ==
    ASSUME NEW E, NEW F, NEW n \in Nat, Thinned(E, F, n), Agreed(E),
           Alike(Batches(E), Batches(F))
    PROVE  Figures(E) = Figures(F)
<1>1. PICK rows : rows = SettlementRows(E)
  OBVIOUS
<1>2. PICK part : part = SettlementRows(F)
  OBVIOUS
<1> DEFINE in(s)   == {b \in DOMAIN rows : rows[b].status = s}
           of(s)   == {b \in DOMAIN part : part[b].status = s}
<1>3. ASSUME NEW s \in Final
      PROVE  in(s) = of(s) /\ \A b \in in(s) : rows[b] = part[b]
  BY <1>1, <1>2 DEF Alike, FinalRows, SettlementRows
<1>4. "SUCCEEDED" \in Final /\ "FAILED" \in Final
  BY DEF Final
<1>5. /\ [b \in in("SUCCEEDED") |-> rows[b].settled] = [b \in of("SUCCEEDED") |-> part[b].settled]
      /\ [b \in in("FAILED") |-> rows[b].at_stake] = [b \in of("FAILED") |-> part[b].at_stake]
      /\ in("SUCCEEDED") = of("SUCCEEDED") /\ in("FAILED") = of("FAILED")
  <2> HIDE DEF in, of
  <2> QED BY <1>3, <1>4
<1>6. PICK S : S = SumFunction([b \in in("SUCCEEDED") |-> rows[b].settled])
  OBVIOUS
<1>7. PICK R : R = SumFunction([b \in in("FAILED") |-> rows[b].at_stake])
  OBVIOUS
<1>8. PICK recovery : recovery = RecoveryRows(E) /\ recovery = RecoveryRows(F)
  BY AcksThinned
<1>9. /\ DOMAIN CaptureIndex(E) = DOMAIN CaptureIndex(F)
      /\ DetectionRows(E) = DetectionRows(F)
      /\ DOMAIN FailuresShown(E) = DOMAIN FailuresShown(F)
      /\ {E[i].tx : i \in DOMAIN E} = {F[i].tx : i \in DOMAIN F}
  BY CapturesThinned, DetectionsThinned, FailuresThinned
<1> DEFINE view(G, failed, succeeded, rate) ==
        [transactions_processed |-> Cardinality({G[i].tx : i \in DOMAIN G} \ {None}),
         failures           |-> Cardinality(DOMAIN FailuresShown(G)),
         recoverable        |-> Cardinality(DOMAIN DetectionRows(G)),
         recovered          |-> Cardinality({k \in DOMAIN recovery :
                                                 recovery[k].status = "RECOVERED"}),
         escalated          |-> Cardinality(failed),
         amount_captured    |-> Cardinality(DOMAIN CaptureIndex(G)),
         amount_recovered   |-> Cardinality({k \in DOMAIN recovery :
                                                 recovery[k].status = "RECOVERED"}),
         amount_settled     |-> S,
         settlement_at_risk |-> R,
         batch_health       |-> IF R > 0 THEN "FAILED"
                                ELSE IF succeeded # {} THEN "HEALTHY" ELSE "COLLECTING",
         event_rate         |-> rate]
<1>10. Overview(E) = view(E, in("FAILED"), in("SUCCEEDED"), Cardinality(DOMAIN E))
  BY <1>1, <1>6, <1>7, <1>8 DEF Overview
<1>11. Overview(F) = view(F, of("FAILED"), of("SUCCEEDED"), Cardinality(DOMAIN F))
  <2>1. /\ S = SumFunction([b \in of("SUCCEEDED") |-> part[b].settled])
        /\ R = SumFunction([b \in of("FAILED") |-> part[b].at_stake])
    BY <1>5, <1>6, <1>7
  <2> QED BY <1>2, <1>8, <2>1 DEF Overview
\* But for the rate the two are one record.
<1>12. \A r : view(E, in("FAILED"), in("SUCCEEDED"), r)
                  = view(F, of("FAILED"), of("SUCCEEDED"), r)
  <2> HIDE DEF in, of
  <2> QED BY <1>5, <1>9
<1>13. \A r : [view(F, of("FAILED"), of("SUCCEEDED"), r) EXCEPT !.event_rate = 0]
                 = view(F, of("FAILED"), of("SUCCEEDED"), 0)
  <2> SUFFICES ASSUME NEW r
               PROVE  [view(F, of("FAILED"), of("SUCCEEDED"), r) EXCEPT !.event_rate = 0]
                         = view(F, of("FAILED"), of("SUCCEEDED"), 0)
    OBVIOUS
  <2>1. PICK a : a = Cardinality({F[i].tx : i \in DOMAIN F} \ {None})
    OBVIOUS
  <2>2. PICK b : b = Cardinality(DOMAIN FailuresShown(F))
    OBVIOUS
  <2>3. PICK c : c = Cardinality(DOMAIN DetectionRows(F))
    OBVIOUS
  <2>4. PICK d : d = Cardinality({k \in DOMAIN recovery : recovery[k].status = "RECOVERED"})
    OBVIOUS
  <2>5. PICK e : e = Cardinality(of("FAILED"))
    OBVIOUS
  <2>6. PICK f : f = Cardinality(DOMAIN CaptureIndex(F))
    OBVIOUS
  <2>7. PICK h : h = (IF R > 0 THEN "FAILED"
                      ELSE IF of("SUCCEEDED") # {} THEN "HEALTHY" ELSE "COLLECTING")
    OBVIOUS
  <2> DEFINE shown(q) ==
        [transactions_processed |-> a, failures |-> b, recoverable |-> c, recovered |-> d,
         escalated |-> e, amount_captured |-> f, amount_recovered |-> d,
         amount_settled |-> S, settlement_at_risk |-> R, batch_health |-> h,
         event_rate |-> q]
  <2>8. \A q : view(F, of("FAILED"), of("SUCCEEDED"), q) = shown(q)
    <3> HIDE DEF of
    <3> QED BY <2>1, <2>2, <2>3, <2>4, <2>5, <2>6, <2>7
  <2>9. [shown(r) EXCEPT !.event_rate = 0] = shown(0)
    BY RateAside
  <2> HIDE DEF view, shown, of
  <2> QED BY <2>8, <2>9
<1> HIDE DEF view, in, of
<1> QED BY <1>10, <1>11, <1>12, <1>13 DEF Figures

\* Behind equal rows the same money.
LEMMA TrailsThinned ==
    ASSUME NEW E, NEW F, NEW n \in Nat, Thinned(E, F, n), Agreed(E),
           Alike(Batches(E), Batches(F))
    PROVE  /\ MoneyTrails(E).collect = MoneyTrails(F).collect
           /\ DOMAIN MoneyTrails(E).batch = DOMAIN Batches(E).rows
           /\ DOMAIN MoneyTrails(F).batch = DOMAIN Batches(F).rows
           /\ \A b \in DOMAIN Batches(E).rows :
                  MoneyTrails(E).batch[b].row = Batches(E).rows[b]
           /\ \A b \in DOMAIN Batches(F).rows :
                  MoneyTrails(F).batch[b].row = Batches(F).rows[b]
           /\ \A b \in FinalRows(Batches(E)) : MoneyTrails(E).batch[b] = MoneyTrails(F).batch[b]
<1>1. PICK C : C = CaptureIndex(E)
  OBVIOUS
<1>2. PICK D : D = CaptureIndex(F)
  OBVIOUS
<1>3. ASSUME NEW row
      PROVE  Trail(row, C) = Trail(row, D)
  <2>1. DOMAIN C = DOMAIN D /\ \A t \in DOMAIN C : C[t].event = D[t].event
    BY <1>1, <1>2, CapturesThinned
  <2> QED BY <2>1 DEF Trail
<1>4. PICK pages : pages = CollectingRows(E) /\ pages = CollectingRows(F)
  <2>1. PendingCaptures(E) = PendingCaptures(F)
    BY PendingThinned DEF Alike
  <2> QED BY <2>1 DEF CollectingRows
<1>5. PICK rows : rows = Batches(E).rows
  OBVIOUS
<1>6. PICK part : part = Batches(F).rows
  OBVIOUS
<1>7. MoneyTrails(E) = [batch   |-> [b \in DOMAIN rows |-> Trail(rows[b], C)],
                        collect |-> [k \in DOMAIN pages |-> Trail(pages[k], C)]]
  BY <1>1, <1>4, <1>5 DEF MoneyTrails, SettlementRows
<1>8. MoneyTrails(F) = [batch   |-> [b \in DOMAIN part |-> Trail(part[b], D)],
                        collect |-> [k \in DOMAIN pages |-> Trail(pages[k], D)]]
  BY <1>2, <1>4, <1>6 DEF MoneyTrails, SettlementRows
<1>9. \A row, captures : Trail(row, captures).row = row
  BY DEF Trail
<1>10. \A b \in FinalRows(Batches(E)) : b \in DOMAIN rows /\ b \in DOMAIN part /\ rows[b] = part[b]
  BY <1>5, <1>6 DEF Alike, FinalRows
<1> QED BY <1>3, <1>5, <1>6, <1>7, <1>8, <1>9, <1>10

\* The records of one history agree on what the pages tell of them.
LEMMA EventsAgree ==
    ASSUME HistoryOK, PlacesOK, Unambiguous, NEW s, NEW n \in Nat, DOMAIN s = 1..n, Len(s) = n,
           AllExist(s)
    PROVE  Agreed(Events(s))
<1>1. DOMAIN Events(s) = 1..n /\ \A i \in 1..n : Events(s)[i] = Content(s[i])
  BY DEF Events
<1>2. \A i \in 1..n : Events(s)[i] \in AllRecords
  BY <1>1, ContentInHistory DEF AllExist, AllRecords
<1>3. PICK E : E = Events(s)
  OBVIOUS
<1>4. ASSUME NEW i \in DOMAIN E, NEW j \in DOMAIN E
      PROVE  /\ IsAck(E[i]) /\ IsAck(E[j]) /\ E[i].event = E[j].event
                    => <<E[i].tx, E[i].status, E[i].action>> = <<E[j].tx, E[j].status, E[j].action>>
             /\ E[i].topic \in Annotation /\ E[j].topic \in Annotation /\ E[i].event = E[j].event
                    => <<E[i].tx, E[i].stage>> = <<E[j].tx, E[j].stage>>
             /\ IsCapture(E[i]) /\ IsCapture(E[j]) /\ E[i].tx = E[j].tx => E[i].event = E[j].event
  <2>1. E[i] \in AllRecords /\ E[j] \in AllRecords
    BY <1>1, <1>2, <1>3
  <2> QED BY <2>1 DEF Unambiguous
<1> QED BY <1>3, <1>4 DEF Agreed

\* The first copies of a list's records thin it out.
LEMMA FirstCopiesThin ==
    ASSUME NEW s, NEW n \in Nat, DOMAIN s = 1..n
    PROVE  Thinned(Events(s), Events(FirstCopies(s)), n)
<1>1. PICK E : E = Events(s)
  OBVIOUS
<1>2. PICK F : F = Events(FirstCopies(s))
  OBVIOUS
<1>3. DOMAIN E = 1..n /\ \A i \in 1..n : E[i] = Content(s[i])
  BY <1>1 DEF Events
<1>4. DOMAIN F = FirstPlaces(s) /\ \A i \in FirstPlaces(s) : F[i] = Content(s[i])
  BY <1>2 DEF Events, FirstCopies
<1>5. FirstPlaces(s) \subseteq 1..n
  BY DEF FirstPlaces
<1>6. ASSUME NEW i \in 1..n
      PROVE  \E j \in FirstPlaces(s) : j <= i /\ s[j] = s[i]
  <2> DEFINE T == {j \in 1..n : s[j] = s[i]}
  <2>1. T \in SUBSET Nat /\ i \in T
    OBVIOUS
  <2>2. PICK j \in T : \A k \in T : j <= k
    <3> HIDE DEF T
    <3> QED BY <2>1, LeastNat
  <2>3. ASSUME NEW k \in 1..(j - 1)
        PROVE  s[k] # s[j]
    <3>1. j \in 1..n /\ k \in 1..n /\ ~ (j <= k)
      OBVIOUS
    <3> QED BY <2>2, <3>1
  <2>4. j \in FirstPlaces(s)
    BY <2>3 DEF FirstPlaces
  <2> QED BY <2>1, <2>2, <2>4
<1>7. \A i \in 1..n : \E j \in DOMAIN F : j <= i /\ F[j] = E[i]
  <2> SUFFICES ASSUME NEW i \in 1..n
               PROVE  \E j \in DOMAIN F : j <= i /\ F[j] = E[i]
    OBVIOUS
  <2>1. PICK j \in FirstPlaces(s) : j <= i /\ s[j] = s[i]
    BY <1>6
  <2> QED BY <1>3, <1>4, <2>1
<1> QED BY <1>1, <1>2, <1>3, <1>4, <1>5, <1>7 DEF Thinned

\* A bridge that is killed between its write and its commit appends records again; the
\* pages in Pages (all but the lists of records and the overview's event_rate, which
\* count every copy) are those of the snapshot without the second copies.
THEOREM RepeatsAreInvisibleHolds == Spec => []RepeatsAreInvisible
<1>1. TypeOK /\ HistoryOK /\ ViewInv => RepeatsAreInvisible
  <2> SUFFICES ASSUME TypeOK, HistoryOK, ViewInv, Unambiguous
               PROVE  Pages(Shown) = Pages(Events(FirstCopies(snapshot)))
    BY DEF RepeatsAreInvisible
  <2>1. PICK E : E = Shown
    OBVIOUS
  <2>2. PICK F : F = Events(FirstCopies(snapshot))
    OBVIOUS
  <2>3. PICK n \in Nat : n = Len(snapshot) /\ DOMAIN snapshot = 1..n
    BY DEF TypeOK, BridgeTypeOK
  <2>4. Thinned(E, F, n)
    BY <2>1, <2>2, <2>3, FirstCopiesThin DEF Shown
  <2>5. Agreed(E) /\ Consistent(E)
    BY <2>1, <2>3, EventsAgree, EventsConsistent DEF Shown, ViewInv, RecordsExist
  <2>6. Alike(Batches(E), Batches(F))
    BY <2>4, <2>5, BatchesAlike
  <2>7. RecoveryRows(E) = RecoveryRows(F) /\ DetectionRows(E) = DetectionRows(F)
    BY <2>4, <2>5, AcksThinned, DetectionsThinned
  <2>8. CustomerView(E) = CustomerView(F)
    BY <2>4, <2>7, LinksThinned
  <2>9. Figures(E) = Figures(F)
    BY <2>4, <2>5, <2>6, OverviewThinned
  <2>10. PICK x : x = MoneyTrails(E)
    OBVIOUS
  <2>11. PICK y : y = MoneyTrails(F)
    OBVIOUS
  <2>12. /\ x.collect = y.collect
         /\ DOMAIN x.batch = DOMAIN Batches(E).rows /\ DOMAIN y.batch = DOMAIN Batches(F).rows
         /\ \A b \in DOMAIN Batches(E).rows : x.batch[b].row = Batches(E).rows[b]
         /\ \A b \in DOMAIN Batches(F).rows : y.batch[b].row = Batches(F).rows[b]
         /\ \A b \in FinalRows(Batches(E)) : x.batch[b] = y.batch[b]
    BY <2>4, <2>5, <2>6, <2>10, <2>11, TrailsThinned
  <2>13. /\ {b \in DOMAIN x.batch : x.batch[b].row.status \in Final} = FinalRows(Batches(E))
         /\ {b \in DOMAIN y.batch : y.batch[b].row.status \in Final} = FinalRows(Batches(F))
    BY <2>12 DEF FinalRows
  <2>14. FinalRows(Batches(E)) = FinalRows(Batches(F))
    BY <2>6 DEF Alike
  <2>15. [b \in FinalRows(Batches(E)) |-> x.batch[b]] = [b \in FinalRows(Batches(F)) |-> y.batch[b]]
    BY <2>12, <2>14
  <2>16. Pages(E) = <<Figures(E), DetectionRows(E), CustomerView(E), x.collect,
                      [b \in FinalRows(Batches(E)) |-> x.batch[b]]>>
    BY <2>10, <2>13 DEF Pages
  <2>17. Pages(F) = <<Figures(F), DetectionRows(F), CustomerView(F), y.collect,
                      [b \in FinalRows(Batches(F)) |-> y.batch[b]]>>
    BY <2>11, <2>13 DEF Pages
  <2>18. Pages(E) = Pages(F)
    BY <2>7, <2>8, <2>9, <2>12, <2>15, <2>16, <2>17
  <2> QED BY <2>1, <2>2, <2>18
<1> QED
  BY <1>1, HistoryInit, HistoryStep, TypeCorrect, ViewInvInit, ViewInvStep, PTL DEF Spec
=============================================================================
