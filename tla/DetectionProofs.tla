--------------------------- MODULE DetectionProofs ---------------------------
(***************************************************************************)
(* Theorems about Detection, for every set of transactions, every finite   *)
(* set of gateways, all lifecycles and follow-ups, and every bound.        *)
(***************************************************************************)
EXTENDS Detection, IntervalInduction, FiniteSetTheorems, TLAPS

-----------------------------------------------------------------------------
(* The inductive invariant *)

\* What is published of t was built by a producer.
ScriptTyped == script \in [Tx -> Seq(SourceEvent)] /\ \A t \in Tx : Len(script[t]) <= MaxEvents

\* The topic of a stage has events of that stage that are in the script.
Belongs(n, s, t)  == n \in Events(t) /\ StageOf[script[t][n].type] = s
LogsAgree == \A s \in Stage, t \in Tx : \A i \in 1..Len(log[s][t]) : Belongs(log[s][t][i], s, t)
InOrder ==
    \A s \in Stage, t \in Tx :
        committed[s][t] <= position[s][t] /\ position[s][t] <= Len(log[s][t])

\* Event x has arrived on the topic of its stage.
Arrived(x) ==
    /\ x \in Sources /\ x[2] <= Len(script[x[1]])
    /\ \E i \in 1..Len(log[StageOf[script[x[1]][x[2]].type]][x[1]]) :
           log[StageOf[script[x[1]][x[2]].type]][x[1]][i] = x[2]
SeenArrived == \A x \in seen : Arrived(x)

\* The producer holds records only while publish is under way, and those of the
\* current record alone.
OutboxFits ==
    /\ pc \in {"idle", "down", "detected"} => outbox = {}
    /\ pc = "offered" => outbox \subseteq {"detection.events"}

\* The record of x is on topic p or given up; or it still has to go there.
Failing(x)    == x[2] <= Len(script[x[1]]) /\ IsFailure(script[x[1]][x[2]])
Settled(p, x) == Published(p, x) \/ x \in excused[p]
Owed(p)       == \/ pc = "detected" \/ p \in outbox
                 \/ pc = "offered" /\ p = "recovery.events"
InHand(x)     == pc \notin {"idle", "down"} /\ x = <<current.tx, current.event>>
Handled(p, x) == Settled(p, x) \/ (InHand(x) /\ Owed(p))

CommittedSettled ==
    \A x \in Sources : Failing(x) /\ HasRead(committed, x) => \A p \in Topic : Settled(p, x)
ReadHandled ==
    \A x \in Sources : Failing(x) /\ HasRead(position, x) => \A p \in Topic : Handled(p, x)
SeenHandled == \A x \in seen : Failing(x) => \A p \in Topic : Handled(p, x)

\* Two different failures of a provider at a stage.
Fault(x, k) == HasFailed(x) /\ KeyOf(script[x[1]][x[2]]) = k
Supported(s, cause) ==
    cause # 0 => \E x, y \in Sources : x # y /\ Fault(x, <<s, cause>>) /\ Fault(y, <<s, cause>>)
RecordFits(r) ==
    /\ <<r.tx, r.event>> \in Sources
    /\ HasFailed(<<r.tx, r.event>>)
    /\ Supported(StageOf[script[r.tx][r.event].type], r.cause)
CurrentFits == pc \notin {"idle", "down"} => RecordFits(current) /\ <<current.tx, current.event>> \in seen
PublishedFits ==
    \A p \in Topic, t \in Tx : \A i \in 1..Len(published[p][t]) :
        published[p][t][i].tx = t /\ RecordFits(published[p][t][i])

\* The statistics count events that were seen.
StatsSupported ==
    \A k \in Key :
        /\ stats[k].failures > 0 => \E x \in seen : Fault(x, k)
        /\ stats[k].failures > 1 => \E x, y \in seen : x # y /\ Fault(x, k) /\ Fault(y, k)

\* How low an average may be after so many events and failures.
Floor(total, failures) ==
    CASE failures = 0 -> 10000 * Unit
      [] failures = 1 -> IF total < 2 THEN 0 ELSE IF total = 2 THEN 3000 * Unit
                         ELSE IF total = 3 THEN 5100 * Unit ELSE 6570 * Unit
      [] failures = 2 -> IF total < 3 THEN 0 ELSE IF total = 3 THEN 2100 * Unit
                         ELSE IF total = 4 THEN 3570 * Unit ELSE 4599 * Unit
      [] OTHER        -> 0
AveragesAgree ==
    \A k \in Key :
        /\ stats[k].failures <= stats[k].total
        /\ ewma[k].initialized <=> stats[k].total > 0
        /\ ewma[k].initialized => ewma[k].value >= Floor(stats[k].total, stats[k].failures)

\* Every life puts an event on a topic once, and then not again.
Heard(p, x) == Cardinality({i \in 1..Len(published[p][x[1]]) : published[p][x[1]][i].event = x[2]})
Done(p, x)  == x \in seen /\ ~ (InHand(x) /\ Owed(p))
HeardBounded ==
    /\ crashes \in Nat /\ errors \in Nat /\ copies \in Nat
    /\ \A p \in Topic, x \in Sources :
           Heard(p, x) <= crashes + errors + copies + (IF Done(p, x) THEN 1 ELSE 0)

-----------------------------------------------------------------------------
(* Stages, keys and numbers *)

\* Every type of event has its stage.
LEMMA StageOfType ==
    ASSUME NEW type \in EventType
    PROVE  StageOf[type] \in Stage
<1>1. \E s \in Stage : type \in EventTypes[s]
  BY DEF EventType
<1>2. StageOf[type] = CHOOSE s \in Stage : type \in EventTypes[s]
  BY DEF StageOf
<1> QED BY <1>1, <1>2

LEMMA KeyOfType ==
    ASSUME NEW e \in SourceEvent
    PROVE  KeyOf(e) \in Key
BY StageOfType DEF KeyOf, Key, SourceEvent

\* A failure event is never turned away as invalid.
LEMMA FailureIsValid ==
    ASSUME NEW e \in SourceEvent, IsFailure(e)
    PROVE  Valid(e)
BY DEF SourceEvent, IsFailure, Valid, Status

-----------------------------------------------------------------------------
(* What Publish does to the topics *)

LEMMA FateType ==
    ASSUME NEW n \in Nat, NEW fate \in Fates(n)
    PROVE  fate \in [1..n -> Nat]
BY DEF Fates, Once

\* What arrives on a topic are numbers of the events of its stage.  The sequence is
\* made one event at a time; that there is such a function, and what its values
\* are, goes by the least number of events for which there is none.
LEMMA ArrivalsType ==
    ASSUME NEW s \in Seq(SourceEvent), NEW fate \in [1..Len(s) -> Nat], NEW st, NEW b \in Nat
    PROVE  Arrivals(s, fate, st, b)
               \in Seq({n \in (b + 1)..(b + Len(s)) : StageOf[s[n - b].type] = st})
<1> DEFINE
      N == {n \in (b + 1)..(b + Len(s)) : StageOf[s[n - b].type] = st}
      Add(i) == [k \in 1..(IF StageOf[s[i].type] = st THEN fate[i] ELSE 0) |-> b + i]
      Is(g, n) == g = [i \in 0..n |-> IF i = 0 THEN <<>> ELSE g[i - 1] \o Add(i)]
      Fails == {n \in 0..Len(s) : ~ \E g : Is(g, n)}
<1>0. Len(s) \in Nat
  OBVIOUS
<1>1. Fails = {}
  <2> SUFFICES ASSUME Fails # {} PROVE FALSE
    OBVIOUS
  <2>1. PICK n \in Fails : \A m \in Fails : n <= m
    <3>1. Fails \in SUBSET Nat
      OBVIOUS
    <3> HIDE DEF Fails
    <3> QED BY <3>1, LeastNat
  <2>2. n # 0
    <3> SUFFICES ASSUME n = 0 PROVE FALSE
      OBVIOUS
    <3> DEFINE g == [i \in 0..0 |-> <<>>]
    <3>1. g = [i \in 0..0 |-> IF i = 0 THEN <<>> ELSE g[i - 1] \o Add(i)]
      OBVIOUS
    <3> QED BY <3>1
  <2>3. n - 1 \in 0..Len(s) /\ n \in 1..Len(s)
    BY <2>2
  <2>4. PICK g : Is(g, n - 1)
    <3>1. n - 1 \notin Fails
      <4>1. ~ (n <= n - 1)
        BY <2>3
      <4> HIDE DEF Fails
      <4> QED BY <2>1, <4>1
    <3> HIDE DEF Is
    <3> QED BY <2>3, <3>1
  <2> DEFINE h == [i \in 0..n |-> IF i = n THEN g[n - 1] \o Add(n) ELSE g[i]]
  <2>5. \A i \in 0..n : h[i] = IF i = 0 THEN <<>> ELSE h[i - 1] \o Add(i)
    <3> TAKE i \in 0..n
    <3> HIDE DEF Add
    <3>1. CASE i = n
      <4>1. n - 1 \in 0..n /\ n - 1 # n
        BY <2>3
      <4> QED BY <3>1, <4>1, <2>2
    <3>2. CASE i # n
      <4>1. i \in 0..(n - 1)
        BY <2>3, <3>2
      <4>2. g[i] = IF i = 0 THEN <<>> ELSE g[i - 1] \o Add(i)
        BY <2>4, <4>1
      <4>3. h[i] = g[i]
        BY <3>2
      <4>4. i # 0 => h[i - 1] = g[i - 1]
        <5> SUFFICES ASSUME i # 0 PROVE h[i - 1] = g[i - 1]
          OBVIOUS
        <5>1. i - 1 \in 0..n /\ i - 1 # n
          BY <4>1
        <5> QED BY <5>1
      <4> QED BY <4>2, <4>3, <4>4
    <3> QED BY <3>1, <3>2
  <2>6. Is(h, n)
    <3> HIDE DEF Add
    <3> QED BY <2>5
  <2> HIDE DEF Is
  <2> QED BY <2>1, <2>6
<1> DEFINE f == CHOOSE g : Is(g, Len(s))
<1>2. Is(f, Len(s))
  <2>1. \E g : Is(g, Len(s))
    <3> HIDE DEF Is
    <3> QED BY <1>1, <1>0
  <2> HIDE DEF Is
  <2> QED BY <2>1
<1>3. Arrivals(s, fate, st, b) = f[Len(s)]
  BY DEF Arrivals
<1> DEFINE Wrong == {n \in 0..Len(s) : f[n] \notin Seq(N)}
<1>4. Wrong = {}
  <2> SUFFICES ASSUME Wrong # {} PROVE FALSE
    OBVIOUS
  <2> HIDE DEF f, N
  <2>1. PICK n \in Wrong : \A m \in Wrong : n <= m
    <3>1. Wrong \in SUBSET Nat
      OBVIOUS
    <3> HIDE DEF Wrong
    <3> QED BY <3>1, LeastNat
  <2>2. f[n] = IF n = 0 THEN <<>> ELSE f[n - 1] \o Add(n)
    BY <1>2
  <2>3. <<>> \in Seq(N)
    OBVIOUS
  <2>4. n # 0 /\ n \in 1..Len(s) /\ n - 1 \in 0..Len(s)
    <3>1. n # 0
      BY <2>2, <2>3
    <3> QED BY <3>1
  <2>5. f[n - 1] \in Seq(N)
    BY <2>1, <2>4
  <2>6. Add(n) \in Seq(N)
    <3>1. CASE StageOf[s[n].type] = st
      <4>1. b + n \in (b + 1)..(b + Len(s)) /\ (b + n) - b = n
        BY <2>4
      <4>2. b + n \in N
        BY <3>1, <4>1 DEF N
      <4>3. fate[n] \in Nat
        BY <2>4
      <4>4. Add(n) = [k \in 1..fate[n] |-> b + n]
        BY <3>1
      <4>5. [k \in 1..fate[n] |-> b + n] \in Seq(N)
        <5> HIDE DEF N
        <5>1. \A m \in Nat, v \in N : [k \in 1..m |-> v] \in Seq(N)
          OBVIOUS
        <5> QED BY <4>2, <4>3, <5>1
      <4> QED BY <4>4, <4>5
    <3>2. CASE StageOf[s[n].type] # st
      <4>1. Add(n) = [k \in 1..0 |-> b + n]
        BY <3>2
      <4>2. [k \in 1..0 |-> b + n] \in Seq(N)
        OBVIOUS
      <4> QED BY <4>1, <4>2
    <3> QED BY <3>1, <3>2
  <2>7. f[n - 1] \o Add(n) \in Seq(N)
    <3> HIDE DEF Add
    <3> QED BY <2>5, <2>6
  <2> HIDE DEF Add
  <2> QED BY <2>2, <2>4, <2>7
<1>5. f[Len(s)] \in Seq(N)
  <2> HIDE DEF f, N
  <2> QED BY <1>0, <1>4
<1> QED BY <1>3, <1>5

LEMMA SeqOfSubset ==
    ASSUME NEW A, NEW B, A \subseteq B, NEW q \in Seq(A)
    PROVE  q \in Seq(B) /\ \A i \in 1..Len(q) : q[i] \in A
<1>1. \A i \in 1..Len(q) : q[i] \in A
  OBVIOUS
<1>2. q \in Seq(B)
  OBVIOUS
<1> QED BY <1>1, <1>2

\* Scripts and topics only grow, and what is added to a topic is new to the script.
SourceGrows ==
    /\ \A u \in Tx :
           /\ Len(script[u]) <= Len(script'[u])
           /\ \A n \in Events(u) : script'[u][n] = script[u][n]
    /\ \A st \in Stage, u \in Tx :
           /\ Len(log[st][u]) <= Len(log'[st][u])
           /\ \A i \in 1..Len(log[st][u]) : log'[st][u][i] = log[st][u][i]
           /\ \A i \in (Len(log[st][u]) + 1)..Len(log'[st][u]) :
                  /\ log'[st][u][i] \in (Len(script[u]) + 1)..Len(script'[u])
                  /\ StageOf[script'[u][log'[st][u][i]].type] = st

\* The feeds publish events of the producers, and no more than fit.
LEMMA FeedsPublish ==
    ASSUME ScriptTyped, NEW t \in Tx,
           (\E s \in Publishable : RunOnce(t, s)) \/ (\E s \in Followups : Reattempt(t, s))
    PROVE  \E s \in Seq(SourceEvent) : Len(script[t]) + Len(s) <= MaxEvents /\ Publish(t, s)
<1>1. ASSUME NEW s \in Publishable, RunOnce(t, s)
      PROVE  s \in Seq(SourceEvent) /\ Len(script[t]) + Len(s) <= MaxEvents /\ Publish(t, s)
  <2>1. s \in Seq(SourceEvent) /\ Publish(t, s) /\ script[t] = <<>> /\ Len(s) <= MaxEvents
    BY <1>1, DraftAssumption DEF DraftAssumption, Publishable, RunOnce
  <2>2. Len(script[t]) = 0 /\ Len(s) \in Nat
    BY <2>1
  <2> QED BY <2>1, <2>2
<1>2. ASSUME NEW s \in Followups, Reattempt(t, s)
      PROVE  s \in Seq(SourceEvent) /\ Len(script[t]) + Len(s) <= MaxEvents /\ Publish(t, s)
  BY <1>2, DraftAssumption DEF DraftAssumption, Reattempt
<1> QED BY <1>1, <1>2

LEMMA PublishGrows ==
    ASSUME ScriptTyped, log \in [Stage -> [Tx -> Seq(1..MaxEvents)]],
           NEW t \in Tx, NEW s \in Seq(SourceEvent), Len(script[t]) + Len(s) <= MaxEvents,
           Publish(t, s)
    PROVE  /\ ScriptTyped' /\ log' \in [Stage -> [Tx -> Seq(1..MaxEvents)]]
           /\ SourceGrows
           /\ UNCHANGED consumer
<1> DEFINE b == Len(script[t])
<1>0. b \in Nat /\ Len(s) \in Nat /\ MaxEvents \in Nat
  BY BoundAssumption DEF BoundAssumption, ScriptTyped
<1>1. /\ script' = [script EXCEPT ![t] = script[t] \o s]
      /\ UNCHANGED consumer
  BY DEF Publish
<1>2. PICK fate \in Fates(Len(s)) :
          log' = [st \in Stage |-> [log[st] EXCEPT ![t] = log[st][t] \o Arrivals(s, fate, st, b)]]
  BY DEF Publish
<1>3. fate \in [1..Len(s) -> Nat]
  BY <1>0, FateType
<1>4. \A u \in Tx : script'[u] = IF u = t THEN script[t] \o s ELSE script[u]
  BY <1>1 DEF ScriptTyped
<1>5. /\ script[t] \o s \in Seq(SourceEvent) /\ Len(script[t] \o s) = b + Len(s)
      /\ \A n \in 1..b : (script[t] \o s)[n] = script[t][n]
      /\ \A n \in (b + 1)..(b + Len(s)) : (script[t] \o s)[n] = s[n - b]
  BY DEF ScriptTyped
<1>6. ScriptTyped'
  <2>1. script' \in [Tx -> Seq(SourceEvent)]
    BY <1>1, <1>5 DEF ScriptTyped
  <2>2. \A u \in Tx : Len(script'[u]) <= MaxEvents
    BY <1>4, <1>5 DEF ScriptTyped
  <2> QED BY <2>1, <2>2 DEF ScriptTyped
<1>7. \A u \in Tx : /\ Len(script[u]) <= Len(script'[u])
                    /\ \A n \in Events(u) : script'[u][n] = script[u][n]
  <2> TAKE u \in Tx
  <2>1. CASE u = t
    <3>1. script'[u] = script[t] \o s /\ Events(u) = 1..b
      BY <1>4, <2>1 DEF Events
    <3> QED BY <1>0, <1>5, <2>1, <3>1
  <2>2. CASE u # t
    <3>1. script'[u] = script[u] /\ Len(script[u]) \in Nat
      BY <1>4, <2>2 DEF ScriptTyped
    <3> QED BY <3>1
  <2> QED BY <2>1, <2>2
<1>8. ASSUME NEW st \in Stage, NEW u \in Tx
      PROVE  /\ log'[st][u] \in Seq(1..MaxEvents)
             /\ Len(log[st][u]) <= Len(log'[st][u])
             /\ \A i \in 1..Len(log[st][u]) : log'[st][u][i] = log[st][u][i]
             /\ \A i \in (Len(log[st][u]) + 1)..Len(log'[st][u]) :
                    /\ log'[st][u][i] \in (Len(script[u]) + 1)..Len(script'[u])
                    /\ StageOf[script'[u][log'[st][u][i]].type] = st
  <2> DEFINE a == Arrivals(s, fate, st, b)
             old == log[st][u]
  <2>1. log'[st][u] = IF u = t THEN old \o a ELSE old
    BY <1>2
  <2>2. a \in Seq({n \in (b + 1)..(b + Len(s)) : StageOf[s[n - b].type] = st})
    <3>1. b \in Nat
      BY <1>0
    <3> HIDE DEF b
    <3> QED BY <1>3, <3>1, ArrivalsType, ZenonT(40)
  <2>3. old \in Seq(1..MaxEvents)
    OBVIOUS
  <2>4. /\ a \in Seq(1..MaxEvents)
        /\ \A i \in 1..Len(a) : a[i] \in (b + 1)..(b + Len(s)) /\ StageOf[s[a[i] - b].type] = st
    <3> DEFINE N == {n \in (b + 1)..(b + Len(s)) : StageOf[s[n - b].type] = st}
    <3>1. N \subseteq 1..MaxEvents
      BY <1>0
    <3>2. a \in Seq(N)
      BY <2>2
    <3>3. a \in Seq(1..MaxEvents) /\ \A i \in 1..Len(a) : a[i] \in N
      <4> HIDE DEF a, N
      <4> QED BY <3>1, <3>2, SeqOfSubset
    <3> QED BY <3>3
  <2> HIDE DEF a, old
  <2>5. CASE u # t
    <3>1. log'[st][u] = old
      BY <2>1, <2>5
    <3>2. \A i \in (Len(old) + 1)..Len(old) : FALSE
      BY <2>3
    <3> QED BY <2>3, <3>1, <3>2 DEF old
  <2>6. CASE u = t
    <3>1. log'[st][u] = old \o a
      BY <2>1, <2>6
    <3>2. /\ old \o a \in Seq(1..MaxEvents) /\ Len(old \o a) = Len(old) + Len(a)
          /\ Len(old) \in Nat /\ Len(a) \in Nat
          /\ \A i \in 1..Len(old) : (old \o a)[i] = old[i]
          /\ \A i \in (Len(old) + 1)..(Len(old) + Len(a)) : (old \o a)[i] = a[i - Len(old)]
      BY <2>3, <2>4
    <3>3. ASSUME NEW i \in (Len(old) + 1)..(Len(old) + Len(a))
          PROVE  /\ (old \o a)[i] \in (b + 1)..(b + Len(s))
                 /\ StageOf[script'[u][(old \o a)[i]].type] = st
      <4>1. i - Len(old) \in 1..Len(a) /\ (old \o a)[i] = a[i - Len(old)]
        BY <3>2
      <4>2. /\ (old \o a)[i] \in (b + 1)..(b + Len(s))
            /\ StageOf[s[(old \o a)[i] - b].type] = st
        BY <2>4, <4>1
      <4>3. script'[u][(old \o a)[i]] = s[(old \o a)[i] - b]
        BY <1>4, <1>5, <2>6, <4>2
      <4> QED BY <4>2, <4>3
    <3>4. Len(script[u]) = b /\ Len(script'[u]) = b + Len(s)
      BY <1>4, <1>5, <2>6
    <3>5. /\ Len(old) <= Len(old \o a)
          /\ \A i \in (Len(old) + 1)..Len(old \o a) :
                 /\ (old \o a)[i] \in (Len(script[u]) + 1)..Len(script'[u])
                 /\ StageOf[script'[u][(old \o a)[i]].type] = st
      <4>1. Len(old) <= Len(old) + Len(a)
        BY <3>2
      <4> HIDE DEF b
      <4> QED BY <3>2, <3>3, <3>4, <4>1
    <3> QED BY <3>1, <3>2, <3>5 DEF old
  <2> QED BY <2>5, <2>6
<1>9. log' \in [Stage -> [Tx -> Seq(1..MaxEvents)]]
  <2>1. log' = [st \in Stage |-> log'[st]]
    BY <1>2
  <2>2. ASSUME NEW st \in Stage
        PROVE  log'[st] \in [Tx -> Seq(1..MaxEvents)]
    <3>1. log'[st] = [log[st] EXCEPT ![t] = log[st][t] \o Arrivals(s, fate, st, b)]
      BY <1>2
    <3>2. log'[st] = [u \in Tx |-> log'[st][u]]
      BY <3>1
    <3> QED BY <1>8, <3>2
  <2> QED BY <2>1, <2>2
<1>10. SourceGrows
  BY <1>7, <1>8 DEF SourceGrows
<1> QED BY <1>1, <1>6, <1>9, <1>10

-----------------------------------------------------------------------------
(* Averages and blame *)

LEMMA TenthBounds ==
    ASSUME NEW a \in Nat, NEW b \in Nat
    PROVE  /\ a \div 10 \in Nat
           /\ a >= 10 * b => a \div 10 >= b
           /\ a <= 10 * b => a \div 10 <= b
OBVIOUS

\* One more event keeps an average above its floor: 0.7 of the floor before a failure,
\* and 0.3 + 0.7 of it before a success, are above the floor after it.
LEMMA FloorKept ==
    ASSUME NEW total \in Nat, NEW failures \in Nat, failures <= total, total > 0,
           NEW value \in 0..One, value >= Floor(total, failures)
    PROVE  /\ (3 * One + 7 * value) \div 10 \in 0..One
           /\ (3 * 0 + 7 * value) \div 10 \in 0..One
           /\ (3 * One + 7 * value) \div 10 >= Floor(total + 1, failures)
           /\ (3 * 0 + 7 * value) \div 10 >= Floor(total + 1, failures + 1)
<1> DEFINE up == 3 * One + 7 * value
           down == 3 * 0 + 7 * value
<1>0. Unit \in Nat /\ One = 10000 * Unit /\ One \in Nat
  <2>1. Unit \in Nat
    BY DEF Unit
  <2> QED BY <2>1, SMT DEF One
<1>1. up \in Nat /\ down \in Nat /\ up <= 10 * One /\ down <= 10 * One
  BY <1>0, SMT
<1>2. up \div 10 \in 0..One /\ down \div 10 \in 0..One
  <2> HIDE DEF up, down
  <2> QED BY <1>0, <1>1, TenthBounds
<1>3. Floor(total + 1, failures) \in Nat /\ Floor(total + 1, failures + 1) \in Nat
  BY <1>0, SMT DEF Floor
<1>4. up >= 10 * Floor(total + 1, failures)
  <2>1. CASE failures = 0
    BY <1>0, <2>1, SMT DEF Floor
  <2>2. CASE failures = 1
    BY <1>0, <2>2, SMT DEF Floor
  <2>3. CASE failures = 2
    BY <1>0, <2>3, SMT DEF Floor
  <2>4. CASE failures > 2
    BY <1>0, <2>4, SMT DEF Floor
  <2> QED BY <2>1, <2>2, <2>3, <2>4
<1>5. down >= 10 * Floor(total + 1, failures + 1)
  <2>1. CASE failures = 0
    BY <1>0, <2>1, SMT DEF Floor
  <2>2. CASE failures = 1
    BY <1>0, <2>2, SMT DEF Floor
  <2>3. CASE failures > 1
    BY <1>0, <2>3, SMT DEF Floor
  <2> QED BY <2>1, <2>2, <2>3
<1> HIDE DEF up, down
<1>6. up \div 10 >= Floor(total + 1, failures) /\ down \div 10 >= Floor(total + 1, failures + 1)
  BY <1>1, <1>3, <1>4, <1>5, TenthBounds
<1> QED BY <1>2, <1>6 DEF up, down

LEMMA WorseTransitive ==
    ASSUME NEW x \in [total : Nat, failures : Nat], NEW y \in [total : Nat, failures : Nat],
           NEW z \in [total : Nat, failures : Nat], NEW p \in Nat, NEW q \in Nat, NEW r \in Nat,
           Worse(x, y, p, q), Worse(y, z, q, r)
    PROVE  Worse(x, z, p, r)
<1>1. /\ x.total \in Nat /\ y.total \in Nat /\ z.total \in Nat
      /\ x.failures \in Nat /\ y.failures \in Nat /\ z.failures \in Nat
  OBVIOUS
<1>2. x.failures >= y.failures /\ y.failures >= z.failures
  BY <1>1, SMT DEF Worse
<1>3. CASE x.failures > z.failures
  BY <1>3 DEF Worse
<1>4. CASE x.failures = z.failures
  <2>1. x.failures = y.failures /\ y.failures = z.failures
    BY <1>1, <1>2, <1>4
  <2> QED BY <1>1, <2>1, SMT DEF Worse
<1> QED BY <1>1, <1>2, <1>3, <1>4

\* Of the providers with a failure one is worst.
LEMMA WorstExists ==
    ASSUME NEW st \in [Key -> [total : Nat, failures : Nat]], NEW s \in Stage,
           Suspects(st, s) # {}
    PROVE  Worst(st, s) \in Suspects(st, s)
<1> DEFINE D == Suspects(st, s)
           AsBad(p, q) == Worse(st[<<s, p>>], st[<<s, q>>], p, q)
           W(p) == {q \in D : AsBad(q, p)}
           R == StrictSubsetOrdering(Provider)
           S == FiniteSubsetsOf(Provider)
           U == {W(p) : p \in D}
<1>1. \A p \in D : /\ p \in Nat /\ st[<<s, p>>].failures \in Nat /\ st[<<s, p>>].total \in Nat
                  /\ st[<<s, p>>] \in [total : Nat, failures : Nat]
  BY ProviderAssumption DEF ProviderAssumption, Suspects, Key
<1>2. \A p \in D : AsBad(p, p)
  BY <1>1 DEF Worse
<1>3. \A p, q \in D : AsBad(p, q) \/ AsBad(q, p)
  BY <1>1 DEF Worse
<1>4. \A p, q, r \in D : AsBad(p, q) /\ AsBad(q, r) => AsBad(p, r)
  <2> HIDE DEF D
  <2> QED BY <1>1, WorseTransitive
<1>5. D \subseteq Provider /\ IsFiniteSet(Provider)
  BY ProviderAssumption DEF ProviderAssumption, Suspects
<1> HIDE DEF AsBad
<1>6. U \subseteq S /\ U # {}
  <2>1. \A p \in D : W(p) \in SUBSET Provider
    BY <1>5
  <2>2. \A p \in D : IsFiniteSet(W(p))
    BY <1>5, <2>1, FS_Subset
  <2>3. \A p \in D : W(p) \in S
    BY <2>1, <2>2 DEF FiniteSubsetsOf
  <2>4. D # {}
    OBVIOUS
  <2> HIDE DEF D, W, S
  <2> QED BY <2>3, <2>4
<1>7. PICK p \in D : \A q \in D : ~ (<<W(q), W(p)>> \in R)
  <2>1. IsWellFoundedOn(R, S)
    BY FS_StrictSubsetOrderingWellFounded
  <2>2. \E x \in U : \A y \in U : ~ (<<y, x>> \in R)
    <3> HIDE DEF R, S, U
    <3> QED BY <1>6, <2>1, WFMin
  <2> QED BY <2>2
<1>8. ASSUME NEW q \in D, ~ AsBad(p, q)
      PROVE  FALSE
  <2>1. AsBad(q, p)
    BY <1>3, <1>8
  <2>2. W(q) \subseteq W(p)
    BY <1>4, <2>1
  <2>3. p \in W(p) /\ p \notin W(q)
    BY <1>2, <1>8
  <2>4. W(q) \in SUBSET Provider /\ W(p) \in SUBSET Provider
    BY <1>5
  <2>5. <<W(q), W(p)>> \in R
    <3> HIDE DEF W
    <3> QED BY <2>2, <2>3, <2>4 DEF StrictSubsetOrdering
  <2> QED BY <1>7, <2>5
<1>9. \E w \in D : \A q \in D : AsBad(w, q)
  BY <1>8
<1>10. Worst(st, s) = CHOOSE w \in D : \A q \in D : AsBad(w, q)
  BY DEF Worst, AsBad
<1> HIDE DEF D
<1>11. Worst(st, s) \in D
  BY <1>9, <1>10
<1> QED BY <1>11 DEF D

\* Who is blamed has failed twice.
LEMMA BlamedFailedTwice ==
    ASSUME NEW st \in [Key -> [total : Nat, failures : Nat]], NEW s \in Stage,
           Suspects(st, s) # {}
    PROVE  \/ Blamed(st, s) = 0
           \/ Blamed(st, s) \in Provider /\ st[<<s, Blamed(st, s)>>].failures >= 2
<1>1. Worst(st, s) \in Provider
  BY WorstExists DEF Suspects
<1> QED BY <1>1 DEF Blamed

-----------------------------------------------------------------------------
(* Types *)

Statistics == [Key -> [total : Nat, failures : Nat]]
Averages   == [Key -> [initialized : BOOLEAN, value : 0..One]]

LEMMA ObservedType ==
    ASSUME NEW e \in SourceEvent, stats \in Statistics
    PROVE  /\ Observed(e) \in Statistics
           /\ \A k \in Key \ {KeyOf(e)} : Observed(e)[k] = stats[k]
           /\ Observed(e)[KeyOf(e)].total = stats[KeyOf(e)].total + 1
           /\ Observed(e)[KeyOf(e)].failures =
                  IF e.status = "failure" THEN stats[KeyOf(e)].failures + 1
                  ELSE stats[KeyOf(e)].failures
<1>1. KeyOf(e) \in Key
  BY KeyOfType
<1> QED BY <1>1 DEF Observed, Statistics

LEMMA AveragedType ==
    ASSUME NEW average \in [initialized : BOOLEAN, value : 0..One], NEW metric \in {0, One}
    PROVE  Averaged(average, metric) \in [initialized : BOOLEAN, value : 0..One]
<1>0. One \in Nat
  <2>1. Unit \in Nat
    BY DEF Unit
  <2> QED BY <2>1, SMT DEF One
<1>1. metric \in 0..One /\ average.value \in 0..One
  BY <1>0
<1>2. 3 * metric + 7 * average.value \in Nat /\ 3 * metric + 7 * average.value <= 10 * One
  BY <1>0, <1>1, SMT
<1>3. (3 * metric + 7 * average.value) \div 10 \in 0..One
  <2> DEFINE sum == 3 * metric + 7 * average.value
  <2> HIDE DEF sum
  <2>1. sum \in Nat /\ sum <= 10 * One
    BY <1>2 DEF sum
  <2>2. sum \div 10 \in 0..One
    BY <1>0, <2>1, TenthBounds
  <2> QED BY <2>2 DEF sum
<1> QED BY <1>1, <1>3 DEF Averaged

LEMMA TrackedType ==
    ASSUME NEW e \in SourceEvent, ewma \in Averages
    PROVE  /\ Tracked(e) \in Averages
           /\ \A k \in Key \ {KeyOf(e)} : Tracked(e)[k] = ewma[k]
           /\ Tracked(e)[KeyOf(e)] =
                  Averaged(ewma[KeyOf(e)], IF e.status = "success" THEN One ELSE 0)
<1> DEFINE metric == IF e.status = "success" THEN One ELSE 0
<1>1. KeyOf(e) \in Key
  BY KeyOfType
<1>2. Tracked(e) = [ewma EXCEPT ![KeyOf(e)] = Averaged(ewma[KeyOf(e)], metric)]
  BY DEF Tracked
<1>3. metric \in {0, One}
  OBVIOUS
<1> HIDE DEF metric
<1>4. Averaged(ewma[KeyOf(e)], metric) \in [initialized : BOOLEAN, value : 0..One]
  BY <1>1, <1>3, AveragedType DEF Averages
<1>5. /\ Tracked(e) \in Averages
      /\ \A k \in Key \ {KeyOf(e)} : Tracked(e)[k] = ewma[k]
      /\ Tracked(e)[KeyOf(e)] = Averaged(ewma[KeyOf(e)], metric)
  BY <1>1, <1>2, <1>4 DEF Averages
<1> QED BY <1>5 DEF metric

\* The event that is yielded was built by a producer.
LEMMA YieldedEvent ==
    ASSUME ScriptTyped, NEW t \in Tx, NEW n \in Events(t)
    PROVE  script[t][n] \in SourceEvent /\ <<t, n>> \in Sources /\ n \in 1..MaxEvents
BY BoundAssumption DEF ScriptTyped, Events, Sources, BoundAssumption

\* The record of a failure: whom it blames has failed twice, the event included.
LEMMA RecordType ==
    ASSUME ScriptTyped, stats \in Statistics, ewma \in Averages,
           NEW t \in Tx, NEW n \in Events(t), IsFailure(script[t][n])
    PROVE  /\ Record(t, n) \in Records
           /\ Record(t, n).tx = t /\ Record(t, n).event = n
           /\ Record(t, n).cause # 0 =>
                  Observed(script[t][n])[<<StageOf[script[t][n].type],
                                           Record(t, n).cause>>].failures >= 2
<1> DEFINE e == script[t][n]
           s == StageOf[e.type]
           st == Observed(e)
<1>1. e \in SourceEvent /\ n \in 1..MaxEvents
  BY YieldedEvent
<1>2. s \in Stage /\ e.provider \in Provider /\ KeyOf(e) = <<s, e.provider>>
  BY <1>1, StageOfType DEF KeyOf, SourceEvent
<1>3. st \in Statistics /\ st[<<s, e.provider>>].failures > 0
  <2>1. stats[KeyOf(e)].failures \in Nat
    BY <1>1, KeyOfType DEF Statistics
  <2>2. e.status = "failure"
    BY DEF IsFailure
  <2> HIDE DEF e, s
  <2> QED BY <1>1, <1>2, <2>1, <2>2, ObservedType
<1>4. Suspects(st, s) # {}
  BY <1>2, <1>3 DEF Suspects
<1>5. \/ Blamed(st, s) = 0
      \/ Blamed(st, s) \in Provider /\ st[<<s, Blamed(st, s)>>].failures >= 2
  <2> HIDE DEF st, s, e
  <2> QED BY <1>2, <1>3, <1>4, BlamedFailedTwice DEF Statistics
<1>6. Degraded(Tracked(e)[KeyOf(e)]) \in BOOLEAN
  BY DEF Degraded
<1>7. Record(t, n) = [tx |-> t, event |-> n, degraded |-> Degraded(Tracked(e)[KeyOf(e)]),
                      cause |-> Blamed(st, s)]
  BY DEF Record
<1> HIDE DEF st, s
<1>8. Record(t, n) \in Records
  BY <1>1, <1>5, <1>6, <1>7 DEF Records
<1>9. /\ Record(t, n).tx = t /\ Record(t, n).event = n
      /\ Record(t, n).cause # 0 => st[<<s, Record(t, n).cause>>].failures >= 2
  BY <1>5, <1>7
<1> QED BY <1>8, <1>9 DEF st, s

Typed == TypeOK /\ ScriptTyped /\ OutboxFits

LEMMA InitTyped == Init => Typed
<1> SUFFICES ASSUME Init PROVE Typed
  OBVIOUS
<1>1. 0 \in 0..One
  <2>1. Unit \in Nat
    BY DEF Unit
  <2> QED BY <2>1, SMT DEF One
<1>2. stats \in Statistics /\ ewma \in Averages
  BY <1>1 DEF Init, NoStats, NoAverage, Statistics, Averages
<1>3. ScriptTyped
  BY BoundAssumption DEF BoundAssumption, Init, ScriptTyped
<1> QED BY <1>2, <1>3 DEF Init, Typed, TypeOK, OutboxFits, Statistics, Averages

LEMMA RecordsSubscripts ==
    ASSUME NEW r \in Records
    PROVE  <<r.tx, r.event>> \in Sources /\ r.tx \in Tx
BY DEF Records, Sources

\* An action of the loop that leaves topics and memory alone.
LEMMA LoopTyped ==
    ASSUME Typed, Poll \/ SendDetection \/ SendCandidate \/ Flush \/ Restart
    PROVE  Typed'
<1>1. CASE Poll
  BY <1>1 DEF Poll, Typed, TypeOK, ScriptTyped, OutboxFits, source, memory, bounds
<1>2. CASE SendDetection
  BY <1>2 DEF SendDetection, Typed, TypeOK, ScriptTyped, OutboxFits, source, memory, bounds, Topic
<1>3. CASE SendCandidate
  BY <1>3 DEF SendCandidate, Typed, TypeOK, ScriptTyped, OutboxFits, source, memory, bounds, Topic
<1>4. CASE Flush
  BY <1>4 DEF Flush, Typed, TypeOK, ScriptTyped, OutboxFits, source, memory, bounds
<1>5. CASE Restart
  BY <1>5 DEF Restart, Typed, TypeOK, ScriptTyped, OutboxFits, source, memory, bounds
<1> QED BY <1>1, <1>2, <1>3, <1>4, <1>5

LEMMA YieldsTyped ==
    ASSUME Typed, NEW s \in Stage, NEW t \in Tx, NEW n \in Events(t), Yields(s, t, n)
    PROVE  /\ position' \in [Stage -> [Tx -> Nat]]
           /\ position' = [position EXCEPT ![s] = [position[s] EXCEPT ![t] = position[s][t] + 1]]
           /\ pc = "idle" /\ outbox = {} /\ current = Idle
           /\ script[t][n] \in SourceEvent /\ <<t, n>> \in Sources
<1>1. position \in [Stage -> [Tx -> Nat]]
  BY DEF Typed, TypeOK
<1>2. position' = [position EXCEPT ![s] = [position[s] EXCEPT ![t] = position[s][t] + 1]]
  BY DEF Yields
<1> QED BY <1>1, <1>2, YieldedEvent DEF Yields, Typed, TypeOK, OutboxFits

LEMMA LearnTyped ==
    ASSUME Typed, NEW t \in Tx, NEW n \in Events(t), Learn(t, n)
    PROVE  seen' \subseteq Sources /\ stats' \in Statistics /\ ewma' \in Averages
<1>1. script[t][n] \in SourceEvent /\ <<t, n>> \in Sources
  BY YieldedEvent DEF Typed
<1>2. stats \in Statistics /\ ewma \in Averages /\ seen \subseteq Sources
  BY DEF Typed, TypeOK, Statistics, Averages
<1> QED BY <1>1, <1>2, ObservedType, TrackedType DEF Learn

LEMMA ReadTyped ==
    ASSUME Typed, NEW s \in Stage, NEW t \in Tx, NEW n \in Events(t),
           Skip(s, t, n) \/ Observe(s, t, n) \/ Detect(s, t, n)
    PROVE  Typed'
<1>1. Yields(s, t, n)
  BY DEF Skip, Observe, Detect
<1>2. /\ position' \in [Stage -> [Tx -> Nat]]
      /\ pc = "idle" /\ outbox = {} /\ current = Idle
  BY <1>1, YieldsTyped
<1>3. CASE Skip(s, t, n)
  BY <1>2, <1>3 DEF Skip, Typed, TypeOK, ScriptTyped, OutboxFits, source, memory, bounds
<1>4. CASE Observe(s, t, n)
  <2>1. seen' \subseteq Sources /\ stats' \in Statistics /\ ewma' \in Averages
    BY <1>4, LearnTyped DEF Observe
  <2>2. UNCHANGED <<script, log, committed, published, pc, current, outbox, excused>>
    BY <1>4 DEF Observe, source
  <2> QED BY <1>2, <2>1, <2>2 DEF Typed, TypeOK, ScriptTyped, OutboxFits, Statistics, Averages
<1>5. CASE Detect(s, t, n)
  <2>1. seen' \subseteq Sources /\ stats' \in Statistics /\ ewma' \in Averages
    BY <1>5, LearnTyped DEF Detect
  <2>2. UNCHANGED <<script, log, committed, published, outbox, excused>>
    BY <1>5 DEF Detect, source
  <2>3. current' \in Records /\ pc' = "detected"
    <3>1. stats \in Statistics /\ ewma \in Averages
      BY DEF Typed, TypeOK, Statistics, Averages
    <3> QED BY <1>5, <3>1, RecordType DEF Detect, Typed
  <2> QED BY <1>2, <2>1, <2>2, <2>3 DEF Typed, TypeOK, ScriptTyped, OutboxFits, Statistics, Averages
<1> QED BY <1>3, <1>4, <1>5

\* While a record is with the producer there is a current one.
LEMMA InOutbox ==
    ASSUME Typed, NEW p \in outbox
    PROVE  /\ p \in Topic /\ current \in Records /\ pc \in {"offered", "flush"}
           /\ current.tx \in Tx /\ <<current.tx, current.event>> \in Sources
<1>1. pc \in {"offered", "flush"}
  BY DEF Typed, TypeOK, OutboxFits
<1>2. current \in Records /\ p \in Topic
  BY <1>1 DEF Typed, TypeOK
<1> QED BY <1>1, <1>2, RecordsSubscripts

LEMMA DeliverTyped ==
    ASSUME Typed, NEW p \in outbox, NEW k \in {0, 1}, Deliver(p, k)
    PROVE  /\ Typed'
           /\ published' = [published EXCEPT ![p] = [published[p] EXCEPT
                  ![current.tx] = published[p][current.tx] \o [i \in 1..(1 + k) |-> current]]]
<1> DEFINE t == current.tx
           more == [i \in 1..(1 + k) |-> current]
<1>1. /\ p \in Topic /\ current \in Records /\ pc \in {"offered", "flush"} /\ t \in Tx
  BY InOutbox
<1>2. published \in [Topic -> [Tx -> Seq(Records)]]
  BY DEF Typed, TypeOK
<1>3. more \in Seq(Records)
  BY <1>1
<1>4. published' = [published EXCEPT ![p] = [published[p] EXCEPT ![t] = published[p][t] \o more]]
  BY DEF Deliver
<1> HIDE DEF more, t
<1>5. published[p][t] \o more \in Seq(Records)
  BY <1>1, <1>2, <1>3
<1>6. published' \in [Topic -> [Tx -> Seq(Records)]]
  BY <1>1, <1>2, <1>4, <1>5
<1>7. /\ outbox' = outbox \ {p}
      /\ UNCHANGED <<script, log, committed, position, pc, seen, stats, ewma, current, excused>>
  BY DEF Deliver, source, memory
<1>8. Typed'
  BY <1>1, <1>6, <1>7 DEF Typed, TypeOK, ScriptTyped, OutboxFits
<1> QED BY <1>4, <1>8 DEF more, t

LEMMA GiveUpTyped ==
    ASSUME Typed, NEW p \in outbox, GiveUp(p)
    PROVE  Typed'
<1>1. p \in Topic /\ <<current.tx, current.event>> \in Sources
  BY InOutbox
<1>2. /\ outbox' = outbox \ {p}
      /\ excused' = [excused EXCEPT ![p] = excused[p] \cup {<<current.tx, current.event>>}]
      /\ UNCHANGED <<script, log, committed, published, position, pc, seen, stats, ewma, current>>
  BY DEF GiveUp, source, memory
<1>3. excused' \in [Topic -> SUBSET Sources]
  BY <1>1, <1>2 DEF Typed, TypeOK
<1> QED BY <1>2, <1>3 DEF Typed, TypeOK, ScriptTyped, OutboxFits

LEMMA ForgetTyped ==
    ASSUME Typed, Raise \/ Crash
    PROVE  Typed'
<1>1. /\ pc' = "down" /\ current' = Idle /\ outbox' = {} /\ seen' = {}
      /\ stats' = NoStats /\ ewma' = NoAverage
      /\ UNCHANGED <<script, log, published>>
  BY DEF Raise, Crash, Forget, source
<1>2. stats' \in Statistics /\ ewma' \in Averages
  <2>1. 0 \in 0..One
    <3>1. Unit \in Nat
      BY DEF Unit
    <3> QED BY <3>1, SMT DEF One
  <2> QED BY <1>1, <2>1 DEF NoStats, NoAverage, Statistics, Averages
<1>3. committed' \in [Stage -> [Tx -> Nat]] /\ position' \in [Stage -> [Tx -> Nat]]
  BY DEF Raise, Crash, Typed, TypeOK
<1>4. excused' \in [Topic -> SUBSET Sources]
  <2>1. CASE Crash
    BY <2>1 DEF Crash, Typed, TypeOK
  <2>2. CASE Raise
    <3>1. <<current.tx, current.event>> \in Sources
      BY <2>2, RecordsSubscripts DEF Raise, Typed, TypeOK
    <3> QED BY <2>2, <3>1 DEF Raise, Typed, TypeOK
  <2> QED BY <2>1, <2>2
<1> QED BY <1>1, <1>2, <1>3, <1>4
        DEF Typed, TypeOK, ScriptTyped, OutboxFits, Statistics, Averages

LEMMA PublishTyped ==
    ASSUME Typed, NEW t \in Tx, NEW s \in Seq(SourceEvent),
           Len(script[t]) + Len(s) <= MaxEvents, Publish(t, s)
    PROVE  Typed'
<1>1. ScriptTyped' /\ log' \in [Stage -> [Tx -> Seq(1..MaxEvents)]] /\ UNCHANGED consumer
  BY PublishGrows DEF Typed, TypeOK
<1> QED BY <1>1 DEF Typed, TypeOK, OutboxFits, consumer

\* The steps of the specification, one by one.
LEMMA StepKinds ==
    ASSUME ScriptTyped, [Next]_vars
    PROVE  \/ \E t \in Tx, s \in Seq(SourceEvent) :
                  Len(script[t]) + Len(s) <= MaxEvents /\ Publish(t, s)
           \/ \E s \in Stage, t \in Tx : \E n \in Events(t) :
                  Skip(s, t, n) \/ Observe(s, t, n) \/ Detect(s, t, n)
           \/ \E p \in outbox : GiveUp(p) \/ \E k \in {0, 1} : Deliver(p, k)
           \/ Poll \/ SendDetection \/ SendCandidate \/ Flush
           \/ Raise \/ Crash \/ Restart
           \/ UNCHANGED vars
BY FeedsPublish DEF Next

LEMMA StepTyped ==
    ASSUME Typed, [Next]_vars
    PROVE  Typed'
<1>1. CASE UNCHANGED vars
  BY <1>1 DEF vars, Typed, TypeOK, ScriptTyped, OutboxFits
<1>2. ScriptTyped
  BY DEF Typed
<1> QED
  BY <1>1, <1>2, StepKinds, PublishTyped, ReadTyped, DeliverTyped, GiveUpTyped, LoopTyped, ForgetTyped

\* The variables of the detection service keep their types, whatever it reads.
THEOREM TypeCorrect == Spec => []TypeOK
<1>1. Init => Typed
  BY InitTyped
<1>2. Typed /\ [Next]_vars => Typed'
  BY StepTyped
<1>3. Typed => TypeOK
  BY DEF Typed
<1> QED BY <1>1, <1>2, <1>3, PTL DEF Spec

-----------------------------------------------------------------------------
(* The two memories of a provider *)

LEMMA LearnAgrees ==
    ASSUME Typed, AveragesAgree, NEW t \in Tx, NEW n \in Events(t), Learn(t, n)
    PROVE  AveragesAgree'
<1> DEFINE e == script[t][n]
           k0 == KeyOf(e)
           total == stats[k0].total
           failures == stats[k0].failures
           value == ewma[k0].value
           metric == IF e.status = "success" THEN One ELSE 0
<1>1. e \in SourceEvent /\ e.status \in {"success", "failure"} /\ k0 \in Key
  BY YieldedEvent, KeyOfType DEF Typed, SourceEvent
<1>2. stats \in Statistics /\ ewma \in Averages
  BY DEF Typed, TypeOK, Statistics, Averages
<1>3. stats' = Observed(e) /\ ewma' = Tracked(e)
  BY DEF Learn
<1>4. /\ total \in Nat /\ failures \in Nat /\ value \in 0..One
      /\ failures <= total /\ (ewma[k0].initialized <=> total > 0)
      /\ ewma[k0].initialized => value >= Floor(total, failures)
  BY <1>1, <1>2 DEF AveragesAgree, Statistics, Averages
<1>5. /\ stats'[k0].total = total + 1
      /\ stats'[k0].failures = IF e.status = "failure" THEN failures + 1 ELSE failures
      /\ ewma'[k0] = Averaged(ewma[k0], metric)
      /\ \A k \in Key \ {k0} : stats'[k] = stats[k] /\ ewma'[k] = ewma[k]
  <2> HIDE DEF e
  <2> QED BY <1>1, <1>2, <1>3, ObservedType, TrackedType
<1>6. /\ ewma'[k0].initialized = TRUE
      /\ ewma'[k0].value = IF ewma[k0].initialized THEN (3 * metric + 7 * value) \div 10 ELSE metric
  <2> HIDE DEF metric, k0
  <2> QED BY <1>5 DEF Averaged
<1>7. Unit \in Nat /\ One = 10000 * Unit /\ One \in Nat
  <2>1. Unit \in Nat
    BY DEF Unit
  <2> QED BY <2>1, SMT DEF One
<1>8. ewma'[k0].value >= Floor(stats'[k0].total, stats'[k0].failures)
  <2> HIDE DEF k0, total, failures, value, e
  <2>1. CASE total = 0
    <3>1. failures = 0 /\ ~ ewma[k0].initialized
      BY <1>4, <2>1
    <3>2. CASE e.status = "success"
      <4>1. ewma'[k0].value = One /\ stats'[k0].failures = 0
        BY <1>5, <1>6, <3>1, <3>2
      <4> QED BY <1>7, <4>1 DEF Floor
    <3>3. CASE e.status = "failure"
      <4>1. ewma'[k0].value = 0 /\ stats'[k0].failures = 1 /\ stats'[k0].total = 1
        BY <1>5, <1>6, <2>1, <3>1, <3>3
      <4> QED BY <4>1 DEF Floor
    <3> QED BY <1>1, <3>2, <3>3
  <2>2. CASE total # 0
    <3>1. total > 0 /\ ewma[k0].initialized
      BY <1>4, <2>2
    <3>2. /\ (3 * One + 7 * value) \div 10 >= Floor(total + 1, failures)
          /\ (3 * 0 + 7 * value) \div 10 >= Floor(total + 1, failures + 1)
      BY <1>4, <3>1, FloorKept
    <3>3. CASE e.status = "success"
      <4>1. ewma'[k0].value = (3 * One + 7 * value) \div 10 /\ stats'[k0].failures = failures
        BY <1>5, <1>6, <3>1, <3>3
      <4> QED BY <1>5, <3>2, <4>1
    <3>4. CASE e.status = "failure"
      <4>1. ewma'[k0].value = (3 * 0 + 7 * value) \div 10 /\ stats'[k0].failures = failures + 1
        BY <1>5, <1>6, <3>1, <3>4
      <4> QED BY <1>5, <3>2, <4>1
    <3> QED BY <1>1, <3>3, <3>4
  <2> QED BY <2>1, <2>2
<1>9. /\ stats'[k0].failures <= stats'[k0].total
      /\ ewma'[k0].initialized <=> stats'[k0].total > 0
  BY <1>4, <1>5, <1>6
<1> HIDE DEF k0
<1> QED BY <1>5, <1>6, <1>8, <1>9 DEF AveragesAgree

LEMMA StepAverages ==
    ASSUME Typed, AveragesAgree, [Next]_vars
    PROVE  AveragesAgree'
<1>1. \/ UNCHANGED <<stats, ewma>>
      \/ \E t \in Tx : \E n \in Events(t) : Learn(t, n)
      \/ stats' = NoStats /\ ewma' = NoAverage
  BY DEF Next, RunOnce, Reattempt, Publish, Skip, Observe, Detect, Poll, SendDetection,
         SendCandidate, Flush, Deliver, GiveUp, Raise, Crash, Forget, Restart, memory, consumer, vars
<1>2. CASE UNCHANGED <<stats, ewma>>
  BY <1>2 DEF AveragesAgree
<1>3. CASE \E t \in Tx : \E n \in Events(t) : Learn(t, n)
  BY <1>3, LearnAgrees
<1>4. CASE stats' = NoStats /\ ewma' = NoAverage
  <2>1. \A k \in Key : /\ stats'[k].failures = 0 /\ stats'[k].total = 0
                       /\ ewma'[k].initialized = FALSE
    BY <1>4 DEF NoStats, NoAverage
  <2> QED BY <2>1 DEF AveragesAgree
<1> QED BY <1>1, <1>2, <1>3, <1>4

\* A provider whose average is below the threshold has failed at half of its events,
\* or three times: with fewer failures the floor of the average is above it.
LEMMA AgreedMeansObserved ==
    ASSUME Typed, AveragesAgree
    PROVE  DegradationIsObserved
<1> SUFFICES ASSUME NEW k \in Key, Degraded(ewma[k])
             PROVE  stats[k].failures >= 3 \/ 2 * stats[k].failures >= stats[k].total
  BY DEF DegradationIsObserved
<1> DEFINE total == stats[k].total
           failures == stats[k].failures
           value == ewma[k].value
<1>1. total \in Nat /\ failures \in Nat /\ value \in Int /\ Unit \in Nat
  BY DEF Typed, TypeOK, Unit
<1>2. value < 4500 * Unit /\ value >= Floor(total, failures)
  BY DEF Degraded, AveragesAgree
<1> HIDE DEF total, failures, value
<1>3. failures = 0 => FALSE
  BY <1>1, <1>2, SMT DEF Floor
<1>4. failures = 1 => total <= 2
  BY <1>1, <1>2, SMT DEF Floor
<1>5. failures = 2 => total <= 4
  BY <1>1, <1>2, SMT DEF Floor
<1>6. failures >= 3 \/ 2 * failures >= total
  BY <1>1, <1>3, <1>4, <1>5
<1> QED BY <1>6 DEF failures, total

\* The two memories of a provider agree, for every sequence of events of any
\* length: a provider is reported as degraded only if half of its events failed, or three.
THEOREM DegradationIsObservedHolds == Spec => []DegradationIsObserved
<1>1. Init => Typed /\ AveragesAgree
  <2>1. Init => AveragesAgree
    BY DEF Init, NoStats, NoAverage, AveragesAgree
  <2> QED BY <2>1, InitTyped
<1>2. Typed /\ AveragesAgree /\ [Next]_vars => (Typed /\ AveragesAgree)'
  BY StepTyped, StepAverages
<1>3. Typed /\ AveragesAgree => DegradationIsObserved
  BY AgreedMeansObserved
<1> QED BY <1>1, <1>2, <1>3, PTL DEF Spec

-----------------------------------------------------------------------------
(* What growing scripts and topics leave true *)

LEMMA StepGrows ==
    ASSUME Typed, [Next]_vars
    PROVE  SourceGrows
<1>1. ASSUME UNCHANGED source
      PROVE  SourceGrows
  <2>1. script' = script /\ log' = log
    BY <1>1 DEF source
  <2>2. \A u \in Tx : Len(script[u]) \in Nat
    BY DEF Typed, ScriptTyped
  <2>3. \A st \in Stage, u \in Tx : Len(log[st][u]) \in Nat
    BY DEF Typed, TypeOK
  <2> QED BY <2>1, <2>2, <2>3 DEF SourceGrows
<1>2. ASSUME NEW t \in Tx, NEW s \in Seq(SourceEvent),
             Len(script[t]) + Len(s) <= MaxEvents, Publish(t, s)
      PROVE  SourceGrows
  BY <1>2, PublishGrows DEF Typed, TypeOK
<1>3. ASSUME NEW s \in Stage, NEW t \in Tx, NEW n \in Events(t),
             Skip(s, t, n) \/ Observe(s, t, n) \/ Detect(s, t, n)
      PROVE  UNCHANGED source
  BY <1>3 DEF Skip, Observe, Detect
<1>4. ASSUME NEW p \in outbox, GiveUp(p) \/ \E k \in {0, 1} : Deliver(p, k)
      PROVE  UNCHANGED source
  BY <1>4 DEF GiveUp, Deliver
<1>5. ASSUME Poll \/ SendDetection \/ SendCandidate \/ Flush \/ Raise \/ Crash \/ Restart
                 \/ UNCHANGED vars
      PROVE  UNCHANGED source
  BY <1>5 DEF Poll, SendDetection, SendCandidate, Flush, Raise, Crash, Restart, vars, source
<1>6. ScriptTyped
  BY DEF Typed
<1> QED BY <1>1, <1>2, <1>3, <1>4, <1>5, <1>6, StepKinds

LEMMA SourceParts ==
    ASSUME NEW x \in Sources
    PROVE  x[1] \in Tx /\ x[2] \in 1..MaxEvents /\ x[2] \in Nat /\ x = <<x[1], x[2]>>
BY BoundAssumption DEF BoundAssumption, Sources

\* An event of a script stays what it is, and one that has arrived has arrived.
LEMMA EventStays ==
    ASSUME Typed, SourceGrows, NEW x \in Sources, x[2] <= Len(script[x[1]])
    PROVE  x[2] <= Len(script'[x[1]]) /\ script'[x[1]][x[2]] = script[x[1]][x[2]]
<1>1. x[1] \in Tx /\ x[2] \in 1..MaxEvents /\ x[2] \in Nat
  BY SourceParts
<1>2. Len(script[x[1]]) \in Nat
  BY <1>1 DEF Typed, ScriptTyped
<1>3. x[2] \in Events(x[1])
  BY <1>1, <1>2 DEF Events
<1> QED BY <1>1, <1>2, <1>3 DEF SourceGrows

LEMMA StageOfEvent ==
    ASSUME Typed, NEW x \in Sources, x[2] <= Len(script[x[1]])
    PROVE  /\ script[x[1]][x[2]] \in SourceEvent
           /\ StageOf[script[x[1]][x[2]].type] \in Stage
<1>1. x[1] \in Tx /\ x[2] \in Events(x[1])
  BY SourceParts DEF Events, Typed, ScriptTyped
<1>2. script[x[1]][x[2]] \in SourceEvent
  BY <1>1, YieldedEvent DEF Typed
<1> QED BY <1>2, StageOfType DEF SourceEvent

LEMMA ArrivedStays ==
    ASSUME Typed, SourceGrows, NEW x \in Sources, Arrived(x)
    PROVE  Arrived(x)'
<1> DEFINE st == StageOf[script[x[1]][x[2]].type]
<1>1. x[2] <= Len(script'[x[1]]) /\ script'[x[1]][x[2]] = script[x[1]][x[2]]
  BY EventStays DEF Arrived
<1>2. st \in Stage /\ x[1] \in Tx
  BY StageOfEvent, SourceParts DEF Arrived
<1>3. PICK i \in 1..Len(log[st][x[1]]) : log[st][x[1]][i] = x[2]
  BY DEF Arrived
<1> HIDE DEF st
<1>4. log'[st][x[1]][i] = x[2] /\ i \in 1..Len(log'[st][x[1]])
  BY <1>2, <1>3 DEF SourceGrows
<1>5. StageOf[script'[x[1]][x[2]].type] = st
  BY <1>1 DEF st
<1>6. \E j \in 1..Len(log'[StageOf[script'[x[1]][x[2]].type]][x[1]]) :
          log'[StageOf[script'[x[1]][x[2]].type]][x[1]][j] = x[2]
  BY <1>4, <1>5
<1> QED BY <1>1, <1>6 DEF Arrived, Sources

LEMMA FailedArrived ==
    ASSUME NEW x \in Sources
    PROVE  HasFailed(x) <=> Arrived(x) /\ Failing(x)
BY DEF HasFailed, Arrived, Failing

LEMMA FailingStays ==
    ASSUME Typed, SourceGrows, NEW x \in Sources, Failing(x)
    PROVE  Failing(x)'
<1>1. x[2] <= Len(script'[x[1]]) /\ script'[x[1]][x[2]] = script[x[1]][x[2]]
  BY EventStays DEF Failing
<1> QED BY <1>1 DEF Failing, IsFailure

LEMMA FailedStays ==
    ASSUME Typed, SourceGrows, NEW x \in Sources, HasFailed(x)
    PROVE  HasFailed(x)'
<1>1. Arrived(x) /\ Failing(x)
  BY FailedArrived
<1>2. Arrived(x)' /\ Failing(x)'
  BY <1>1, ArrivedStays, FailingStays
<1> QED BY <1>2 DEF HasFailed, Arrived, Failing

LEMMA FaultStays ==
    ASSUME Typed, SourceGrows, NEW x \in Sources, NEW k, Fault(x, k)
    PROVE  Fault(x, k)'
<1>1. HasFailed(x)'
  BY FailedStays DEF Fault
<1>2. script'[x[1]][x[2]] = script[x[1]][x[2]]
  BY EventStays DEF Fault, HasFailed
<1> QED BY <1>1, <1>2 DEF Fault, KeyOf

LEMMA RecordStays ==
    ASSUME Typed, SourceGrows, NEW r, RecordFits(r)
    PROVE  RecordFits(r)'
<1> DEFINE x == <<r.tx, r.event>>
<1>1. x \in Sources /\ HasFailed(x) /\ x[1] = r.tx /\ x[2] = r.event
  BY DEF RecordFits
<1>2. HasFailed(x)'
  BY <1>1, FailedStays
<1>3. script'[r.tx][r.event] = script[r.tx][r.event]
  BY <1>1, EventStays DEF HasFailed
<1>4. PICK k : k = <<StageOf[script[r.tx][r.event].type], r.cause>>
  OBVIOUS
<1>5. k = <<StageOf[script'[r.tx][r.event].type], r.cause>>
  BY <1>3, <1>4
<1>6. ASSUME r.cause # 0
      PROVE  \E y, z \in Sources : y # z /\ Fault(y, k)' /\ Fault(z, k)'
  <2>1. PICK y \in Sources, z \in Sources : y # z /\ Fault(y, k) /\ Fault(z, k)
    BY <1>4, <1>6 DEF RecordFits, Supported
  <2>2. Fault(y, k)' /\ Fault(z, k)'
    BY <2>1, FaultStays
  <2> QED BY <2>1, <2>2
<1>7. Supported(StageOf[script[r.tx][r.event].type], r.cause)'
  BY <1>5, <1>6 DEF Supported, Sources
<1> QED BY <1>1, <1>2, <1>7 DEF RecordFits, Sources

\* What has been read by a group, it had read before: what is new on a topic lies
\* beyond the positions.
LEMMA ReadIsOld ==
    ASSUME Typed, LogsAgree, SourceGrows, NEW k, NEW x \in Sources,
           \A s \in Stage, t \in Tx : k[s][t] \in Nat /\ k[s][t] <= Len(log[s][t]),
           NEW s0 \in Stage, NEW i \in 1..k[s0][x[1]], log'[s0][x[1]][i] = x[2], Failing(x)'
    PROVE  Failing(x) /\ HasRead(k, x)
<1>1. x[1] \in Tx /\ x[2] \in Nat
  BY SourceParts
<1>2. i \in 1..Len(log[s0][x[1]])
  BY <1>1 DEF Typed, TypeOK
<1>3. log[s0][x[1]][i] = x[2]
  BY <1>1, <1>2 DEF SourceGrows
<1>4. x[2] \in Events(x[1])
  BY <1>1, <1>2, <1>3 DEF LogsAgree, Belongs
<1>5. x[2] <= Len(script[x[1]]) /\ script'[x[1]][x[2]] = script[x[1]][x[2]]
  BY <1>1, <1>4 DEF SourceGrows, Events
<1>6. Failing(x)
  BY <1>5 DEF Failing, IsFailure
<1> QED BY <1>3, <1>6 DEF HasRead

-----------------------------------------------------------------------------
(* Topics, positions and what was seen *)

Placed == LogsAgree /\ InOrder /\ SeenArrived

LEMMA StepLogs ==
    ASSUME Typed, LogsAgree, [Next]_vars
    PROVE  LogsAgree'
<1> SUFFICES ASSUME NEW s \in Stage, NEW t \in Tx, NEW i \in 1..Len(log'[s][t])
             PROVE  Belongs(log[s][t][i], s, t)'
  BY DEF LogsAgree
<1>1. SourceGrows
  BY StepGrows
<1>2. Typed'
  BY StepTyped
<1>3. Len(log[s][t]) \in Nat /\ Len(log'[s][t]) \in Nat /\ Len(script[t]) \in Nat
      /\ Len(script'[t]) \in Nat
  BY <1>2 DEF Typed, TypeOK, ScriptTyped
<1>4. CASE i \in 1..Len(log[s][t])
  <2>1. log'[s][t][i] = log[s][t][i]
    BY <1>1, <1>4 DEF SourceGrows
  <2>2. log[s][t][i] \in Events(t) /\ StageOf[script[t][log[s][t][i]].type] = s
    BY <1>4 DEF LogsAgree, Belongs
  <2>3. script'[t][log[s][t][i]] = script[t][log[s][t][i]] /\ Len(script[t]) <= Len(script'[t])
    BY <1>1, <2>2 DEF SourceGrows
  <2> QED BY <1>3, <2>1, <2>2, <2>3 DEF Belongs, Events
<1>5. CASE i \notin 1..Len(log[s][t])
  <2>1. i \in (Len(log[s][t]) + 1)..Len(log'[s][t])
    BY <1>3, <1>5
  <2>2. /\ log'[s][t][i] \in (Len(script[t]) + 1)..Len(script'[t])
        /\ StageOf[script'[t][log'[s][t][i]].type] = s
    BY <1>1, <2>1 DEF SourceGrows
  <2> QED BY <1>3, <2>2 DEF Belongs, Events
<1> QED BY <1>4, <1>5

\* The positions move in five ways.
LEMMA PositionKinds ==
    ASSUME [Next]_vars
    PROVE  \/ UNCHANGED <<committed, position>>
           \/ Poll
           \/ /\ UNCHANGED <<source, committed>>
              /\ \E s \in Stage, t \in Tx : \E n \in Events(t) : Yields(s, t, n)
           \/ Raise \/ Crash
BY DEF Next, RunOnce, Reattempt, Publish, Skip, Observe, Detect, SendDetection,
       SendCandidate, Flush, Deliver, GiveUp, Restart, consumer, vars

LEMMA StepInOrder ==
    ASSUME Typed, InOrder, [Next]_vars
    PROVE  InOrder'
<1>1. SourceGrows /\ Typed'
  BY StepGrows, StepTyped
<1>2. \A s \in Stage, t \in Tx : /\ Len(log[s][t]) <= Len(log'[s][t])
                                 /\ Len(log[s][t]) \in Nat /\ Len(log'[s][t]) \in Nat
                                 /\ committed[s][t] \in Nat /\ position[s][t] \in Nat
  BY <1>1 DEF SourceGrows, Typed, TypeOK
<1>3. CASE UNCHANGED <<committed, position>>
  BY <1>2, <1>3 DEF InOrder
<1>4. CASE Poll
  BY <1>2, <1>4 DEF InOrder, Poll
<1>5. ASSUME NEW s0 \in Stage, NEW t0 \in Tx, NEW n \in Events(t0), Yields(s0, t0, n),
             UNCHANGED <<source, committed>>
      PROVE  InOrder'
  <2>1. position' = [position EXCEPT ![s0] = [position[s0] EXCEPT ![t0] = position[s0][t0] + 1]]
    BY <1>5, YieldsTyped
  <2>2. position[s0][t0] < Len(log[s0][t0])
    BY <1>5 DEF Yields
  <2>3. position \in [Stage -> [Tx -> Nat]]
    BY DEF Typed, TypeOK
  <2>4. \A s \in Stage, t \in Tx :
            position'[s][t] = IF s = s0 /\ t = t0 THEN position[s][t] + 1 ELSE position[s][t]
    BY <2>1, <2>3
  <2>5. log' = log /\ committed' = committed
    BY <1>5 DEF source
  <2>6. \A s \in Stage, t \in Tx :
            committed[s][t] <= position'[s][t] /\ position'[s][t] <= Len(log[s][t])
    BY <1>2, <2>2, <2>4 DEF InOrder
  <2> QED BY <2>5, <2>6 DEF InOrder
<1>6. CASE Raise \/ Crash
  <2>1. position' = committed' /\ committed' \in {committed, position} /\ log' = log
    BY <1>6 DEF Raise, Crash, source
  <2> QED BY <1>2, <2>1 DEF InOrder
<1> QED BY <1>3, <1>4, <1>5, <1>6, PositionKinds

\* An event that is yielded has arrived.
LEMMA YieldedArrived ==
    ASSUME Typed, LogsAgree, NEW s \in Stage, NEW t \in Tx, NEW n \in Events(t), Yields(s, t, n)
    PROVE  Arrived(<<t, n>>)
<1> DEFINE i == position[s][t] + 1
<1>1. i \in 1..Len(log[s][t]) /\ log[s][t][i] = n
  BY DEF Yields, Typed, TypeOK
<1>2. StageOf[script[t][n].type] = s /\ n <= Len(script[t])
  <2>1. n \in Events(t) /\ StageOf[script[t][n].type] = s
    BY <1>1 DEF LogsAgree, Belongs
  <2> QED BY <2>1 DEF Events, Typed, ScriptTyped
<1>3. <<t, n>> \in Sources
  BY YieldedEvent DEF Typed
<1>4. \E j \in 1..Len(log[s][t]) : log[s][t][j] = n
  BY <1>1
<1> QED BY <1>2, <1>3, <1>4 DEF Arrived

\* The memory of what was seen changes in three ways.
LEMMA SeenKinds ==
    ASSUME [Next]_vars
    PROVE  \/ UNCHANGED <<seen, stats>>
           \/ /\ UNCHANGED <<source, published, crashes, errors, copies>>
              /\ \E s \in Stage, t \in Tx : \E n \in Events(t) : Yields(s, t, n) /\ Learn(t, n)
           \/ (Raise \/ Crash) /\ seen' = {} /\ stats' = NoStats
<1>1. ASSUME NEW s \in Stage, NEW t \in Tx, NEW n \in Events(t), Observe(s, t, n) \/ Detect(s, t, n)
      PROVE  /\ UNCHANGED <<source, published, crashes, errors, copies>>
             /\ Yields(s, t, n) /\ Learn(t, n)
  BY <1>1 DEF Observe, Detect, bounds
<1>2. ASSUME Raise \/ Crash
      PROVE  seen' = {} /\ stats' = NoStats
  BY <1>2 DEF Raise, Crash, Forget
<1>3. ASSUME NEW s \in Stage, NEW t \in Tx, NEW n \in Events(t), Skip(s, t, n)
      PROVE  UNCHANGED <<seen, stats>>
  BY <1>3 DEF Skip, memory
<1>4. ASSUME NEW t \in Tx,
             (\E s \in Publishable : RunOnce(t, s)) \/ (\E s \in Followups : Reattempt(t, s))
      PROVE  UNCHANGED <<seen, stats>>
  BY <1>4 DEF RunOnce, Reattempt, Publish, consumer
<1>5. ASSUME NEW p \in outbox, GiveUp(p) \/ \E k \in {0, 1} : Deliver(p, k)
      PROVE  UNCHANGED <<seen, stats>>
  BY <1>5 DEF GiveUp, Deliver, memory
<1>6. ASSUME Poll \/ SendDetection \/ SendCandidate \/ Flush \/ Restart \/ UNCHANGED vars
      PROVE  UNCHANGED <<seen, stats>>
  BY <1>6 DEF Poll, SendDetection, SendCandidate, Flush, Restart, memory, vars
<1> QED BY <1>1, <1>2, <1>3, <1>4, <1>5, <1>6 DEF Next

LEMMA StepSeen ==
    ASSUME Typed, LogsAgree, SeenArrived, [Next]_vars
    PROVE  SeenArrived'
<1>1. SourceGrows
  BY StepGrows
<1>2. seen \subseteq Sources
  BY DEF Typed, TypeOK
<1>3. CASE UNCHANGED <<seen, stats>>
  <2>1. ASSUME NEW x \in seen
        PROVE  Arrived(x)'
    BY <1>1, <1>2, ArrivedStays DEF SeenArrived
  <2> QED BY <1>3, <2>1 DEF SeenArrived
<1>4. ASSUME NEW s \in Stage, NEW t \in Tx, NEW n \in Events(t), Yields(s, t, n), Learn(t, n)
      PROVE  SeenArrived'
  <2>1. PICK y : y = <<t, n>>
    OBVIOUS
  <2>2. Arrived(y) /\ y \in Sources
    BY <1>4, <2>1, YieldedArrived, YieldedEvent DEF Typed
  <2>3. ASSUME NEW x \in seen \cup {y}
        PROVE  Arrived(x)'
    <3>1. Arrived(x) /\ x \in Sources
      BY <1>2, <2>2 DEF SeenArrived
    <3> QED BY <1>1, <3>1, ArrivedStays
  <2>4. seen' = seen \cup {y}
    BY <1>4, <2>1 DEF Learn
  <2> QED BY <2>3, <2>4 DEF SeenArrived
<1>5. CASE seen' = {}
  BY <1>5 DEF SeenArrived
<1> QED BY <1>3, <1>4, <1>5, SeenKinds

LEMMA StepPlaced ==
    ASSUME Typed, Placed, [Next]_vars
    PROVE  Placed'
BY StepLogs, StepInOrder, StepSeen DEF Placed

-----------------------------------------------------------------------------
(* What becomes of the record of a failure *)

\* Topics only get longer, and what is added is the current record.
LEMMA PublishedGrows ==
    ASSUME Typed, [Next]_vars, NEW p \in Topic, NEW t \in Tx
    PROVE  /\ Len(published[p][t]) <= Len(published'[p][t])
           /\ Len(published[p][t]) \in Nat /\ Len(published'[p][t]) \in Nat
           /\ \A i \in 1..Len(published[p][t]) : published'[p][t][i] = published[p][t][i]
           /\ \A i \in (Len(published[p][t]) + 1)..Len(published'[p][t]) :
                  published'[p][t][i] = current /\ t = current.tx /\ p \in outbox
<1>1. published \in [Topic -> [Tx -> Seq(Records)]] /\ Len(published[p][t]) \in Nat
  BY DEF Typed, TypeOK
<1>2. CASE published' = published
  BY <1>1, <1>2
<1>3. ASSUME NEW q \in outbox, NEW k \in {0, 1}, Deliver(q, k)
      PROVE  /\ Len(published[p][t]) <= Len(published'[p][t])
             /\ Len(published'[p][t]) \in Nat
             /\ \A i \in 1..Len(published[p][t]) : published'[p][t][i] = published[p][t][i]
             /\ \A i \in (Len(published[p][t]) + 1)..Len(published'[p][t]) :
                    published'[p][t][i] = current /\ t = current.tx /\ p \in outbox
  <2> DEFINE more == [i \in 1..(1 + k) |-> current]
             old == published[p][t]
  <2>1. published' = [published EXCEPT ![q] = [published[q] EXCEPT
            ![current.tx] = published[q][current.tx] \o more]]
    BY <1>3, DeliverTyped
  <2>2. q \in Topic /\ current.tx \in Tx /\ current \in Records
    BY InOutbox
  <2>3. /\ more \in Seq(Records) /\ Len(more) \in Nat
        /\ \A i \in 1..Len(more) : more[i] = current
    BY <2>2
  <2> HIDE DEF more
  <2>4. CASE p = q /\ t = current.tx
    <3>1. published'[p][t] = old \o more
      BY <1>1, <2>1, <2>2, <2>4
    <3>2. old \in Seq(Records)
      BY <1>1
    <3> HIDE DEF old
    <3>3. /\ Len(old \o more) = Len(old) + Len(more) /\ Len(old) \in Nat
          /\ \A i \in 1..Len(old) : (old \o more)[i] = old[i]
          /\ \A i \in (Len(old) + 1)..(Len(old) + Len(more)) : (old \o more)[i] = more[i - Len(old)]
      BY <2>3, <3>2
    <3>4. \A i \in (Len(old) + 1)..(Len(old) + Len(more)) : i - Len(old) \in 1..Len(more)
      BY <2>3, <3>3
    <3>5. \A i \in (Len(old) + 1)..(Len(old) + Len(more)) : (old \o more)[i] = current
      BY <2>3, <3>3, <3>4
    <3>6. Len(old) <= Len(old \o more) /\ Len(old \o more) \in Nat
      BY <2>3, <3>3
    <3> QED BY <2>4, <3>1, <3>3, <3>5, <3>6 DEF old
  <2>5. CASE ~ (p = q /\ t = current.tx)
    <3>1. published'[p][t] = old
      BY <1>1, <2>1, <2>2, <2>5
    <3>2. \A i \in (Len(old) + 1)..Len(old) : FALSE
      BY <1>1
    <3> QED BY <1>1, <3>1, <3>2
  <2> QED BY <2>4, <2>5
<1>4. published' = published \/ \E q \in outbox, k \in {0, 1} : Deliver(q, k)
  BY DEF Next, RunOnce, Reattempt, Publish, Skip, Observe, Detect, Poll, SendDetection,
         SendCandidate, Flush, GiveUp, Raise, Crash, Restart, consumer, vars
<1> QED BY <1>1, <1>2, <1>3, <1>4

\* What is on a topic, or given up, stays so.
LEMMA StepSettled ==
    ASSUME Typed, [Next]_vars, NEW p \in Topic, NEW x \in Sources, Settled(p, x)
    PROVE  Settled(p, x)'
<1>1. x[1] \in Tx
  BY SourceParts
<1>2. CASE Published(p, x)
  <2>1. PICK i \in 1..Len(published[p][x[1]]) : published[p][x[1]][i].event = x[2]
    BY <1>2 DEF Published
  <2>2. published'[p][x[1]][i].event = x[2] /\ i \in 1..Len(published'[p][x[1]])
    BY <1>1, <2>1, PublishedGrows
  <2> QED BY <2>2 DEF Settled, Published
<1>3. CASE x \in excused[p]
  <2>1. excused \in [Topic -> SUBSET Sources]
    BY DEF Typed, TypeOK
  <2>2. \/ excused' = excused
        \/ \E q \in outbox : GiveUp(q)
        \/ Raise
    BY DEF Next, RunOnce, Reattempt, Publish, Skip, Observe, Detect, Poll, SendDetection,
           SendCandidate, Flush, Deliver, Crash, Restart, consumer, vars
  <2>3. excused[p] \subseteq excused'[p]
    BY <2>1, <2>2 DEF GiveUp, Raise
  <2> QED BY <1>3, <2>3 DEF Settled
<1> QED BY <1>2, <1>3 DEF Settled

\* A record that still has to go somewhere goes there, is given up, or is still to go,
\* as long as the process lives.
LEMMA StepHandled ==
    ASSUME Typed, [Next]_vars, ~ (Raise \/ Crash),
           NEW p \in Topic, NEW x \in Sources, Handled(p, x)
    PROVE  Handled(p, x)'
<1>1. CASE Settled(p, x)
  BY <1>1, StepSettled DEF Handled
<1>2. CASE InHand(x) /\ Owed(p)
  <2> USE <1>2
  <2>0. /\ pc \in {"detected", "offered", "flush"} /\ x = <<current.tx, current.event>>
        /\ current \in Records
    BY DEF InHand, Typed, TypeOK
  <2>1. CASE SendDetection
    BY <2>0, <2>1 DEF SendDetection, InHand, Owed, Handled, Topic
  <2>2. CASE SendCandidate
    <3>1. /\ pc = "offered" /\ pc' = "flush" /\ outbox' = outbox \cup {"recovery.events"}
          /\ current' = current
      BY <2>2 DEF SendCandidate
    <3>2. p \in outbox'
      BY <3>1 DEF Owed
    <3> QED BY <2>0, <3>1, <3>2 DEF InHand, Owed, Handled
  <2>3. CASE Flush
    BY <2>3 DEF Flush, Owed
  <2>4. ASSUME NEW q \in outbox, NEW k \in {0, 1}, Deliver(q, k)
        PROVE  Handled(p, x)'
    <3>1. outbox' = outbox \ {q} /\ pc' = pc /\ current' = current
      BY <2>4 DEF Deliver
    <3>2. CASE p # q
      BY <2>0, <3>1, <3>2 DEF InHand, Owed, Handled
    <3>3. CASE p = q
      <4> DEFINE t == current.tx
                 old == published[p][t]
                 more == [i \in 1..(1 + k) |-> current]
      <4>1. t \in Tx /\ x[1] = t /\ x[2] = current.event
        BY <2>0, RecordsSubscripts
      <4>2. published \in [Topic -> [Tx -> Seq(Records)]]
        BY DEF Typed, TypeOK
      <4>3. published' = [published EXCEPT ![q] = [published[q] EXCEPT
                ![current.tx] = published[q][current.tx] \o more]]
        BY <2>4, DeliverTyped
      <4>4. more \in Seq(Records) /\ Len(more) = 1 + k /\ more[1] = current
        BY <2>0
      <4> HIDE DEF more
      <4>5. published'[p][t] = old \o more /\ old \in Seq(Records)
        BY <3>3, <4>1, <4>2, <4>3
      <4> HIDE DEF old
      <4>6. Len(old) + 1 \in 1..Len(old \o more) /\ (old \o more)[Len(old) + 1] = current
        BY <4>4, <4>5
      <4>7. published'[p][t][Len(old) + 1] = current /\ Len(old) + 1 \in 1..Len(published'[p][t])
        BY <4>5, <4>6
      <4>8. \E i \in 1..Len(published'[p][x[1]]) : published'[p][x[1]][i].event = x[2]
        BY <4>1, <4>7
      <4> QED BY <4>8 DEF Handled, Settled, Published
    <3> QED BY <3>2, <3>3
  <2>5. ASSUME NEW q \in outbox, GiveUp(q)
        PROVE  Handled(p, x)'
    <3>1. /\ outbox' = outbox \ {q} /\ pc' = pc /\ current' = current
          /\ excused' = [excused EXCEPT ![q] = excused[q] \cup {<<current.tx, current.event>>}]
      BY <2>5 DEF GiveUp
    <3>2. CASE p # q
      BY <2>0, <3>1, <3>2 DEF InHand, Owed, Handled
    <3>3. CASE p = q
      <4>1. x \in excused'[p]
        BY <2>0, <3>1, <3>3 DEF Typed, TypeOK
      <4> QED BY <4>1 DEF Handled, Settled
    <3> QED BY <3>2, <3>3
  <2>6. ASSUME UNCHANGED <<pc, current, outbox>>
        PROVE  Handled(p, x)'
    BY <2>6 DEF InHand, Owed, Handled
  <2>7. \/ SendDetection \/ SendCandidate \/ Flush
        \/ \E q \in outbox : GiveUp(q) \/ \E k \in {0, 1} : Deliver(q, k)
        \/ UNCHANGED <<pc, current, outbox>>
    <3>1. pc # "idle" /\ pc # "down"
      BY <2>0
    <3>2. ASSUME NEW s \in Stage, NEW t \in Tx, NEW n \in Events(t),
                 Skip(s, t, n) \/ Observe(s, t, n) \/ Detect(s, t, n)
          PROVE  FALSE
      BY <3>1, <3>2 DEF Skip, Observe, Detect, Yields
    <3>3. ASSUME NEW t \in Tx, NEW s \in Seq(SourceEvent), Publish(t, s)
          PROVE  UNCHANGED <<pc, current, outbox>>
      BY <3>3 DEF Publish, consumer
    <3>4. ASSUME Poll \/ Restart \/ UNCHANGED vars
          PROVE  UNCHANGED <<pc, current, outbox>>
      BY <3>1, <3>4 DEF Poll, Restart, vars
    <3>5. ScriptTyped
      BY DEF Typed
    <3> QED BY <3>2, <3>3, <3>4, <3>5, StepKinds
  <2> QED BY <2>1, <2>2, <2>3, <2>4, <2>5, <2>6, <2>7
<1> QED BY <1>1, <1>2 DEF Handled

LEMMA InOrderBounds ==
    ASSUME Typed, InOrder, NEW s \in Stage, NEW t \in Tx
    PROVE  /\ committed[s][t] \in Nat /\ committed[s][t] <= Len(log[s][t])
           /\ position[s][t] \in Nat /\ position[s][t] <= Len(log[s][t])
<1>1. committed[s][t] \in Nat /\ position[s][t] \in Nat /\ Len(log[s][t]) \in Nat
  BY DEF Typed, TypeOK
<1> QED BY <1>1 DEF InOrder

\* What a group has read of the failures it had read before the step, if its
\* positions stay.
LEMMA CommittedIsOld ==
    ASSUME Typed, Placed, [Next]_vars, NEW x \in Sources, Failing(x)',
           NEW s0 \in Stage, NEW i \in 1..committed[s0][x[1]], log'[s0][x[1]][i] = x[2]
    PROVE  Failing(x) /\ HasRead(committed, x)
<1>1. SourceGrows /\ LogsAgree /\ InOrder
  BY StepGrows DEF Placed
<1>2. PICK c : c = committed
  OBVIOUS
<1>3. \A s \in Stage, t \in Tx : c[s][t] \in Nat /\ c[s][t] <= Len(log[s][t])
  BY <1>1, <1>2, InOrderBounds
<1>4. i \in 1..c[s0][x[1]]
  BY <1>2
<1>5. Failing(x) /\ HasRead(c, x)
  BY <1>1, <1>3, <1>4, ReadIsOld
<1> QED BY <1>2, <1>5

LEMMA PositionIsOld ==
    ASSUME Typed, Placed, [Next]_vars, NEW x \in Sources, Failing(x)',
           NEW s0 \in Stage, NEW i \in 1..position[s0][x[1]], log'[s0][x[1]][i] = x[2]
    PROVE  Failing(x) /\ HasRead(position, x)
<1>1. SourceGrows /\ LogsAgree /\ InOrder
  BY StepGrows DEF Placed
<1>2. PICK c : c = position
  OBVIOUS
<1>3. \A s \in Stage, t \in Tx : c[s][t] \in Nat /\ c[s][t] <= Len(log[s][t])
  BY <1>1, <1>2, InOrderBounds
<1>4. i \in 1..c[s0][x[1]]
  BY <1>2
<1>5. Failing(x) /\ HasRead(c, x)
  BY <1>1, <1>3, <1>4, ReadIsOld
<1> QED BY <1>2, <1>5

\* What is committed has its records: a commit falls between two records of the loop,
\* or the record in hand is excused.
LEMMA StepCommitted ==
    ASSUME Typed, Placed, CommittedSettled, ReadHandled, [Next]_vars
    PROVE  CommittedSettled'
<1> SUFFICES ASSUME NEW x \in Sources, Failing(x)', HasRead(committed, x)', NEW p \in Topic
             PROVE  Settled(p, x)'
  BY DEF CommittedSettled, Sources
<1>0. PICK s0 \in Stage : \E i \in 1..committed'[s0][x[1]] : log'[s0][x[1]][i] = x[2]
  BY DEF HasRead
<1>1. PICK i \in 1..committed'[s0][x[1]] : log'[s0][x[1]][i] = x[2]
  BY <1>0
<1>2. CASE committed' = committed
  <2>1. i \in 1..committed[s0][x[1]]
    BY <1>1, <1>2
  <2>2. Failing(x) /\ HasRead(committed, x)
    BY <1>1, <2>1, CommittedIsOld
  <2>3. Settled(p, x)
    BY <2>2 DEF CommittedSettled
  <2> QED BY <2>3, StepSettled
<1>3. CASE committed' = position /\ (Poll \/ (Raise /\ committed' = position))
  <2>1. i \in 1..position[s0][x[1]]
    BY <1>1, <1>3
  <2>2. Failing(x) /\ HasRead(position, x)
    BY <1>1, <2>1, PositionIsOld
  <2>3. Handled(p, x)
    BY <2>2 DEF ReadHandled
  <2>4. CASE Settled(p, x)
    BY <2>4, StepSettled
  <2>5. CASE InHand(x)
    <3>1. Raise /\ x = <<current.tx, current.event>>
      BY <1>3, <2>5 DEF Poll, InHand
    <3>2. excused' = [q \in Topic |-> excused[q] \cup {<<current.tx, current.event>>}]
      BY <1>3, <3>1 DEF Raise
    <3>3. x \in excused'[p]
      BY <3>1, <3>2
    <3> QED BY <3>3 DEF Settled
  <2> QED BY <2>3, <2>4, <2>5 DEF Handled
<1>4. \/ committed' = committed
      \/ committed' = position /\ (Poll \/ (Raise /\ committed' = position))
  <2>1. Poll => committed' = position
    BY DEF Poll
  <2>2. Raise => committed' \in {committed, position}
    BY DEF Raise
  <2>3. Crash => committed' = committed
    BY DEF Crash
  <2> QED BY <2>1, <2>2, <2>3, PositionKinds
<1> QED BY <1>2, <1>3, <1>4

LEMMA StepSeenHandled ==
    ASSUME Typed, Placed, SeenHandled, [Next]_vars
    PROVE  SeenHandled'
<1>1. seen \subseteq Sources /\ SourceGrows
  BY StepGrows DEF Typed, TypeOK
<1>2. ASSUME NEW x \in seen, Failing(x)', NEW p \in Topic, ~ (Raise \/ Crash)
      PROVE  Handled(p, x)'
  <2>1. x \in Sources /\ x[2] <= Len(script[x[1]])
    BY <1>1 DEF Placed, SeenArrived, Arrived
  <2>2. Failing(x)
    <3>1. script'[x[1]][x[2]] = script[x[1]][x[2]]
      BY <1>1, <2>1, EventStays
    <3> QED BY <1>2, <2>1, <3>1 DEF Failing, IsFailure
  <2>3. Handled(p, x)
    BY <2>2 DEF SeenHandled
  <2> QED BY <1>2, <2>1, <2>3, StepHandled
<1>3. CASE UNCHANGED seen /\ ~ (Raise \/ Crash)
  BY <1>2, <1>3 DEF SeenHandled
<1>4. ASSUME NEW s \in Stage, NEW t \in Tx, NEW n \in Events(t), Observe(s, t, n) \/ Detect(s, t, n),
             ~ (Raise \/ Crash)
      PROVE  SeenHandled'
  <2>1. Yields(s, t, n) /\ Learn(t, n)
    BY <1>4 DEF Observe, Detect
  <2>2. seen' = seen \cup {<<t, n>>} /\ script' = script
    BY <1>4 DEF Observe, Detect, Learn, source
  <2>3. ASSUME Failing(<<t, n>>)', NEW p \in Topic
        PROVE  Handled(p, <<t, n>>)'
    <3>1. IsFailure(script[t][n])
      BY <2>2, <2>3 DEF Failing, IsFailure
    <3>2. Detect(s, t, n)
      BY <1>4, <3>1 DEF Observe
    <3>3. current' = Record(t, n) /\ pc' = "detected"
      BY <3>2 DEF Detect
    <3>4. current'.tx = t /\ current'.event = n
      BY <3>3 DEF Record
    <3> QED BY <3>3, <3>4 DEF Handled, InHand, Owed
  <2>4. ASSUME NEW x \in seen', Failing(x)', NEW p \in Topic
        PROVE  Handled(p, x)'
    <3>1. CASE x \in seen
      BY <1>2, <1>4, <2>4, <3>1
    <3>2. CASE x = <<t, n>>
      <4>1. PICK t1, n1 : t1 = t /\ n1 = n
        OBVIOUS
      <4> QED BY <2>3, <2>4, <3>2
    <3> QED BY <2>2, <3>1, <3>2
  <2> QED BY <2>4 DEF SeenHandled
<1>5. CASE Raise \/ Crash
  <2>1. seen' = {}
    BY <1>5 DEF Raise, Crash, Forget
  <2> QED BY <2>1 DEF SeenHandled
<1>6. \/ UNCHANGED seen \/ Raise \/ Crash
      \/ \E s \in Stage, t \in Tx : \E n \in Events(t) : Observe(s, t, n) \/ Detect(s, t, n)
  BY DEF Next, RunOnce, Reattempt, Publish, Skip, Poll, SendDetection, SendCandidate, Flush,
         Deliver, GiveUp, Restart, memory, consumer, vars
<1> QED BY <1>3, <1>4, <1>5, <1>6

LEMMA StepReadHandled ==
    ASSUME Typed, Placed, CommittedSettled, ReadHandled, SeenHandled, [Next]_vars
    PROVE  ReadHandled'
<1> SUFFICES ASSUME NEW x \in Sources, Failing(x)', HasRead(position, x)', NEW p \in Topic
             PROVE  Handled(p, x)'
  BY DEF ReadHandled, Sources
<1>0. PICK s0 \in Stage : \E i \in 1..position'[s0][x[1]] : log'[s0][x[1]][i] = x[2]
  BY DEF HasRead
<1>1. PICK i \in 1..position'[s0][x[1]] : log'[s0][x[1]][i] = x[2]
  BY <1>0
<1>2. x[1] \in Tx
  BY SourceParts
<1>3. CASE Raise \/ Crash
  <2>1. position' = committed'
    BY <1>3 DEF Raise, Crash
  <2>2. HasRead(committed, x)'
    BY <1>1, <2>1 DEF HasRead
  <2>3. CommittedSettled'
    BY StepCommitted
  <2> QED BY <2>2, <2>3 DEF CommittedSettled, Handled, Sources
<1>4. ASSUME ~ (Raise \/ Crash), i \in 1..position[s0][x[1]]
      PROVE  Handled(p, x)'
  <2>1. Failing(x) /\ HasRead(position, x)
    BY <1>1, <1>4, PositionIsOld
  <2> QED BY <1>4, <2>1, StepHandled DEF ReadHandled
<1>5. ASSUME NEW s \in Stage, NEW t \in Tx, NEW n \in Events(t),
             Skip(s, t, n) \/ Observe(s, t, n) \/ Detect(s, t, n), ~ (Raise \/ Crash)
      PROVE  Handled(p, x)'
  <2>1. Yields(s, t, n) /\ UNCHANGED <<script, log>>
    BY <1>5 DEF Skip, Observe, Detect, source
  <2>2. CASE i \in 1..position[s0][x[1]]
    BY <1>4, <1>5, <2>2
  <2>3. CASE i \notin 1..position[s0][x[1]]
    \* It is the event that is being yielded.
    <3>1. position' = [position EXCEPT ![s] = [position[s] EXCEPT ![t] = position[s][t] + 1]]
      BY <2>1, YieldsTyped
    <3>2. position \in [Stage -> [Tx -> Nat]]
      BY DEF Typed, TypeOK
    <3>3. s0 = s /\ x[1] = t /\ i = position[s][t] + 1
      BY <1>2, <2>3, <3>1, <3>2
    <3>4. x[2] = n
      BY <1>1, <2>1, <3>3 DEF Yields
    <3>5. x = <<t, n>>
      BY <3>3, <3>4, SourceParts
    <3>6. IsFailure(script[t][n]) /\ Failing(x)
      BY <2>1, <3>3, <3>4 DEF Failing, IsFailure
    <3>7. CASE Skip(s, t, n)
      <4>1. script[t][n] \in SourceEvent
        BY YieldedEvent DEF Typed
      <4>2. Valid(script[t][n])
        BY <3>6, <4>1, FailureIsValid
      <4>3. x \in seen
        BY <3>5, <3>7, <4>2 DEF Skip, SeenBefore
      <4>4. Handled(p, x)
        BY <3>6, <4>3 DEF SeenHandled
      <4> QED BY <1>5, <4>4, StepHandled
    <3>8. CASE Observe(s, t, n)
      BY <3>6, <3>8 DEF Observe
    <3>9. CASE Detect(s, t, n)
      <4>1. current' = Record(t, n) /\ pc' = "detected"
        BY <3>9 DEF Detect
      <4>2. current'.tx = t /\ current'.event = n
        BY <4>1 DEF Record
      <4> QED BY <3>5, <4>1, <4>2 DEF Handled, InHand, Owed
    <3> QED BY <1>5, <3>7, <3>8, <3>9
  <2> QED BY <2>2, <2>3
<1>6. CASE UNCHANGED position /\ ~ (Raise \/ Crash)
  <2>1. i \in 1..position[s0][x[1]]
    BY <1>6
  <2> QED BY <1>4, <1>6, <2>1
<1>7. \/ UNCHANGED position \/ Raise \/ Crash
      \/ \E s \in Stage, t \in Tx : \E n \in Events(t) :
             Skip(s, t, n) \/ Observe(s, t, n) \/ Detect(s, t, n)
  BY DEF Next, RunOnce, Reattempt, Publish, Poll, SendDetection, SendCandidate, Flush,
         Deliver, GiveUp, Restart, consumer, vars
<1> QED BY <1>3, <1>5, <1>6, <1>7

Answered == CommittedSettled /\ ReadHandled /\ SeenHandled

LEMMA InitAnswered == Init => Placed /\ Answered
<1> SUFFICES ASSUME Init PROVE Placed /\ Answered
  OBVIOUS
<1>1. /\ \A s \in Stage, t \in Tx : committed[s][t] = 0 /\ position[s][t] = 0 /\ log[s][t] = <<>>
      /\ seen = {}
  BY DEF Init
<1>2. \A s \in Stage, t \in Tx : Len(log[s][t]) = 0
  BY <1>1
<1>3. Placed
  BY <1>1, <1>2 DEF Placed, LogsAgree, InOrder, SeenArrived
<1>4. \A x \in Sources : ~ HasRead(committed, x) /\ ~ HasRead(position, x)
  BY <1>1, SourceParts DEF HasRead
<1> QED BY <1>1, <1>3, <1>4 DEF Answered, CommittedSettled, ReadHandled, SeenHandled

\* A failure whose offset is committed is on both topics or excused, for any number
\* of kills, exceptions and repeated events, and any interleaving with the producer.
THEOREM CommittedIsPublishedHolds == Spec => []CommittedIsPublished
<1> DEFINE I == Typed /\ Placed /\ Answered
<1>1. Init => I
  BY InitTyped, InitAnswered
<1>2. I /\ [Next]_vars => I'
  BY StepTyped, StepPlaced, StepCommitted, StepReadHandled, StepSeenHandled DEF Answered
<1>3. I => CommittedIsPublished
  BY FailedArrived DEF Answered, CommittedSettled, Settled, CommittedIsPublished, Failures
<1> HIDE DEF I
<1>4. Spec => []I
  BY <1>1, <1>2, PTL DEF Spec
<1> QED BY <1>3, <1>4, PTL

-----------------------------------------------------------------------------
(* Blame *)

LEMMA LearnSupported ==
    ASSUME Typed, Placed, StatsSupported, [Next]_vars,
           NEW s \in Stage, NEW t \in Tx, NEW n \in Events(t),
           Yields(s, t, n), Learn(t, n), UNCHANGED source
    PROVE  StatsSupported'
<1> SUFFICES ASSUME NEW k \in Key
             PROVE  /\ stats'[k].failures > 0 => \E x \in seen' : Fault(x, k)'
                    /\ stats'[k].failures > 1 =>
                           \E x, y \in seen' : x # y /\ Fault(x, k)' /\ Fault(y, k)'
  BY DEF StatsSupported, Key
<1> DEFINE e == script[t][n]
<1>1. PICK z : z = <<t, n>>
  OBVIOUS
<1>2. e \in SourceEvent /\ z \in Sources /\ z[1] = t /\ z[2] = n
  BY <1>1, YieldedEvent DEF Typed
<1>3. z \notin seen /\ seen' = seen \cup {z} /\ stats' = Observed(e)
  BY <1>1 DEF Learn, SeenBefore
<1>4. /\ \A j \in Key \ {KeyOf(e)} : stats'[j] = stats[j]
      /\ stats'[KeyOf(e)].failures = IF e.status = "failure" THEN stats[KeyOf(e)].failures + 1
                                     ELSE stats[KeyOf(e)].failures
  <2>1. stats \in Statistics
    BY DEF Typed, TypeOK, Statistics
  <2> HIDE DEF e
  <2> QED BY <1>2, <1>3, <2>1, ObservedType
<1>5. ASSUME NEW x \in seen, Fault(x, k)
      PROVE  Fault(x, k)'
  <2>1. x \in Sources /\ SourceGrows
    BY StepGrows DEF Typed, TypeOK
  <2> QED BY <1>5, <2>1, FaultStays
<1>6. CASE k # KeyOf(e) \/ e.status # "failure"
  <2>1. stats'[k].failures = stats[k].failures
    BY <1>4, <1>6
  <2>2. stats[k].failures > 0 => \E x \in seen : Fault(x, k)
    BY DEF StatsSupported
  <2>3. stats[k].failures > 1 => \E x, y \in seen : x # y /\ Fault(x, k) /\ Fault(y, k)
    BY DEF StatsSupported
  <2> QED BY <1>3, <1>5, <2>1, <2>2, <2>3
<1>7. CASE k = KeyOf(e) /\ e.status = "failure"
  <2>1. Fault(z, k)'
    <3>1. IsFailure(e)
      BY <1>2, <1>7 DEF SourceEvent, IsFailure, Valid, Learn
    <3>2. Arrived(z)
      BY <1>1, YieldedArrived DEF Placed
    <3>3. HasFailed(z)
      BY <1>2, <3>1, <3>2 DEF HasFailed, Arrived
    <3>4. Fault(z, k)
      BY <1>2, <1>7, <3>3 DEF Fault
    <3> QED BY <1>2, <3>4, StepGrows, FaultStays
  <2>2. stats'[k].failures = stats[k].failures + 1 /\ stats[k].failures \in Nat
    BY <1>4, <1>7 DEF Typed, TypeOK
  <2>3. ASSUME stats'[k].failures > 1
        PROVE  \E x, y \in seen' : x # y /\ Fault(x, k)' /\ Fault(y, k)'
    <3>1. stats[k].failures > 0
      BY <2>2, <2>3
    <3>2. PICK x \in seen : Fault(x, k)
      BY <3>1 DEF StatsSupported
    <3>3. Fault(x, k)' /\ x # z /\ x \in seen' /\ z \in seen'
      BY <1>3, <1>5, <3>2
    <3> QED BY <2>1, <3>3
  <2> QED BY <1>3, <2>1, <2>3
<1> QED BY <1>6, <1>7

LEMMA StepStats ==
    ASSUME Typed, Placed, StatsSupported, [Next]_vars
    PROVE  StatsSupported'
<1>1. CASE UNCHANGED <<seen, stats>>
  <2>1. seen \subseteq Sources /\ SourceGrows
    BY StepGrows DEF Typed, TypeOK
  <2>2. ASSUME NEW k \in Key, NEW x \in seen, Fault(x, k)
        PROVE  Fault(x, k)'
    BY <2>1, <2>2, FaultStays
  <2>3. ASSUME NEW k \in Key
        PROVE  /\ stats[k].failures > 0 => \E x \in seen : Fault(x, k)
               /\ stats[k].failures > 1 => \E x, y \in seen : x # y /\ Fault(x, k) /\ Fault(y, k)
    BY DEF StatsSupported
  <2>4. ASSUME NEW k \in Key
        PROVE  /\ stats'[k].failures > 0 => \E x \in seen' : Fault(x, k)'
               /\ stats'[k].failures > 1 =>
                      \E x, y \in seen' : x # y /\ Fault(x, k)' /\ Fault(y, k)'
    BY <1>1, <2>2, <2>3
  <2> QED BY <2>4 DEF StatsSupported, Key
<1>2. CASE stats' = NoStats
  BY <1>2 DEF NoStats, StatsSupported
<1> QED BY <1>1, <1>2, SeenKinds, LearnSupported

\* A failure that is made into a record fits it.
LEMMA DetectFits ==
    ASSUME Typed, Placed, StatsSupported, [Next]_vars,
           NEW s \in Stage, NEW t \in Tx, NEW n \in Events(t), Detect(s, t, n)
    PROVE  RecordFits(current)' /\ (<<current.tx, current.event>> \in seen)'
<1> DEFINE e == script[t][n]
           st == StageOf[e.type]
<1>1. PICK r : r = Record(t, n)
  OBVIOUS
<1>2. current' = r
  BY <1>1 DEF Detect
<1>3. /\ Yields(s, t, n) /\ Learn(t, n) /\ IsFailure(e) /\ UNCHANGED source
      /\ script' = script
  BY DEF Detect, source
<1>4. /\ r \in Records /\ r.tx = t /\ r.event = n
      /\ r.cause # 0 => stats'[<<st, r.cause>>].failures >= 2
  <2>1. stats' = Observed(e)
    BY <1>3 DEF Learn
  <2>2. stats \in Statistics /\ ewma \in Averages /\ ScriptTyped
    BY DEF Typed, TypeOK, Statistics, Averages
  <2> QED BY <1>1, <1>3, <2>1, <2>2, RecordType
<1>5. PICK x : x = <<t, n>>
  OBVIOUS
<1>6. x \in Sources /\ HasFailed(x)' /\ x \in seen'
  <2>1. x \in Sources /\ x[1] = t /\ x[2] = n
    BY <1>5, YieldedEvent DEF Typed
  <2>2. Arrived(x)
    BY <1>3, <1>5, YieldedArrived DEF Placed
  <2>3. HasFailed(x)
    BY <1>3, <2>1, <2>2 DEF HasFailed, Arrived
  <2>4. HasFailed(x)'
    BY <2>1, <2>3, StepGrows, FailedStays
  <2> QED BY <1>3, <1>5, <2>1, <2>4 DEF Learn
<1>7. ASSUME r.cause # 0
      PROVE  \E y, z \in Sources : /\ y # z
                                   /\ Fault(y, <<st, r.cause>>)'
                                   /\ Fault(z, <<st, r.cause>>)'
  <2>1. PICK k : k = <<st, r.cause>>
    OBVIOUS
  <2>2. k \in Key
    <3>1. e \in SourceEvent
      BY YieldedEvent DEF Typed
    <3>2. st \in Stage
      BY <3>1, StageOfType DEF SourceEvent
    <3> QED BY <1>4, <1>7, <2>1, <3>2 DEF Key, Records
  <2>3. stats'[k].failures > 1
    <3>1. stats'[k].failures \in Nat
      BY <2>2, StepTyped DEF Typed, TypeOK
    <3> QED BY <1>4, <1>7, <2>1, <3>1
  <2>4. StatsSupported'
    BY StepStats
  <2>5. PICK y \in seen', z \in seen' : y # z /\ Fault(y, k)' /\ Fault(z, k)'
    BY <2>2, <2>3, <2>4 DEF StatsSupported, Key
  <2>6. y \in Sources /\ z \in Sources
    BY StepTyped DEF Typed, TypeOK, Sources
  <2>7. k = <<StageOf[script'[t][n].type], r.cause>>
    BY <1>3, <2>1
  <2> QED BY <1>3, <2>1, <2>5, <2>6, <2>7
<1>8. Supported(StageOf[script[r.tx][r.event].type], r.cause)'
  BY <1>3, <1>4, <1>7 DEF Supported, Sources
<1>9. RecordFits(r)'
  BY <1>4, <1>5, <1>6, <1>8 DEF RecordFits, Sources
<1> QED BY <1>2, <1>4, <1>5, <1>6, <1>9

LEMMA StepCurrent ==
    ASSUME Typed, Placed, StatsSupported, CurrentFits, [Next]_vars
    PROVE  CurrentFits'
<1>1. ASSUME NEW s \in Stage, NEW t \in Tx, NEW n \in Events(t), Detect(s, t, n)
      PROVE  CurrentFits'
  BY <1>1, DetectFits DEF CurrentFits
<1>2. ASSUME UNCHANGED <<current, seen>>, pc' \notin {"idle", "down"} => pc \notin {"idle", "down"}
      PROVE  CurrentFits'
  <2>1. ASSUME pc' \notin {"idle", "down"}
        PROVE  RecordFits(current)' /\ (<<current.tx, current.event>> \in seen)'
    <3>1. PICK r : r = current
      OBVIOUS
    <3>2. RecordFits(r) /\ <<r.tx, r.event>> \in seen
      BY <1>2, <2>1, <3>1 DEF CurrentFits
    <3>3. RecordFits(r)'
      BY <3>2, StepGrows, RecordStays
    <3>4. current' = r /\ seen' = seen
      BY <1>2, <3>1
    <3> QED BY <3>2, <3>3, <3>4
  <2> QED BY <2>1 DEF CurrentFits
<1>3. ASSUME pc' \in {"idle", "down"}
      PROVE  CurrentFits'
  BY <1>3 DEF CurrentFits
<1>4. ASSUME NEW s \in Stage, NEW t \in Tx, NEW n \in Events(t), Skip(s, t, n) \/ Observe(s, t, n)
      PROVE  pc' \in {"idle", "down"}
  BY <1>4 DEF Skip, Observe, Yields
<1>5. ASSUME NEW t \in Tx, NEW s, Publish(t, s)
      PROVE  UNCHANGED <<pc, current, seen>>
  BY <1>5 DEF Publish, consumer
<1>6. ASSUME NEW p \in outbox, GiveUp(p) \/ \E k \in {0, 1} : Deliver(p, k)
      PROVE  UNCHANGED <<pc, current, seen>>
  BY <1>6 DEF GiveUp, Deliver, memory
<1>7. ASSUME SendDetection \/ SendCandidate
      PROVE  UNCHANGED <<current, seen>> /\ pc \notin {"idle", "down"}
  BY <1>7 DEF SendDetection, SendCandidate, memory
<1>8. ASSUME Poll \/ Flush \/ Raise \/ Crash \/ Restart
      PROVE  pc' \in {"idle", "down"}
  BY <1>8 DEF Poll, Flush, Raise, Crash, Restart, Forget
<1>9. ASSUME UNCHANGED vars
      PROVE  UNCHANGED <<pc, current, seen>>
  BY <1>9 DEF vars
<1>10. ScriptTyped
  BY DEF Typed
<1> QED BY <1>1, <1>2, <1>3, <1>4, <1>5, <1>6, <1>7, <1>8, <1>9, <1>10, StepKinds

LEMMA StepPublished ==
    ASSUME Typed, CurrentFits, PublishedFits, [Next]_vars
    PROVE  PublishedFits'
<1> SUFFICES ASSUME NEW p \in Topic, NEW t \in Tx, NEW i \in 1..Len(published'[p][t])
             PROVE  published'[p][t][i].tx = t /\ RecordFits(published[p][t][i])'
  BY DEF PublishedFits, Topic
<1>1. PICK r : r = published'[p][t][i]
  OBVIOUS
<1>2. Len(published[p][t]) \in Nat /\ Len(published'[p][t]) \in Nat
  BY PublishedGrows
<1>3. r.tx = t /\ RecordFits(r)
  <2>1. CASE i \in 1..Len(published[p][t])
    <3>1. r = published[p][t][i]
      BY <1>1, <2>1, PublishedGrows
    <3> QED BY <2>1, <3>1 DEF PublishedFits
  <2>2. CASE i \notin 1..Len(published[p][t])
    <3>1. i \in (Len(published[p][t]) + 1)..Len(published'[p][t])
      BY <1>2, <2>2
    <3>2. r = current /\ t = current.tx /\ p \in outbox
      BY <1>1, <3>1, PublishedGrows
    <3>3. pc \notin {"idle", "down"}
      BY <3>2, InOutbox
    <3> QED BY <3>2, <3>3 DEF CurrentFits
  <2> QED BY <2>1, <2>2
<1>4. RecordFits(r)'
  BY <1>3, StepGrows, RecordStays
<1> QED BY <1>1, <1>3, <1>4

Blaming == StatsSupported /\ CurrentFits /\ PublishedFits

LEMMA InitBlaming == Init => Blaming
<1> SUFFICES ASSUME Init PROVE Blaming
  OBVIOUS
<1>1. StatsSupported
  BY DEF Init, NoStats, StatsSupported
<1>2. \A p \in Topic, t \in Tx : Len(published[p][t]) = 0
  BY DEF Init
<1> QED BY <1>1, <1>2 DEF Init, Blaming, CurrentFits, PublishedFits

LEMMA StepBlaming ==
    ASSUME Typed, Placed, Blaming, [Next]_vars
    PROVE  Blaming'
BY StepStats, StepCurrent, StepPublished DEF Blaming

\* A record that blames a provider rests on two different failures of that provider
\* at that stage, for any number of gateways, transactions and restarts.
THEOREM BlameIsSupportedHolds == Spec => []BlameIsSupported
<1> DEFINE I == Typed /\ Placed /\ Blaming
<1>1. Init => I
  BY InitTyped, InitAnswered, InitBlaming
<1>2. I /\ [Next]_vars => I'
  BY StepTyped, StepPlaced, StepBlaming
<1>3. I => BlameIsSupported
  <2> SUFFICES ASSUME I, NEW p \in Topic, NEW t \in Tx, NEW i \in 1..Len(published[p][t]),
                      published[p][t][i].cause # 0
               PROVE  LET r == published[p][t][i]
                          stage == StageOf[script[t][r.event].type]
                      IN  \E x, y \in Failures :
                              x # y /\ KeyOf(script[x[1]][x[2]]) = <<stage, r.cause>>
                                    /\ KeyOf(script[y[1]][y[2]]) = <<stage, r.cause>>
    BY DEF BlameIsSupported
  <2> DEFINE r == published[p][t][i]
             stage == StageOf[script[t][r.event].type]
  <2>1. r.tx = t /\ RecordFits(r)
    BY DEF Blaming, PublishedFits
  <2>2. Supported(stage, r.cause)
    BY <2>1 DEF RecordFits
  <2> HIDE DEF I, r, stage
  <2>3. PICK x \in Sources, y \in Sources :
            x # y /\ Fault(x, <<stage, r.cause>>) /\ Fault(y, <<stage, r.cause>>)
    BY <2>2 DEF Supported, r
  <2>4. x \in Failures /\ y \in Failures
    BY <2>3 DEF Fault, Failures
  <2>5. /\ KeyOf(script[x[1]][x[2]]) = <<stage, r.cause>>
        /\ KeyOf(script[y[1]][y[2]]) = <<stage, r.cause>>
    BY <2>3 DEF Fault
  <2> QED BY <2>3, <2>4, <2>5 DEF stage, r
<1> HIDE DEF I
<1>4. Spec => []I
  BY <1>1, <1>2, PTL DEF Spec
<1> QED BY <1>3, <1>4, PTL

-----------------------------------------------------------------------------
(* How often an event is heard of *)

\* How many records of a topic are about event n.
Count(q, n) == Cardinality({i \in 1..Len(q) : q[i].event = n})

LEMMA CountType ==
    ASSUME NEW q \in Seq(Records), NEW n
    PROVE  Count(q, n) \in Nat /\ IsFiniteSet({i \in 1..Len(q) : q[i].event = n})
<1> DEFINE S == {i \in 1..Len(q) : q[i].event = n}
<1>1. IsFiniteSet(1..Len(q))
  <2>1. 1 \in Int /\ Len(q) \in Int
    OBVIOUS
  <2> QED BY <2>1, FS_Interval
<1>2. S \in SUBSET (1..Len(q))
  OBVIOUS
<1> HIDE DEF S
<1>3. IsFiniteSet(S) /\ Cardinality(S) \in Nat
  BY <1>1, <1>2, FS_Subset, FS_CardinalityType
<1> QED BY <1>3 DEF Count, S

\* One more record counts once if it is about n.
LEMMA CountAppend ==
    ASSUME NEW q \in Seq(Records), NEW r \in Records, NEW n
    PROVE  Count(Append(q, r), n) = Count(q, n) + (IF r.event = n THEN 1 ELSE 0)
<1> DEFINE S == {i \in 1..Len(q) : q[i].event = n}
           T == {i \in 1..Len(Append(q, r)) : Append(q, r)[i].event = n}
<1>1. /\ Len(q) \in Nat /\ Len(Append(q, r)) = Len(q) + 1
      /\ Append(q, r)[Len(q) + 1] = r
      /\ \A i \in 1..Len(q) : Append(q, r)[i] = q[i]
  OBVIOUS
<1>2. IsFiniteSet(S) /\ Count(q, n) \in Nat
  BY CountType
<1>3. Len(q) + 1 \notin S
  BY <1>1
<1>4. Count(q, n) = Cardinality(S) /\ Count(Append(q, r), n) = Cardinality(T)
  BY DEF Count
<1>5. CASE r.event = n
  <2>1. T = S \cup {Len(q) + 1}
    BY <1>1, <1>5
  <2>2. Cardinality(T) = Cardinality(S) + 1
    <3> HIDE DEF S, T
    <3> QED BY <1>2, <1>3, <2>1, FS_AddElement
  <2> HIDE DEF S, T
  <2> QED BY <1>5, <1>4, <2>2
<1>6. CASE r.event # n
  <2>1. T = S
    BY <1>1, <1>6
  <2> HIDE DEF S, T
  <2> QED BY <1>2, <1>6, <1>4, <2>1
<1> QED BY <1>5, <1>6

LEMMA CountMore ==
    ASSUME NEW q \in Seq(Records), NEW r \in Records, NEW n, NEW k \in {0, 1}
    PROVE  Count(q \o [i \in 1..(1 + k) |-> r], n) =
               Count(q, n) + (IF r.event = n THEN 1 + k ELSE 0)
<1> DEFINE more == q \o [i \in 1..(1 + k) |-> r]
<1>0. Count(q, n) \in Nat
  BY CountType
<1>1. Append(q, r) \in Seq(Records)
  OBVIOUS
<1>2. CASE k = 0
  <2>1. q \o [i \in 1..1 |-> r] = Append(q, r)
    OBVIOUS
  <2>2. [i \in 1..(1 + k) |-> r] = [i \in 1..1 |-> r]
    BY <1>2
  <2>3. Count(Append(q, r), n) = Count(q, n) + (IF r.event = n THEN 1 ELSE 0)
    BY CountAppend
  <2>4. more = q \o [i \in 1..1 |-> r]
    BY <2>2
  <2> HIDE DEF more
  <2>5. Count(more, n) = Count(Append(q, r), n)
    BY <2>1, <2>4
  <2> QED BY <1>0, <1>2, <2>3, <2>5 DEF more
<1>3. CASE k = 1
  <2>1. q \o [i \in 1..2 |-> r] = Append(Append(q, r), r)
    OBVIOUS
  <2>2. Count(Append(Append(q, r), r), n) = Count(Append(q, r), n) + (IF r.event = n THEN 1 ELSE 0)
    BY <1>1, CountAppend
  <2>3. Count(Append(q, r), n) = Count(q, n) + (IF r.event = n THEN 1 ELSE 0)
    BY CountAppend
  <2>4. [i \in 1..(1 + k) |-> r] = [i \in 1..2 |-> r]
    BY <1>3
  <2>5. more = q \o [i \in 1..2 |-> r]
    BY <2>4
  <2> HIDE DEF more
  <2>6. Count(more, n) = Count(Append(Append(q, r), r), n)
    BY <2>1, <2>5
  <2> QED BY <1>0, <1>3, <2>2, <2>3, <2>6 DEF more
<1> QED BY <1>2, <1>3

LEMMA HeardIsCount ==
    ASSUME NEW p, NEW x
    PROVE  Heard(p, x) = Count(published[p][x[1]], x[2])
BY DEF Heard, Count

\* A delivery is heard of, with its copy; nothing else is.
LEMMA DeliverHeard ==
    ASSUME Typed, NEW q \in outbox, NEW k \in {0, 1}, Deliver(q, k),
           NEW p \in Topic, NEW x \in Sources
    PROVE  /\ Heard(p, x) \in Nat
           /\ Heard(p, x)' = Heard(p, x) +
                  (IF p = q /\ x = <<current.tx, current.event>> THEN 1 + k ELSE 0)
<1> DEFINE more == [i \in 1..(1 + k) |-> current]
<1>1. published' = [published EXCEPT ![q] = [published[q] EXCEPT
          ![current.tx] = published[q][current.tx] \o more]]
  BY DeliverTyped
<1>2. q \in Topic /\ current.tx \in Tx /\ current \in Records
  BY InOutbox
<1>3. x[1] \in Tx /\ x = <<x[1], x[2]>>
  BY SourceParts
<1>4. published \in [Topic -> [Tx -> Seq(Records)]]
  BY DEF Typed, TypeOK
<1>5. Heard(p, x)' = Count(published'[p][x[1]], x[2])
  BY DEF Heard, Count
<1>6. Heard(p, x) = Count(published[p][x[1]], x[2]) /\ Heard(p, x) \in Nat
  BY <1>3, <1>4, HeardIsCount, CountType
<1>7. CASE p = q /\ x[1] = current.tx
  <2>1. published'[p][x[1]] = published[p][x[1]] \o more
    <3> HIDE DEF more
    <3> QED BY <1>1, <1>2, <1>3, <1>4, <1>7
  <2>2. published[p][x[1]] \in Seq(Records)
    BY <1>3, <1>4
  <2>3. Count(published[p][x[1]] \o more, x[2]) =
            Count(published[p][x[1]], x[2]) + (IF current.event = x[2] THEN 1 + k ELSE 0)
    BY <1>2, <2>2, CountMore
  <2>4. x = <<current.tx, current.event>> <=> current.event = x[2]
    BY <1>3, <1>7
  <2> HIDE DEF more
  <2> QED BY <1>5, <1>6, <1>7, <2>1, <2>3, <2>4
<1>8. CASE ~ (p = q /\ x[1] = current.tx)
  <2>1. published'[p][x[1]] = published[p][x[1]]
    <3> HIDE DEF more
    <3> QED BY <1>1, <1>2, <1>3, <1>4, <1>8
  <2>2. ~ (p = q /\ x = <<current.tx, current.event>>)
    BY <1>8
  <2> QED BY <1>5, <1>6, <2>1, <2>2
<1> QED BY <1>7, <1>8

\* Nothing but a delivery is heard of.
LEMMA HeardKinds ==
    ASSUME [Next]_vars
    PROVE  \/ UNCHANGED <<published, copies, crashes, errors>>
           \/ \E q \in outbox, k \in {0, 1} : Deliver(q, k)
           \/ /\ Raise \/ Crash
              /\ UNCHANGED <<source, published, copies>>
              /\ \/ crashes' = crashes + 1 /\ errors' = errors
                 \/ crashes' = crashes /\ errors' = errors + 1
<1>1. ASSUME NEW s \in Stage, NEW t \in Tx, NEW n \in Events(t),
             Skip(s, t, n) \/ Observe(s, t, n) \/ Detect(s, t, n)
      PROVE  UNCHANGED <<published, copies, crashes, errors>>
  BY <1>1 DEF Skip, Observe, Detect, bounds
<1>2. ASSUME NEW t \in Tx,
             (\E s \in Publishable : RunOnce(t, s)) \/ (\E s \in Followups : Reattempt(t, s))
      PROVE  UNCHANGED <<published, copies, crashes, errors>>
  BY <1>2 DEF RunOnce, Reattempt, Publish, consumer
<1>3. ASSUME NEW p \in outbox, GiveUp(p)
      PROVE  UNCHANGED <<published, copies, crashes, errors>>
  BY <1>3 DEF GiveUp
<1>4. ASSUME Poll \/ SendDetection \/ SendCandidate \/ Flush \/ Restart \/ UNCHANGED vars
      PROVE  UNCHANGED <<published, copies, crashes, errors>>
  BY <1>4 DEF Poll, SendDetection, SendCandidate, Flush, Restart, bounds, vars
<1>5. ASSUME Raise \/ Crash
      PROVE  /\ UNCHANGED <<source, published, copies>>
             /\ \/ crashes' = crashes + 1 /\ errors' = errors
                \/ crashes' = crashes /\ errors' = errors + 1
  BY <1>5 DEF Raise, Crash
<1> QED BY <1>1, <1>2, <1>3, <1>4, <1>5 DEF Next

\* What a life has done with an event it has done until it ends.
LEMMA DoneStays ==
    ASSUME Typed, [Next]_vars, ~ (Raise \/ Crash), NEW p \in Topic, NEW x \in Sources, Done(p, x)
    PROVE  Done(p, x)'
<1>0. pc \in {"down", "idle", "detected", "offered", "flush"} /\ x \in seen
  BY DEF Done, Typed, TypeOK
<1>1. ASSUME NEW s \in Stage, NEW t \in Tx, NEW n \in Events(t), Skip(s, t, n) \/ Observe(s, t, n)
      PROVE  Done(p, x)'
  BY <1>0, <1>1 DEF Skip, Observe, Yields, Learn, memory, Done, InHand
<1>2. ASSUME NEW s \in Stage, NEW t \in Tx, NEW n \in Events(t), Detect(s, t, n)
      PROVE  Done(p, x)'
  <2>1. current' = Record(t, n) /\ <<t, n>> \notin seen /\ x \in seen'
    BY <1>0, <1>2 DEF Detect, Learn, SeenBefore
  <2>2. current'.tx = t /\ current'.event = n
    BY <2>1 DEF Record
  <2> QED BY <1>0, <2>1, <2>2 DEF Done, InHand
<1>3. ASSUME NEW t \in Tx, NEW s, Publish(t, s)
      PROVE  Done(p, x)'
  BY <1>3 DEF Publish, consumer, Done, InHand, Owed
<1>4. ASSUME NEW q \in outbox, GiveUp(q) \/ \E k \in {0, 1} : Deliver(q, k)
      PROVE  Done(p, x)'
  <2>1. UNCHANGED <<pc, current, seen>> /\ outbox' = outbox \ {q}
    BY <1>4 DEF GiveUp, Deliver, memory
  <2> QED BY <2>1 DEF Done, InHand, Owed
<1>5. CASE SendDetection
  BY <1>5 DEF SendDetection, memory, Done, InHand, Owed
<1>6. CASE SendCandidate
  <2>1. /\ pc = "offered" /\ pc' = "flush" /\ outbox' = outbox \cup {"recovery.events"}
        /\ UNCHANGED <<current, seen>>
    BY <1>6 DEF SendCandidate, memory
  <2> QED BY <2>1 DEF Done, InHand, Owed
<1>7. CASE Poll \/ Flush \/ Restart
  BY <1>0, <1>7 DEF Poll, Flush, Restart, memory, Done, InHand
<1>8. CASE UNCHANGED vars
  BY <1>8 DEF vars, Done, InHand, Owed
<1>9. ScriptTyped
  BY DEF Typed
<1> QED BY <1>1, <1>2, <1>3, <1>4, <1>5, <1>6, <1>7, <1>8, <1>9, StepKinds

\* What is being delivered this life has not delivered yet, and then has.
LEMMA DeliverDone ==
    ASSUME Typed, CurrentFits, NEW q \in outbox, NEW k \in {0, 1}, Deliver(q, k),
           NEW x, x = <<current.tx, current.event>>
    PROVE  ~ Done(q, x) /\ Done(q, x)'
<1>1. pc \in {"offered", "flush"} /\ q \in Topic
  BY InOutbox
<1>2. ~ Done(q, x)
  BY <1>1 DEF Done, InHand, Owed
<1>3. x \in seen /\ outbox' = outbox \ {q} /\ UNCHANGED <<pc, current, seen>>
  BY <1>1 DEF CurrentFits, Deliver, memory
<1>4. pc = "offered" => q = "detection.events"
  BY DEF Typed, OutboxFits
<1>5. ~ Owed(q)'
  BY <1>1, <1>3, <1>4 DEF Owed
<1> QED BY <1>2, <1>3, <1>5 DEF Done

LEMMA StepHeard ==
    ASSUME Typed, CurrentFits, HeardBounded, [Next]_vars
    PROVE  HeardBounded'
<1>1. /\ crashes \in Nat /\ errors \in Nat /\ copies \in Nat
      /\ \A p \in Topic, x \in Sources : Heard(p, x) \in Nat
  <2>1. ASSUME NEW p \in Topic, NEW x \in Sources
        PROVE  Heard(p, x) \in Nat
    <3>1. published[p][x[1]] \in Seq(Records)
      BY SourceParts DEF Typed, TypeOK
    <3> QED BY <3>1, HeardIsCount, CountType
  <2> QED BY <2>1 DEF HeardBounded
<1>2. CASE UNCHANGED <<published, copies, crashes, errors>> /\ ~ (Raise \/ Crash)
  <2>1. ASSUME NEW p \in Topic, NEW x \in Sources
        PROVE  Heard(p, x)' <= crashes + errors + copies + (IF Done(p, x)' THEN 1 ELSE 0)
    <3>1. Heard(p, x)' = Heard(p, x)
      BY <1>2 DEF Heard
    <3>2. Done(p, x) => Done(p, x)'
      BY <1>2, DoneStays
    <3>3. Heard(p, x) <= crashes + errors + copies + (IF Done(p, x) THEN 1 ELSE 0)
      BY DEF HeardBounded
    <3> QED BY <1>1, <3>1, <3>2, <3>3
  <2> QED BY <1>1, <1>2, <2>1 DEF HeardBounded, Topic, Sources
<1>3. ASSUME NEW q \in outbox, NEW k \in {0, 1}, Deliver(q, k), ~ (Raise \/ Crash)
      PROVE  HeardBounded'
  <2>1. copies' = copies + k /\ crashes' = crashes /\ errors' = errors
    BY <1>3 DEF Deliver
  <2>2. ASSUME NEW p \in Topic, NEW x \in Sources
        PROVE  Heard(p, x)' <= crashes + errors + (copies + k) + (IF Done(p, x)' THEN 1 ELSE 0)
    <3>1. Heard(p, x)' = Heard(p, x) +
              (IF p = q /\ x = <<current.tx, current.event>> THEN 1 + k ELSE 0)
      BY <1>3, DeliverHeard
    <3>2. Heard(p, x) <= crashes + errors + copies + (IF Done(p, x) THEN 1 ELSE 0)
      BY DEF HeardBounded
    <3>3. CASE p = q /\ x = <<current.tx, current.event>>
      <4>1. ~ Done(p, x) /\ Done(p, x)'
        BY <1>3, <3>3, DeliverDone
      <4> QED BY <1>1, <3>1, <3>2, <3>3, <4>1
    <3>4. CASE ~ (p = q /\ x = <<current.tx, current.event>>)
      <4>1. Done(p, x) => Done(p, x)'
        BY <1>3, DoneStays
      <4> QED BY <1>1, <3>1, <3>2, <3>4, <4>1
    <3> QED BY <3>3, <3>4
  <2>3. copies + k \in Nat
    BY <1>1
  <2> QED BY <1>1, <2>1, <2>2, <2>3 DEF HeardBounded, Topic, Sources
<1>4. CASE /\ UNCHANGED <<source, published, copies>>
           /\ \/ crashes' = crashes + 1 /\ errors' = errors
              \/ crashes' = crashes /\ errors' = errors + 1
  <2>1. ASSUME NEW p \in Topic, NEW x \in Sources
        PROVE  Heard(p, x)' <= crashes' + errors' + copies + (IF Done(p, x)' THEN 1 ELSE 0)
    <3>1. Heard(p, x)' = Heard(p, x)
      BY <1>4 DEF Heard
    <3>2. Heard(p, x) <= crashes + errors + copies + (IF Done(p, x) THEN 1 ELSE 0)
      BY DEF HeardBounded
    <3> QED BY <1>1, <1>4, <3>1, <3>2
  <2>2. crashes' \in Nat /\ errors' \in Nat /\ copies' \in Nat
    BY <1>1, <1>4
  <2> QED BY <1>4, <2>1, <2>2 DEF HeardBounded, Topic, Sources
<1>5. Raise \/ Crash => /\ UNCHANGED <<source, published, copies>>
                        /\ \/ crashes' = crashes + 1 /\ errors' = errors
                           \/ crashes' = crashes /\ errors' = errors + 1
  BY DEF Raise, Crash
<1> QED BY <1>2, <1>3, <1>4, <1>5, HeardKinds

-----------------------------------------------------------------------------
(* The two topics are a feed of assessed failures *)

FeedInv == Typed /\ Placed /\ Blaming /\ HeardBounded

\* The feed's variables, as the detection service has them.
Told == [p \in Topic |-> [x \in Sources |-> Heard(p, x)]]
FeedState == <<Failures, Told, 1 + crashes + errors, copies>>

LEMMA InitHeard == Init => HeardBounded /\ Told = [p \in Topic |-> [x \in Sources |-> 0]]
<1> SUFFICES ASSUME Init PROVE HeardBounded /\ Told = [p \in Topic |-> [x \in Sources |-> 0]]
  OBVIOUS
<1>1. ASSUME NEW p \in Topic, NEW x \in Sources
      PROVE  Heard(p, x) = 0
  <2>1. published[p][x[1]] = <<>>
    BY SourceParts DEF Init
  <2>2. {i \in 1..Len(<<>>) : <<>>[i].event = x[2]} = {}
    OBVIOUS
  <2>3. Heard(p, x) = Cardinality({})
    BY <2>1, <2>2 DEF Heard
  <2> QED BY <2>3, FS_EmptySet
<1>2. crashes = 0 /\ errors = 0 /\ copies = 0
  BY DEF Init
<1>3. HeardBounded
  BY <1>1, <1>2 DEF HeardBounded
<1> QED BY <1>1, <1>3 DEF Told

LEMMA InitFeed == Init => Feed!Init
<1> SUFFICES ASSUME Init PROVE Feed!Init
  OBVIOUS
<1>1. Failures = {}
  <2>1. ASSUME NEW x \in Sources
        PROVE  ~ HasFailed(x)
    <3>1. Len(script[x[1]]) = 0 /\ x[2] \in 1..MaxEvents
      BY SourceParts DEF Init
    <3>2. ~ (x[2] <= Len(script[x[1]]))
      <4>1. MaxEvents \in Nat
        BY BoundAssumption DEF BoundAssumption
      <4> QED BY <3>1, <4>1
    <3> QED BY <3>2 DEF HasFailed
  <2> QED BY <2>1 DEF Failures
<1>2. Told = [p \in Topic |-> [x \in Sources |-> 0]]
  BY InitHeard
<1>3. 1 + crashes + errors = 1 /\ copies = 0
  BY DEF Init
<1> QED BY <1>1, <1>2, <1>3 DEF Feed!Init, Told, Heard

\* Failures that have arrived stay.
LEMMA FailuresStay ==
    ASSUME Typed, [Next]_vars
    PROVE  Failures \subseteq Failures'
<1>1. ASSUME NEW x \in Sources, HasFailed(x)
      PROVE  HasFailed(x)'
  BY <1>1, StepGrows, FailedStays
<1> QED BY <1>1 DEF Failures, Sources

\* A delivery is an announcement of a failure that happened, by a life that has not
\* announced it yet.
LEMMA DeliverAnnounces ==
    ASSUME FeedInv, NEW q \in outbox, NEW k \in {0, 1}, Deliver(q, k)
    PROVE  Feed!Announce(q, <<current.tx, current.event>>, k)
<1>1. PICK x : x = <<current.tx, current.event>>
  OBVIOUS
<1>2. Typed /\ CurrentFits /\ HeardBounded
  BY DEF FeedInv, Blaming
<1>3. x \in Sources /\ q \in Topic /\ pc \notin {"idle", "down"}
  BY <1>1, <1>2, InOutbox
<1>4. x \in Failures
  BY <1>1, <1>2, <1>3 DEF CurrentFits, RecordFits, Failures
<1>5. /\ Heard(q, x) \in Nat
      /\ Heard(q, x) < (1 + crashes + errors) + copies
  <2>1. ~ Done(q, x)
    BY <1>1, <1>2, DeliverDone
  <2>2. Heard(q, x) \in Nat
    BY <1>2, <1>3, DeliverHeard
  <2>3. Heard(q, x) <= crashes + errors + copies
    BY <1>2, <1>3, <2>1, <2>2 DEF HeardBounded
  <2> QED BY <1>2, <2>2, <2>3 DEF HeardBounded
<1>6. /\ script' = script /\ log' = log /\ copies' = copies + k
      /\ crashes' = crashes /\ errors' = errors
  BY DEF Deliver, source
<1>7. Failures' = Failures
  BY <1>6 DEF Failures, Sources, HasFailed, IsFailure
<1>8. \A p \in Topic, y \in Sources :
          Heard(p, y)' = IF p = q /\ y = x THEN Heard(p, y) + 1 + k ELSE Heard(p, y)
  <2> TAKE p \in Topic, y \in Sources
  <2>1. /\ Heard(p, y) \in Nat
        /\ Heard(p, y)' = Heard(p, y) + (IF p = q /\ y = x THEN 1 + k ELSE 0)
    BY <1>1, <1>2, DeliverHeard
  <2> QED BY <2>1
<1>9. Told' = [Told EXCEPT ![q] = [Told[q] EXCEPT ![x] = Told[q][x] + 1 + k]]
  <2>1. Told' = [p \in Topic |-> [y \in Sources |-> Heard(p, y)']]
    BY DEF Told, Topic, Sources
  <2>2. \A p \in Topic : Told[p] = [y \in Sources |-> Heard(p, y)]
    BY DEF Told
  <2>3. Told[q][x] = Heard(q, x)
    BY <1>3, <2>2
  <2>4. ASSUME NEW p \in Topic, p # q
        PROVE  [y \in Sources |-> Heard(p, y)'] = Told[p]
    BY <1>8, <2>2, <2>4
  <2>5. [y \in Sources |-> Heard(q, y)'] = [Told[q] EXCEPT ![x] = Told[q][x] + 1 + k]
    <3>1. Told[q] = [y \in Sources |-> Heard(q, y)]
      BY <1>3, <2>2
    <3>2. [Told[q] EXCEPT ![x] = Told[q][x] + 1 + k] =
              [y \in Sources |-> IF y = x THEN Heard(q, x) + 1 + k ELSE Heard(q, y)]
      BY <1>3, <3>1
    <3>3. \A y \in Sources :
              Heard(q, y)' = IF y = x THEN Heard(q, x) + 1 + k ELSE Heard(q, y)
      BY <1>3, <1>8
    <3> QED BY <3>2, <3>3
  <2>6. Told = [p \in Topic |-> Told[p]]
    BY DEF Told
  <2> HIDE DEF Told
  <2> QED BY <1>3, <2>1, <2>4, <2>5, <2>6
<1>10. Told[q][x] = Heard(q, x)
  BY <1>3 DEF Told
<1>11. /\ x \in Failures
       /\ Told[q][x] < (1 + crashes + errors) + copies
       /\ Told' = [Told EXCEPT ![q] = [Told[q] EXCEPT ![x] = Told[q][x] + 1 + k]]
       /\ copies' = copies + k
       /\ Failures' = Failures /\ 1 + crashes' + errors' = 1 + crashes + errors
  BY <1>4, <1>5, <1>6, <1>7, <1>9, <1>10
<1> QED BY <1>1, <1>11 DEF Feed!Announce, Told, Heard

\* Every step is a step of the feed, or changes nothing of it.
LEMMA StepFeed ==
    ASSUME FeedInv, [Next]_vars
    PROVE  Feed!Next \/ UNCHANGED FeedState
<1>1. Typed /\ CurrentFits
  BY DEF FeedInv, Blaming
<1>2. CASE UNCHANGED <<published, copies, crashes, errors>>
  <2>1. Told' = Told
    BY <1>2 DEF Told, Heard, Topic, Sources
  <2>2. Failures \subseteq Failures' /\ Failures' \subseteq Sources
    BY <1>1, FailuresStay DEF Failures, Sources
  <2>3. Feed!Fail
    BY <1>2, <2>1, <2>2 DEF Feed!Fail, Told, Heard
  <2> QED BY <2>3 DEF Feed!Next
<1>3. ASSUME NEW q \in outbox, NEW k \in {0, 1}, Deliver(q, k)
      PROVE  Feed!Next
  <2>1. PICK x : x = <<current.tx, current.event>>
    OBVIOUS
  <2>2. Feed!Announce(q, x, k)
    BY <1>3, <2>1, DeliverAnnounces
  <2>3. q \in Topic /\ x \in Sources
    BY <1>1, <2>1, InOutbox
  <2> QED BY <2>2, <2>3 DEF Feed!Next
<1>4. CASE /\ UNCHANGED <<source, published, copies>>
           /\ \/ crashes' = crashes + 1 /\ errors' = errors
              \/ crashes' = crashes /\ errors' = errors + 1
  <2>1. Told' = Told
    BY <1>4 DEF Told, Heard, Topic, Sources
  <2>2. Failures' = Failures
    BY <1>4 DEF source, Failures, Sources, HasFailed, IsFailure
  <2>3. 1 + crashes' + errors' = 1 + crashes + errors + 1
    <3>1. crashes \in Nat /\ errors \in Nat
      BY DEF FeedInv, HeardBounded
    <3> QED BY <1>4, <3>1
  <2>4. Feed!Restart
    BY <1>4, <2>1, <2>2, <2>3 DEF Feed!Restart, Told, Heard
  <2> QED BY <2>4 DEF Feed!Next
<1> QED BY <1>2, <1>3, <1>4, HeardKinds

\* The two topics of the detection service are a feed of assessed failures: every record
\* assesses a failure that was published, once per life and topic but for copies.
THEOREM ImplementsFeedHolds == Spec => ImplementsFeed
<1>1. Init => FeedInv /\ Feed!Init
  BY InitTyped, InitAnswered, InitBlaming, InitHeard, InitFeed DEF FeedInv
<1>2. FeedInv /\ [Next]_vars => FeedInv'
  <2>1. ASSUME FeedInv, [Next]_vars
        PROVE  Typed' /\ Placed' /\ Blaming'
    BY <2>1, StepTyped, StepPlaced, StepBlaming DEF FeedInv
  <2>2. ASSUME FeedInv, [Next]_vars
        PROVE  HeardBounded'
    BY <2>2, StepHeard DEF FeedInv, Blaming
  <2> QED BY <2>1, <2>2 DEF FeedInv
<1>3. FeedInv /\ [Next]_vars => [Feed!Next]_(Feed!vars)
  <2>1. FeedState = Feed!vars
    BY DEF FeedState, Told, Heard, Feed!vars
  <2>2. ASSUME FeedInv, [Next]_vars
        PROVE  Feed!Next \/ UNCHANGED Feed!vars
    <3>1. CASE Feed!Next
      BY <3>1
    <3>2. CASE UNCHANGED FeedState
      BY <3>2 DEF FeedState, Told, Heard, Feed!vars
    <3> QED BY <2>2, <3>1, <3>2, StepFeed
  <2> QED BY <2>2
<1> QED BY <1>1, <1>2, <1>3, PTL DEF Spec, ImplementsFeed, Feed!Spec

-----------------------------------------------------------------------------
(* Lifecycles *)

LEMMA FailureTypes ==
    /\ \A s \in Stage : IsFailureType(Failed[s])
    /\ \A s \in Stage : ~ IsFailureType(Started[s]) /\ ~ IsFailureType(Completed[s])
BY DEF Stage, IsFailureType, Started, Completed, Failed

LEMMA StagesOfTypes ==
    \A s \in Stage :
        /\ {Started[s], Completed[s], Failed[s]} \subseteq EventType
        /\ StageOf[Started[s]] = s /\ StageOf[Completed[s]] = s /\ StageOf[Failed[s]] = s
<1> SUFFICES ASSUME NEW s \in Stage, NEW type \in {Started[s], Completed[s], Failed[s]}
             PROVE  type \in EventType /\ StageOf[type] = s
  OBVIOUS
<1>1. type \in EventTypes[s]
  BY DEF EventTypes
<1>2. type \in EventType
  BY <1>1 DEF EventType
<1>3. \A r \in Stage : type \in EventTypes[r] => r = s
  BY DEF EventTypes, Stage, Started, Completed, Failed
<1>4. StageOf[type] = CHOOSE r \in Stage : type \in EventTypes[r]
  BY <1>2 DEF StageOf
<1> QED BY <1>1, <1>2, <1>3, <1>4

\* The place of a step in the flow, of a stage's start and end.
PlaceOfStart == [checkout |-> 1, payment |-> 3, authorization |-> 5, capture |-> 7]

LEMMA PlacesOfTypes ==
    \A s \in Stage :
        /\ Place(Started[s]) = PlaceOfStart[s]
        /\ Place(Completed[s]) = PlaceOfStart[s] + 1
        /\ Place(Failed[s]) = PlaceOfStart[s] + 1
<1>1. Len(Flow) = 8
  BY DEF Flow
<1>2. \A i, j \in 1..8 : Flow[i] = Flow[j] => i = j
  BY DEF Flow
<1>3. ASSUME NEW type, NEW k \in 1..8,
             Flow[k] = IF IsFailureType(type) THEN Completed[StageOf[type]] ELSE type
      PROVE  Place(type) = k
  <2>1. Place(type) = CHOOSE i \in 1..8 :
                          Flow[i] = IF IsFailureType(type) THEN Completed[StageOf[type]] ELSE type
    BY <1>1 DEF Place
  <2> QED BY <1>2, <1>3, <2>1
<1>4. \A s \in Stage :
          /\ PlaceOfStart[s] \in 1..8 /\ PlaceOfStart[s] + 1 \in 1..8
          /\ Flow[PlaceOfStart[s]] = Started[s] /\ Flow[PlaceOfStart[s] + 1] = Completed[s]
  BY DEF Stage, PlaceOfStart, Flow, Started, Completed
<1> QED BY <1>3, <1>4, FailureTypes, StagesOfTypes

\* What the guard asks of an event stands one step before it.
LEMMA PredecessorPlace ==
    ASSUME NEW type \in Guarded
    PROVE  /\ Predecessor[type] = None => Place(type) = 1
           /\ Predecessor[type] # None => /\ ~ IsFailureType(Predecessor[type])
                                          /\ Predecessor[type] \in EventType
                                          /\ Place(Predecessor[type]) = Place(type) - 1
           /\ Place(type) \in 1..8
<1>1. PICK s \in Stage : type \in {Started[s], Completed[s], Failed[s]}
  <2>1. PICK r \in Stage : type \in EventTypes[r] /\ type # "payment_link_clicked"
    BY DEF Guarded, EventType
  <2>2. type \in {Started[r], Completed[r], Failed[r]}
    BY <2>1 DEF EventTypes
  <2> QED BY <2>2
<1>2. StageOf[type] = s
  BY <1>1, StagesOfTypes
<1>3. Predecessor[type] = IF type # Started[s] THEN Started[s]
                          ELSE IF s = "checkout" THEN None
                          ELSE Completed[Before[s]]
  BY <1>2 DEF Predecessor
<1>4. \A r \in Stage : /\ Started[r] # None /\ Completed[r] # None
                       /\ Completed[r] # Started[r] /\ Failed[r] # Started[r]
                       /\ PlaceOfStart[r] \in 1..8 /\ PlaceOfStart[r] + 1 \in 1..8
  BY DEF Stage, Started, Completed, Failed, None, PlaceOfStart
<1>5. CASE type # Started[s]
  <2>1. Predecessor[type] = Started[s] /\ Place(type) = PlaceOfStart[s] + 1
    BY <1>1, <1>3, <1>5, PlacesOfTypes
  <2> QED BY <1>4, <2>1, PlacesOfTypes, FailureTypes, StagesOfTypes
<1>6. CASE type = Started[s] /\ s = "checkout"
  <2>1. Predecessor[type] = None /\ Place(type) = PlaceOfStart["checkout"]
    BY <1>3, <1>6, PlacesOfTypes
  <2> QED BY <2>1 DEF PlaceOfStart
<1>7. CASE type = Started[s] /\ s # "checkout"
  <2>1. Predecessor[type] = Completed[Before[s]] /\ Place(type) = PlaceOfStart[s]
    BY <1>3, <1>7, PlacesOfTypes
  <2>2. Before[s] \in Stage /\ PlaceOfStart[Before[s]] + 1 = PlaceOfStart[s] - 1
    BY <1>7 DEF Stage, Before, PlaceOfStart
  <2> QED BY <1>4, <2>1, <2>2, PlacesOfTypes, FailureTypes, StagesOfTypes
<1> QED BY <1>5, <1>6, <1>7

\* A guard that has taken the first n events of s.
GuardRuns(g, s, n) == g = [i \in 0..n |-> IF i = 0 THEN Fresh ELSE Applied(g[i - 1], s[i])]

LEMMA GuardExists ==
    ASSUME NEW s, NEW n \in Nat
    PROVE  \E g : GuardRuns(g, s, n)
<1> DEFINE T == {k \in 0..n : \E g : GuardRuns(g, s, k)}
<1>1. 0 \in T
  <2> DEFINE g == [i \in 0..0 |-> Fresh]
  <2>1. GuardRuns(g, s, 0)
    BY DEF GuardRuns
  <2> HIDE DEF g
  <2> QED BY <2>1
<1>2. ASSUME NEW k \in 0..(n - 1), k \in T
      PROVE  k + 1 \in T
  <2>1. PICK g : GuardRuns(g, s, k)
    BY <1>2
  <2> DEFINE h == [i \in 0..(k + 1) |-> IF i = k + 1 THEN Applied(g[k], s[k + 1]) ELSE g[i]]
  <2>2. ASSUME NEW i \in 0..(k + 1)
        PROVE  h[i] = IF i = 0 THEN Fresh ELSE Applied(h[i - 1], s[i])
    <3>1. CASE i = k + 1
      <4>1. k \in 0..(k + 1) /\ k # k + 1 /\ i # 0 /\ i - 1 = k
        BY <3>1
      <4> QED BY <3>1, <4>1
    <3>2. CASE i # k + 1
      <4>1. i \in 0..k
        BY <3>2
      <4>2. g[i] = IF i = 0 THEN Fresh ELSE Applied(g[i - 1], s[i])
        BY <2>1, <4>1 DEF GuardRuns
      <4>3. i # 0 => i - 1 \in 0..(k + 1) /\ i - 1 # k + 1
        BY <4>1
      <4> QED BY <3>2, <4>2, <4>3
    <3> QED BY <3>1, <3>2
  <2>3. GuardRuns(h, s, k + 1)
    BY <2>2 DEF GuardRuns
  <2>4. k + 1 \in 0..n
    OBVIOUS
  <2> HIDE DEF h
  <2> QED BY <2>3, <2>4
<1>3. \A k \in 0..n : k \in T
  <2> HIDE DEF T
  <2>1. 0 \in Nat
    OBVIOUS
  <2> QED BY <1>1, <1>2, <2>1, UpTo
<1> QED BY <1>3

\* What the guard knows after n events, if it took them all.
Knows(g, s, n) ==
    /\ s[n].payment = s[1].payment /\ g[n].payment = s[1].payment
    /\ g[n].attempt = s[n].attempt /\ g[n].last = s[n].type
    /\ g[n].terminal <=> s[n].status # "success"
    /\ \A type \in g[n].successful : \E j \in 1..n : s[j].type = type

\* A published lifecycle is causal: what the guard takes event by event, with the
\* last type and the successful ones alone, is in order as a whole.
LEMMA ValidatedIsCausal ==
    ASSUME NEW s \in Drafts, Validated(s)
    PROVE  Causal(s)
<1>1. s \in Seq(SourceEvent) /\ Len(s) \in Nat
  BY DraftAssumption DEF DraftAssumption
<1>2. \A i \in 1..Len(s) : i > 1 /\ s[i - 1].status # "failure" => s[i].attempt = s[i - 1].attempt
  BY DraftAssumption DEF DraftAssumption
<1> DEFINE g == GuardAfter(s)
<1>3. GuardRuns(g, s, Len(s))
  <2>1. g = CHOOSE f : GuardRuns(f, s, Len(s))
    BY DEF GuardAfter, GuardRuns
  <2> HIDE DEF g
  <2> QED BY <1>1, <2>1, GuardExists
<1>4. g[0] = Fresh /\ \A i \in 1..Len(s) : g[i] = Applied(g[i - 1], s[i])
  <2> HIDE DEF g
  <2>1. 0 \in 0..Len(s) /\ \A i \in 1..Len(s) : i \in 0..Len(s) /\ i # 0
    BY <1>1
  <2> QED BY <1>3, <2>1 DEF GuardRuns
<1>5. \A i \in 1..Len(s) : Accepts(g[i - 1], s[i])
  BY DEF Validated
<1> HIDE DEF g
<1>6. \A i \in 1..Len(s) : /\ s[i].payment # None /\ s[i].status \in {"success", "failure"}
                           /\ s[i].attempt \in Nat /\ s[i].type \in EventType
  <2> SUFFICES ASSUME NEW i \in 1..Len(s)
               PROVE  /\ s[i].payment # None /\ s[i].status \in {"success", "failure"}
                      /\ s[i].attempt \in Nat /\ s[i].type \in EventType
    OBVIOUS
  <2>1. s[i] \in SourceEvent
    BY <1>1
  <2>2. s[i].payment \in STRING \ {None}
    BY <2>1 DEF SourceEvent
  <2>3. s[i].status \in {"success", "failure"} /\ s[i].attempt \in Nat /\ s[i].type \in EventType
    BY <2>1 DEF SourceEvent
  <2> QED BY <2>2, <2>3
<1>7. \A i \in 1..Len(s) : Knows(g, s, i)
  <2> DEFINE T == {i \in 1..Len(s) : Knows(g, s, i)}
  <2> SUFFICES ASSUME Len(s) # 0 PROVE \A i \in 1..Len(s) : i \in T
    BY <1>1
  <2>0. 1 \in 1..Len(s) /\ Len(s) \in Nat
    BY <1>1
  <2>1. 1 \in T
    <3>1. g[1] = Applied(Fresh, s[1])
      BY <1>4, <2>0
    <3>2. ~ NewAttempt(Fresh, s[1])
      BY DEF NewAttempt, Fresh
    <3>3. /\ g[1].payment = s[1].payment /\ g[1].last = s[1].type
          /\ g[1].attempt = s[1].attempt /\ g[1].terminal = (s[1].status # "success")
      BY <3>1 DEF Applied, Fresh
    <3>4. g[1].successful \subseteq {s[1].type}
      BY <3>1 DEF Applied, Fresh
    <3>5. \A type \in g[1].successful : \E j \in 1..1 : s[j].type = type
      BY <3>4
    <3> QED BY <2>0, <3>3, <3>5 DEF Knows
  <2>2. ASSUME NEW i \in 1..(Len(s) - 1), i \in T
        PROVE  i + 1 \in T
    <3>1. /\ i + 1 \in 1..Len(s) /\ (i + 1) - 1 = i /\ i \in 1..Len(s) /\ i + 1 > 1
      OBVIOUS
    <3>2. Knows(g, s, i) /\ g[i + 1] = Applied(g[i], s[i + 1]) /\ Accepts(g[i], s[i + 1])
      BY <1>4, <1>5, <2>2, <3>1
    <3>3. s[i + 1].payment = s[1].payment
      BY <1>6, <2>0, <3>1, <3>2 DEF Accepts, Knows
    <3>4. g[i + 1].attempt = s[i + 1].attempt
      <4>1. CASE NewAttempt(g[i], s[i + 1]) \/ g[i].attempt = 0
        BY <3>2, <4>1 DEF Applied
      <4>2. CASE ~ (NewAttempt(g[i], s[i + 1]) \/ g[i].attempt = 0)
        <5>1. ~ g[i].terminal
          BY <3>2, <4>2 DEF Accepts
        <5>2. s[i].status # "failure"
          BY <3>2, <5>1 DEF Knows
        <5>3. s[i + 1].attempt = s[i].attempt
          BY <1>2, <3>1, <5>2
        <5> QED BY <3>2, <4>2, <5>3 DEF Applied, Knows
      <4> QED BY <4>1, <4>2
    <3>5. \A type \in g[i + 1].successful : \E j \in 1..(i + 1) : s[j].type = type
      <4>1. \A type \in g[i].successful : \E j \in 1..i : s[j].type = type
        BY <3>2 DEF Knows
      <4>2. g[i + 1].successful \subseteq g[i].successful \cup {s[i + 1].type}
        BY <3>2 DEF Applied
      <4>3. \A j \in 1..i : j \in 1..(i + 1)
        OBVIOUS
      <4>4. i + 1 \in 1..(i + 1)
        OBVIOUS
      <4> QED BY <4>1, <4>2, <4>3, <4>4
    <3>6. /\ g[i + 1].payment = s[i + 1].payment /\ g[i + 1].last = s[i + 1].type
          /\ g[i + 1].terminal = (s[i + 1].status # "success")
      BY <3>2 DEF Applied
    <3> QED BY <3>1, <3>3, <3>4, <3>5, <3>6 DEF Knows
  <2> HIDE DEF T
  <2>3. 1 \in Nat
    OBVIOUS
  <2> QED BY <2>0, <2>1, <2>2, <2>3, UpTo
<1> SUFFICES ASSUME NEW i \in 1..Len(s)
             PROVE  /\ s[i].payment = s[1].payment
                    /\ i = 1 => Place(s[i].type) = 1
                    /\ Place(s[i].type) > 1 /\ s[i - 1].status # "failure" =>
                           Place(s[i].type) = Place(s[i - 1].type) + 1
                    /\ i > 1 /\ s[i - 1].status = "failure" =>
                           /\ s[i].attempt # s[i - 1].attempt
                           /\ \E j \in 1..(i - 1) : Place(s[j].type) = Place(s[i].type) - 1
  BY DEF Causal
<1>8. Accepts(g[i - 1], s[i]) /\ s[i].type \in Guarded
  BY <1>5 DEF Accepts
<1> DEFINE p == Predecessor[s[i].type]
<1>9. /\ p = None => Place(s[i].type) = 1
      /\ p # None => ~ IsFailureType(p) /\ p \in EventType /\ Place(p) = Place(s[i].type) - 1
      /\ Place(s[i].type) \in 1..8
  BY <1>8, PredecessorPlace
<1>10. CASE i = 1
  <2>1. p \in {None, None}
    BY <1>4, <1>8, <1>10 DEF Accepts, NewAttempt, Fresh
  <2> HIDE DEF p
  <2> QED BY <1>9, <1>10, <2>1
<1>11. CASE i # 1
  <2>1. i - 1 \in 1..Len(s) /\ Knows(g, s, i - 1) /\ s[i].payment # None
    BY <1>6, <1>7, <1>11
  <2>2. s[i].payment = s[1].payment
    BY <1>7 DEF Knows
  <2>3. CASE NewAttempt(g[i - 1], s[i])
    <3>1. p \in g[i - 1].successful
      BY <1>8, <2>3 DEF Accepts
    <3>2. PICK j \in 1..(i - 1) : s[j].type = p
      BY <2>1, <3>1 DEF Knows
    <3>3. p # None /\ j \in 1..Len(s)
      <4>1. j \in 1..Len(s)
        OBVIOUS
      <4>2. None \notin EventType
        BY DEF None, EventType, EventTypes, Stage, Started, Completed, Failed
      <4> QED BY <1>6, <3>2, <4>1, <4>2
    <3>4. s[i].attempt # s[i - 1].attempt /\ s[i - 1].status # "success"
      BY <2>1, <2>3 DEF NewAttempt, Knows
    <3>5. s[i - 1].status = "failure"
      BY <1>6, <2>1, <3>4
    <3>6. Place(s[j].type) = Place(s[i].type) - 1
      BY <1>9, <3>2, <3>3
    <3> HIDE DEF p
    <3> QED BY <1>11, <2>2, <3>2, <3>4, <3>5, <3>6
  <2>4. CASE ~ NewAttempt(g[i - 1], s[i])
    <3>1. ~ g[i - 1].terminal /\ p \in {None, g[i - 1].last}
      BY <1>8, <2>4 DEF Accepts
    <3>2. s[i - 1].status = "success" /\ p \in {None, s[i - 1].type}
      BY <2>1, <3>1 DEF Knows
    <3> HIDE DEF p
    <3>3. Place(s[i].type) > 1 => Place(s[i].type) = Place(s[i - 1].type) + 1
      BY <1>9, <3>2
    <3> QED BY <1>11, <2>2, <3>2, <3>3
  <2> QED BY <2>3, <2>4
<1> QED BY <1>10, <1>11

\* A lifecycle is causal up to any of its events.
LEMMA CausalPrefix ==
    ASSUME NEW s \in Seq(SourceEvent), NEW n \in 0..Len(s), Causal(s)
    PROVE  Causal(SubSeq(s, 1, n))
<1>1. Len(SubSeq(s, 1, n)) = n /\ \A i \in 1..n : SubSeq(s, 1, n)[i] = s[i]
  OBVIOUS
<1> DEFINE r == SubSeq(s, 1, n)
<1>2. Len(r) = n /\ \A i \in 1..n : r[i] = s[i]
  BY <1>1
<1> HIDE DEF r
<1> SUFFICES ASSUME NEW i \in 1..n
             PROVE  /\ r[i].payment = r[1].payment
                    /\ i = 1 => Place(r[i].type) = 1
                    /\ Place(r[i].type) > 1 /\ r[i - 1].status # "failure" =>
                           Place(r[i].type) = Place(r[i - 1].type) + 1
                    /\ i > 1 /\ r[i - 1].status = "failure" =>
                           /\ r[i].attempt # r[i - 1].attempt
                           /\ \E j \in 1..(i - 1) : Place(r[j].type) = Place(r[i].type) - 1
  BY <1>2 DEF Causal, r
<1>3. i \in 1..Len(s) /\ r[i] = s[i] /\ r[1] = s[1] /\ n \in Nat
  BY <1>2
<1>4. \A j \in 1..(i - 1) : r[j] = s[j]
  BY <1>2, <1>3
<1>5. /\ s[i].payment = s[1].payment
      /\ i = 1 => Place(s[i].type) = 1
      /\ Place(s[i].type) > 1 /\ s[i - 1].status # "failure" =>
             Place(s[i].type) = Place(s[i - 1].type) + 1
      /\ i > 1 /\ s[i - 1].status = "failure" =>
             /\ s[i].attempt # s[i - 1].attempt
             /\ \E j \in 1..(i - 1) : Place(s[j].type) = Place(s[i].type) - 1
  BY <1>3 DEF Causal
<1>6. CASE i = 1
  BY <1>3, <1>5, <1>6
<1>7. CASE i # 1
  <2>1. i - 1 \in 1..(i - 1)
    BY <1>7
  <2> QED BY <1>3, <1>4, <1>5, <2>1
<1> QED BY <1>6, <1>7

\* What is published of a transaction: a lifecycle the guard took, or none, and then
\* what the recovery service added.
Begins(sc, s) ==
    /\ Len(s) <= Len(sc)
    /\ \A i \in 1..Len(s) : sc[i] = s[i]
    /\ \A i \in (Len(s) + 1)..Len(sc) : sc[i].followup
Made(s) == s \in Seq(SourceEvent) /\ Causal(s) /\ \A i \in 1..Len(s) : ~ s[i].followup
ScriptGuarded == \A t \in Tx : \E s : Made(s) /\ Begins(script[t], s)

LEMMA GuardedInit == Init => ScriptGuarded
<1> SUFFICES ASSUME Init, NEW t \in Tx
             PROVE  \E s : Made(s) /\ Begins(script[t], s)
  BY DEF ScriptGuarded
<1>1. script[t] = <<>>
  BY DEF Init
<1>2. Made(<<>>) /\ Begins(<<>>, <<>>)
  BY DEF Made, Begins, Causal
<1> QED BY <1>1, <1>2

LEMMA GuardedPublish ==
    ASSUME ScriptTyped, ScriptGuarded, NEW t \in Tx, NEW s \in Seq(SourceEvent), Publish(t, s),
           \/ script[t] = <<>> /\ Made(s)
           \/ \A i \in 1..Len(s) : s[i].followup
    PROVE  ScriptGuarded'
<1>1. script' = [script EXCEPT ![t] = @ \o s] /\ script \in [Tx -> Seq(SourceEvent)]
  BY DEF Publish, ScriptTyped
<1> SUFFICES ASSUME NEW u \in Tx
             PROVE  \E r : Made(r) /\ Begins(script'[u], r)
  BY DEF ScriptGuarded
<1>2. CASE u # t
  BY <1>1, <1>2 DEF ScriptGuarded
<1>3. CASE u = t
  <2>1. script'[u] = script[t] \o s /\ script[t] \in Seq(SourceEvent)
    BY <1>1, <1>3
  <2>2. CASE script[t] = <<>> /\ Made(s)
    <3>1. script'[u] = s
      BY <2>1, <2>2
    <3>2. Begins(s, s)
      BY DEF Begins
    <3> QED BY <2>2, <3>1, <3>2
  <2>3. CASE \A i \in 1..Len(s) : s[i].followup
    <3>1. PICK r : Made(r) /\ Begins(script[t], r)
      BY DEF ScriptGuarded
    <3>2. PICK a : a = script[t]
      OBVIOUS
    <3>3. a \in Seq(SourceEvent) /\ r \in Seq(SourceEvent) /\ Begins(a, r)
      BY <2>1, <3>1, <3>2 DEF Made
    <3>4. /\ Len(a \o s) = Len(a) + Len(s) /\ Len(a) \in Nat /\ Len(s) \in Nat /\ Len(r) \in Nat
          /\ \A i \in 1..(Len(a) + Len(s)) : (a \o s)[i] = IF i <= Len(a) THEN a[i] ELSE s[i - Len(a)]
      BY <3>3
    <3> DEFINE b == a \o s
    <3>5. Begins(b, r)
      <4>1. Len(r) <= Len(a)
        BY <3>3 DEF Begins
      <4>2. Len(r) <= Len(b)
        BY <3>4, <4>1
      <4>3. ASSUME NEW i \in 1..Len(r)
            PROVE  b[i] = r[i]
        <5>1. i \in 1..(Len(a) + Len(s)) /\ i <= Len(a)
          BY <3>4, <4>1
        <5> QED BY <3>3, <3>4, <5>1 DEF Begins
      <4>4. ASSUME NEW i \in (Len(r) + 1)..Len(b)
            PROVE  b[i].followup
        <5>1. i \in 1..(Len(a) + Len(s)) /\ i \in Nat
          BY <3>4
        <5>2. CASE i <= Len(a)
          <6>1. i \in (Len(r) + 1)..Len(a)
            BY <3>4, <5>2
          <6>2. a[i].followup
            BY <3>3, <6>1 DEF Begins
          <6> QED BY <3>4, <5>1, <5>2, <6>2
        <5>3. CASE ~ (i <= Len(a))
          <6>1. i - Len(a) \in 1..Len(s)
            BY <3>4, <5>1, <5>3
          <6>2. b[i] = s[i - Len(a)]
            BY <3>4, <5>1, <5>3
          <6> QED BY <2>3, <6>1, <6>2
        <5> QED BY <5>2, <5>3
      <4> HIDE DEF b
      <4> QED BY <4>2, <4>3, <4>4 DEF Begins
    <3>6. script'[u] = b
      BY <2>1, <3>2
    <3> HIDE DEF b
    <3> QED BY <3>1, <3>5, <3>6
  <2> QED BY <2>2, <2>3
<1> QED BY <1>2, <1>3

LEMMA GuardedStep ==
    ASSUME ScriptTyped, ScriptGuarded, [Next]_vars
    PROVE  ScriptGuarded'
<1>1. ASSUME NEW t \in Tx, NEW s \in Publishable, RunOnce(t, s)
      PROVE  ScriptGuarded'
  <2>1. s \in Drafts /\ Validated(s) /\ script[t] = <<>> /\ Publish(t, s)
    BY <1>1 DEF Publishable, RunOnce
  <2>2. Made(s) /\ s \in Seq(SourceEvent)
    BY <2>1, ValidatedIsCausal, DraftAssumption DEF DraftAssumption, Made
  <2> QED BY <2>1, <2>2, GuardedPublish
<1>2. ASSUME NEW t \in Tx, NEW s \in Followups, Reattempt(t, s)
      PROVE  ScriptGuarded'
  <2>1. Publish(t, s)
    BY <1>2 DEF Reattempt
  <2>2. s \in Seq(SourceEvent) /\ \A i \in 1..Len(s) : s[i].followup
    BY DraftAssumption DEF DraftAssumption
  <2> QED BY <2>1, <2>2, GuardedPublish
<1>3. CASE UNCHANGED script
  BY <1>3 DEF ScriptGuarded
<1>4. \/ \E t \in Tx : \/ \E s \in Publishable : RunOnce(t, s)
                       \/ \E s \in Followups : Reattempt(t, s)
      \/ UNCHANGED script
  BY DEF Next, vars, source, Skip, Observe, Detect, GiveUp, Deliver, Poll, SendDetection,
         SendCandidate, Flush, Raise, Crash, Restart
<1> QED BY <1>1, <1>2, <1>3, <1>4

\* A lifecycle that reaches the topics takes the payment flow step by step, whatever
\* drafts the producer makes and whatever the recovery service adds.
THEOREM LifecycleCausalHolds == Spec => []LifecycleCausal
<1>1. ScriptTyped /\ ScriptGuarded => LifecycleCausal
  <2> SUFFICES ASSUME ScriptTyped, ScriptGuarded, NEW t \in Tx, NEW n \in 0..Len(script[t]),
                      \A i \in 1..n : ~ script[t][i].followup
               PROVE  Causal(SubSeq(script[t], 1, n))
    BY DEF LifecycleCausal
  <2>1. PICK s : Made(s) /\ Begins(script[t], s)
    BY DEF ScriptGuarded
  <2>2. PICK a : a = script[t]
    OBVIOUS
  <2>3. /\ a \in Seq(SourceEvent) /\ s \in Seq(SourceEvent) /\ Begins(a, s) /\ Causal(s)
        /\ n \in 0..Len(a) /\ \A i \in 1..n : ~ a[i].followup
    BY <2>1, <2>2 DEF Made, ScriptTyped
  <2>4. Len(a) \in Nat /\ Len(s) \in Nat
    BY <2>3
  <2>5. n <= Len(s)
    <3> SUFFICES ASSUME n > Len(s) PROVE FALSE
      BY <2>3, <2>4
    <3>1. n \in (Len(s) + 1)..Len(a) /\ n \in 1..n
      BY <2>3, <2>4
    <3> QED BY <2>3, <3>1 DEF Begins
  <2>6. SubSeq(a, 1, n) = SubSeq(s, 1, n)
    <3>1. \A i \in 1..n : a[i] = s[i]
      BY <2>3, <2>4, <2>5 DEF Begins
    <3> QED BY <2>3, <2>4, <2>5, <3>1
  <2>7. Causal(SubSeq(s, 1, n))
    BY <2>3, <2>4, <2>5, CausalPrefix
  <2> QED BY <2>2, <2>6, <2>7
<1>2. Typed => ScriptTyped
  BY DEF Typed
<1>3. Typed /\ [Next]_vars => Typed'
  BY StepTyped
<1> QED BY <1>1, <1>2, <1>3, InitTyped, GuardedInit, GuardedStep, PTL DEF Spec
=============================================================================
