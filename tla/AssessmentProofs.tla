-------------------------- MODULE AssessmentProofs --------------------------
(***************************************************************************)
(* Theorems about Assessment, for every set of transactions, candidates    *)
(* and local confidences and every limit.  The inductive invariant says    *)
(* what a ballot is: the votes the agents cast on the current candidate    *)
(* and the action they authorize.  What the properties say of that action  *)
(* is then arithmetic over five weights.  The other half of the invariant  *)
(* is what the validator remembers: each fallback id is the id of a        *)
(* version that some transaction has reached, and that is not the one      *)
(* about to be assessed.                                                   *)
(***************************************************************************)
EXTENDS Assessment, FiniteSetTheorems, TLAPS

IntentVotes == RemoteIntentVotes \cup LocalIntentVotes \cup {Says("DO_NOTHING", 0)}

BallotExplained ==
    Assessed =>
        /\ \E intent \in IntentVotes :
               ballot.votes = Votes(current.candidate, ballot.tries, intent)
        /\ ballot.allowed =
               Authorized(ballot.votes, ballot.valid, current.candidate, ballot.tries)

\* Transaction t has used the fallback ids of version n.
Used(t, n) ==
    /\ n <= version[t]
    /\ pc = "received" /\ t = current.tx => n < version[t]
TwoCame == \E t, u \in Tx : t # u /\ version[t] > 0 /\ version[u] > 0

MemoryExplained ==
    /\ pc # "idle" => version[current.tx] > 0
    /\ \A id \in seen : id[2] > 0 /\ \E t \in Tx : Used(t, id[2])
    /\ quarantined # {} => TwoCame
    /\ Assessed /\ ballot.valid # ballot.answered => TwoCame

IInv ==
    /\ TypeOK
    /\ quarantined \subseteq Remote
    /\ MemoryExplained
    /\ BallotExplained

-----------------------------------------------------------------------------
(* The agents' votes. *)

LEMMA AgentsAre ==
    /\ Remote \subseteq Agent
    /\ \A a \in Agent : a = "intent" \/ a = "provider" \/ a = "transaction"
                            \/ a = "economics" \/ a = "risk"
BY DEF Agent, Remote

LEMMA IntentVotesAreVotes == IntentVotes \subseteq Vote
<1>1. RemoteIntentVotes \subseteq Vote
  BY DEF RemoteIntentVotes, Says, Vote, Recommendation, Concrete
<1>2. LocalIntentVotes \subseteq Vote
  BY InputsAssumption, SMTT(20) DEF LocalIntentVotes, Says, Vote, Recommendation, Concrete
<1>3. Says("DO_NOTHING", 0) \in Vote
  BY DEF Says, Vote, Recommendation, Concrete
<1> QED BY <1>1, <1>2, <1>3 DEF IntentVotes

LEMMA AlignTyped ==
    ASSUME NEW c, NEW a, NEW v \in Vote
    PROVE  Align(c, a, v) \in Vote
BY DEF Align, Says, Vote, Recommendation, Concrete

LEMMA VotesTyped ==
    ASSUME NEW c \in Candidate, NEW tries \in Nat, NEW intent \in Vote
    PROVE  Votes(c, tries, intent) \in [Agent -> Vote]
<1>1. TransactionVote(c) \in Vote
  BY DEF TransactionVote, StageAction, Says, Vote, Recommendation, Concrete, Candidate, Stage
<1>2. EconomicsVote(c) \in Vote
  BY DEF EconomicsVote, Says, Vote, Recommendation, Concrete
<1>3. RiskVote(c, tries) \in Vote
  BY DEF RiskVote, AlarmConfidence, Says, Vote, Recommendation, Concrete, Candidate, Alarm
<1>4. ProviderVote(c) \in Vote
  BY DEF ProviderVote, Says, Vote, Recommendation, Concrete, Candidate
<1>5. /\ Align(c, "intent", intent) \in Vote
      /\ Align(c, "provider", ProviderVote(c)) \in Vote
      /\ Align(c, "transaction", TransactionVote(c)) \in Vote
      /\ Align(c, "economics", EconomicsVote(c)) \in Vote
      /\ Align(c, "risk", RiskVote(c, tries)) \in Vote
  BY <1>1, <1>2, <1>3, <1>4, AlignTyped
<1> QED BY <1>5 DEF Votes, Agent

LEMMA AuthorizedTyped ==
    ASSUME NEW votes, NEW valid, NEW c, NEW tries
    PROVE  Authorized(votes, valid, c, tries) \subseteq Concrete
BY DEF Authorized

-----------------------------------------------------------------------------
(* The inductive invariant. *)

LEMMA InitInvariant == Init => IInv
BY DEF Init, IInv, TypeOK, Assessed, MemoryExplained, BallotExplained, NoBallot, Nobody

LEMMA AssessInvariant ==
    ASSUME IInv, NEW answered \in SUBSET Agent, NEW fallback \in SUBSET Remote,
           NEW intent \in IntentVotes,
           Assess(answered, fallback, intent)
    PROVE  IInv'
<1> DEFINE c == current.candidate
           tries == attempts[current.tx]
           votes == Votes(c, tries, intent)
           repeated == {a \in answered \ quarantined : Repeated(a, fallback)}
           valid == answered \ (quarantined \cup repeated)
           allowed == Authorized(votes, valid, c, tries)
<1>1. /\ current \in [tx : Tx, candidate : Candidates]
      /\ c \in Candidate /\ tries \in Nat /\ version[current.tx] \in Nat
  BY InputsAssumption DEF IInv, TypeOK, Assess
<1>2. repeated \subseteq Remote /\ repeated \subseteq Agent /\ valid \subseteq Agent
  BY AgentsAre DEF Repeated
<1>3. quarantined \subseteq Remote
  BY DEF IInv
<1>4. /\ version[current.tx] > 0
      /\ repeated # {} \/ quarantined # {} => TwoCame
  <2>1. version[current.tx] > 0
    BY DEF IInv, MemoryExplained, Assess
  <2>2. ASSUME NEW a \in repeated PROVE TwoCame
    <3>1. PICK t \in Tx : Used(t, LocalId(a)[2])
      BY DEF Repeated, IInv, MemoryExplained
    <3>2. LocalId(a)[2] = version[current.tx] /\ pc = "received"
      BY DEF LocalId, Assess
    <3>3. version[t] \in Nat /\ current.tx \in Tx
      BY <1>1 DEF IInv, TypeOK
    <3>4. t # current.tx /\ version[t] > 0
      BY <1>1, <2>1, <3>1, <3>2, <3>3 DEF Used
    <3> QED BY <2>1, <3>3, <3>4 DEF TwoCame
  <2> QED BY <2>1, <2>2 DEF IInv, MemoryExplained
<1>5. votes \in [Agent -> Vote]
  BY <1>1, VotesTyped, IntentVotesAreVotes
<1>6. allowed \subseteq Concrete
  BY AuthorizedTyped
<1>7. /\ bad' = [a \in Agent |-> IF a \in repeated THEN bad[a] + 1 ELSE bad[a]]
      /\ quarantined' = quarantined \cup {a \in repeated : bad[a] + 1 >= 2}
      /\ seen' = seen \cup {LocalId(a) : a \in valid \cap fallback}
      /\ attempts' = IF allowed = {} THEN attempts
                     ELSE [attempts EXCEPT ![current.tx] = @ + 1]
      /\ ballot' = [votes |-> votes, answered |-> answered, valid |-> valid,
                    tries |-> tries, allowed |-> allowed]
      /\ pc' = "assessed"
      /\ version' = version /\ current' = current
  BY DEF Assess
<1>8. ballot' \in Ballot
  <2> HIDE DEF c, tries, votes, valid, allowed, repeated
  <2> QED BY <1>1, <1>2, <1>5, <1>6, <1>7 DEF Ballot
<1>9. TypeOK'
  <2>1. attempts' \in [Tx -> Nat] /\ bad' \in [Agent -> Nat]
    <3> HIDE DEF c, tries, votes, valid, allowed, repeated
    <3> QED BY <1>1, <1>7 DEF IInv, TypeOK
  <2>2. seen' \subseteq Remote \X Nat
    BY <1>1, <1>7 DEF IInv, TypeOK, LocalId
  <2>3. quarantined' \subseteq Agent
    BY <1>2, <1>3, <1>7, AgentsAre
  <2>4. version' \in [Tx -> Nat] /\ current' \in [tx : Tx, candidate : Candidates]
    BY <1>1, <1>7 DEF IInv, TypeOK
  <2> QED BY <1>7, <1>8, <2>1, <2>2, <2>3, <2>4 DEF TypeOK
<1>10. quarantined' \subseteq Remote
  BY <1>2, <1>3, <1>7
<1>11. MemoryExplained'
  <2>1. (pc # "idle" => version[current.tx] > 0)'
    BY <1>4, <1>7
  <2>2. ASSUME NEW id \in seen' PROVE id[2] > 0 /\ \E t \in Tx : Used(t, id[2])'
    <3>1. CASE id \in seen
      BY <1>7, <3>1 DEF IInv, MemoryExplained, Used
    <3>2. CASE \E a \in valid \cap fallback : id = LocalId(a)
      <4>1. id[2] = version[current.tx]
        BY <3>2 DEF LocalId
      <4>2. Used(current.tx, id[2])'
        BY <1>1, <1>7, <4>1 DEF Used
      <4>3. current'.tx \in Tx /\ id[2] > 0
        BY <1>1, <1>4, <1>7, <4>1
      <4> HIDE DEF c, tries, votes, valid, allowed, repeated
      <4> QED BY <4>2, <4>3 DEF Used
    <3> QED BY <1>7, <2>2, <3>1, <3>2
  <2>3. TwoCame' <=> TwoCame
    BY <1>7 DEF TwoCame
  <2>4. (quarantined # {} => TwoCame)'
    BY <1>4, <1>7, <2>3
  <2>5. (Assessed /\ ballot.valid # ballot.answered => TwoCame)'
    <3>1. ballot'.valid = valid /\ ballot'.answered = answered
      <4> HIDE DEF c, tries, votes, valid, allowed, repeated
      <4> QED BY <1>7
    <3>2. valid # answered => repeated # {} \/ quarantined # {}
      OBVIOUS
    <3> QED BY <1>4, <2>3, <3>1, <3>2
  <2> QED BY <2>1, <2>2, <2>4, <2>5 DEF MemoryExplained
<1>12. BallotExplained'
  <2>1. /\ ballot'.votes = votes /\ ballot'.valid = valid
        /\ ballot'.tries = tries /\ ballot'.allowed = allowed
    <3> HIDE DEF c, tries, votes, valid, allowed, repeated
    <3> QED BY <1>7
  <2>2. current'.candidate = c
    BY <1>7
  <2>3. ballot'.votes = Votes(current'.candidate, ballot'.tries, intent)
    BY <2>1, <2>2
  <2>4. ballot'.allowed =
          Authorized(ballot'.votes, ballot'.valid, current'.candidate, ballot'.tries)
    BY <2>1, <2>2
  <2> QED BY <2>3, <2>4 DEF BallotExplained
<1> QED BY <1>9, <1>10, <1>11, <1>12 DEF IInv

LEMMA StepInvariant == IInv /\ [Next]_vars => IInv'
<1> SUFFICES ASSUME IInv, [Next]_vars PROVE IInv'
  OBVIOUS
<1>1. ASSUME NEW t \in Tx, NEW c \in Candidates, Receive(t, c) PROVE IInv'
  <2>1. t \in Tx /\ version \in [Tx -> Nat]
    BY DEF IInv, TypeOK
  <2>2. /\ version' = [version EXCEPT ![t] = @ + 1]
        /\ current' = [tx |-> t, candidate |-> c] /\ pc = "idle" /\ pc' = "received"
        /\ UNCHANGED <<attempts, seen, bad, quarantined, ballot, restarts>>
    BY <1>1 DEF Receive, validator
  <2>3. TypeOK' /\ quarantined' \subseteq Remote /\ BallotExplained'
    BY <2>1, <2>2 DEF IInv, TypeOK, BallotExplained, Assessed
  <2>4. ASSUME NEW id \in seen PROVE id[2] > 0 /\ \E u \in Tx : Used(u, id[2])'
    <3>1. id[2] \in Nat
      BY <2>4 DEF IInv, TypeOK
    <3>2. PICK u \in Tx : id[2] > 0 /\ Used(u, id[2])
      BY <2>4 DEF IInv, MemoryExplained
    <3>3. Used(u, id[2])'
      BY <2>1, <2>2, <3>1, <3>2 DEF Used
    <3> QED BY <3>2, <3>3
  <2>5. TwoCame => TwoCame'
    BY <2>1, <2>2 DEF TwoCame
  <2>6. version'[current'.tx] > 0
    BY <2>1, <2>2
  <2>7. MemoryExplained'
    BY <2>2, <2>4, <2>5, <2>6 DEF IInv, MemoryExplained, Assessed
  <2> QED BY <2>3, <2>7 DEF IInv
<1>2. CASE Answers
  <2>1. PICK silent \in SUBSET Agent, fallback \in SUBSET Remote :
          \E intent \in IF "intent" \in silent THEN {Says("DO_NOTHING", 0)}
                       ELSE IF "intent" \in fallback THEN LocalIntentVotes
                       ELSE RemoteIntentVotes :
              Assess(Agent \ silent, fallback, intent)
    BY <1>2 DEF Answers
  <2>2. PICK intent \in IntentVotes : Assess(Agent \ silent, fallback, intent)
    BY <2>1 DEF IntentVotes
  <2> QED BY <2>2, AssessInvariant
<1>3. CASE Finish
  BY <1>3 DEF IInv, TypeOK, MemoryExplained, Used, TwoCame, BallotExplained, Assessed,
              Finish, validator
<1>4. CASE Restart
  BY <1>4 DEF IInv, TypeOK, MemoryExplained, BallotExplained, Assessed, Restart
<1>5. CASE UNCHANGED vars
  BY <1>5 DEF IInv, TypeOK, MemoryExplained, Used, TwoCame, BallotExplained, Assessed, vars
<1> QED BY <1>1, <1>2, <1>3, <1>4, <1>5 DEF Next

\* Every reachable state satisfies the inductive invariant.
THEOREM Inductive == Spec => []IInv
<1> QED BY InitInvariant, StepInvariant, PTL DEF Spec

\* The values of every variable, for every set of candidates and limits.
THEOREM TypeCorrect == Spec => []TypeOK
<1>1. IInv => TypeOK
  BY DEF IInv
<1> QED BY Inductive, <1>1, PTL

\* Without a second transaction the validator (consensus/engine.py:55-70) rejects
\* no belief, for any number of candidates and restarts.
THEOREM LoneTransactionKeepsVotesHolds == Spec => []LoneTransactionKeepsVotes
<1>1. IInv => LoneTransactionKeepsVotes
  BY DEF IInv, MemoryExplained, TwoCame, LoneTransactionKeepsVotes
<1> QED BY Inductive, <1>1, PTL

-----------------------------------------------------------------------------
(* Arithmetic of the tally. *)

Weights(valid) == [a \in Agent |-> IF a \in valid THEN Weight(a) ELSE 0]
SupportOf(votes, valid, R) ==
    [a \in Agent |-> IF a \in valid /\ votes[a].recommendation \in R
                     THEN Weight(a) * votes[a].confidence ELSE 0]

LEMMA WeightsAreNumbers ==
    ASSUME NEW a
    PROVE  Weight(a) \in 10..13
BY DEF Weight

LEMMA TallyMonotone ==
    ASSUME NEW f \in [Agent -> Int], NEW g \in [Agent -> Int],
           \A a \in Agent : f[a] <= g[a]
    PROVE  Tally(f) \in Int /\ Tally(f) <= Tally(g)
BY AgentsAre DEF Tally, Agent

LEMMA TallyAdds ==
    ASSUME NEW f \in [Agent -> Int], NEW g \in [Agent -> Int], NEW h \in [Agent -> Int],
           \A a \in Agent : f[a] + g[a] = h[a]
    PROVE  Tally(f) + Tally(g) = Tally(h)
BY DEF Tally, Agent

LEMMA TallyScales ==
    ASSUME NEW f \in [Agent -> Int]
    PROVE  Tally([a \in Agent |-> 1000 * f[a]]) = 1000 * Tally(f)
BY DEF Tally, Agent

LEMMA WeightTimes ==
    ASSUME NEW a, NEW k \in 0..1000
    PROVE  Weight(a) * k \in 0..(1000 * Weight(a))
<1>1. CASE Weight(a) = 10
  BY <1>1
<1>2. CASE Weight(a) = 12
  BY <1>2
<1>3. CASE Weight(a) = 13
  BY <1>3
<1> QED BY <1>1, <1>2, <1>3 DEF Weight

LEMMA VoteWeighs ==
    ASSUME NEW votes \in [Agent -> Vote], NEW a \in Agent
    PROVE  Weight(a) * votes[a].confidence \in 0..(1000 * Weight(a))
<1>1. PICK k \in 0..1000 : votes[a].confidence = k
  BY DEF Vote
<1>2. Weight(a) * k \in 0..(1000 * Weight(a))
  BY WeightTimes, SMTT(20)
<1> QED BY <1>1, <1>2

LEMMA SupportTyped ==
    ASSUME NEW votes \in [Agent -> Vote], NEW valid \in SUBSET Agent,
           NEW R \in SUBSET Recommendation
    PROVE  /\ SupportOf(votes, valid, R) \in [Agent -> Int]
           /\ \A a \in Agent : SupportOf(votes, valid, R)[a] \in 0..(1000 * Weights(valid)[a])
<1>1. ASSUME NEW a \in Agent
      PROVE  Weight(a) * votes[a].confidence \in 0..(1000 * Weight(a))
  BY VoteWeighs
<1>2. SupportOf(votes, valid, R) \in [Agent -> Int]
  BY <1>1 DEF SupportOf
<1>3. \A a \in Agent : SupportOf(votes, valid, R)[a] \in 0..(1000 * Weights(valid)[a])
  BY <1>1, WeightsAreNumbers DEF SupportOf, Weights
<1> QED BY <1>2, <1>3

LEMMA TotalTyped ==
    ASSUME NEW valid \in SUBSET Agent
    PROVE  /\ Weights(valid) \in [Agent -> Int]
           /\ TotalWeight(valid) = Tally(Weights(valid))
           /\ TotalWeight(valid) \in Nat
           /\ valid # {} => TotalWeight(valid) >= 10
<1>1. Weights(valid) \in [Agent -> 0..13]
  BY WeightsAreNumbers DEF Weights
<1>2. TotalWeight(valid) = Tally(Weights(valid))
  BY DEF TotalWeight, Weights
<1>3. Tally(Weights(valid)) \in Nat
  BY <1>1 DEF Tally, Agent
<1>4. ASSUME NEW b \in valid PROVE Tally(Weights(valid)) >= 10
  <2>1. Weights(valid)[b] >= 10
    BY <1>4, WeightsAreNumbers DEF Weights
  <2> QED BY <1>1, <2>1, AgentsAre DEF Tally, Agent
<1> QED BY <1>1, <1>2, <1>3, <1>4

\* The support of an action is the tally of the beliefs that recommend it.
LEMMA SupportIs ==
    ASSUME NEW votes, NEW valid, NEW r
    PROVE  Support(votes, valid, r) = Tally(SupportOf(votes, valid, {r}))
<1>1. \A x : x = r <=> x \in {r}
  OBVIOUS
<1> QED BY <1>1 DEF Support, SupportOf

LEMMA SupportFunction ==
    ASSUME NEW votes \in [Agent -> Vote], NEW valid \in SUBSET Agent,
           NEW R \in SUBSET Recommendation
    PROVE  SupportOf(votes, valid, R) \in [Agent -> Int]
BY SupportTyped

LEMMA SupportNumber ==
    ASSUME NEW votes \in [Agent -> Vote], NEW valid \in SUBSET Agent,
           NEW R \in SUBSET Recommendation
    PROVE  Tally(SupportOf(votes, valid, R)) \in Int
<1> DEFINE f == SupportOf(votes, valid, R)
<1>1. f \in [Agent -> Int]
  BY SupportFunction
<1> HIDE DEF f
<1>2. Tally(f) \in Int
  BY <1>1 DEF Tally, Agent
<1> QED BY <1>2 DEF f

LEMMA SupportGrows ==
    ASSUME NEW votes \in [Agent -> Vote], NEW valid \in SUBSET Agent,
           NEW R \in SUBSET Recommendation, NEW S \in SUBSET Recommendation,
           R \subseteq S
    PROVE  Tally(SupportOf(votes, valid, R)) <= Tally(SupportOf(votes, valid, S))
<1> DEFINE f == SupportOf(votes, valid, R)
           g == SupportOf(votes, valid, S)
<1>1. f \in [Agent -> Int] /\ g \in [Agent -> Int]
  BY SupportFunction
<1>2. ASSUME NEW a \in Agent PROVE f[a] <= g[a]
  <2>1. f[a] = 0 \/ f[a] = g[a]
    BY DEF SupportOf
  <2>2. 0 <= Weight(a) * votes[a].confidence
    BY VoteWeighs, WeightsAreNumbers
  <2>3. g[a] >= 0
    BY <2>2 DEF SupportOf
  <2> HIDE DEF f, g
  <2> QED BY <1>1, <2>1, <2>3
<1> HIDE DEF f, g
<1>3. Tally(f) <= Tally(g)
  BY <1>1, <1>2, TallyMonotone
<1> QED BY <1>3 DEF f, g

LEMMA SupportsAdd ==
    ASSUME NEW votes \in [Agent -> Vote], NEW valid \in SUBSET Agent,
           NEW R \in SUBSET Recommendation, NEW S \in SUBSET Recommendation,
           R \cap S = {}
    PROVE  Tally(SupportOf(votes, valid, R)) + Tally(SupportOf(votes, valid, S))
               = Tally(SupportOf(votes, valid, R \cup S))
<1> DEFINE f == SupportOf(votes, valid, R)
           g == SupportOf(votes, valid, S)
           h == SupportOf(votes, valid, R \cup S)
<1>1. ASSUME NEW a \in Agent PROVE f[a] + g[a] = h[a]
  <2>1. Weight(a) * votes[a].confidence \in 0..(1000 * Weight(a))
    BY VoteWeighs
  <2>2. Weight(a) * votes[a].confidence \in Int
    BY <2>1, WeightsAreNumbers
  <2> QED BY <2>2 DEF SupportOf
<1>2. f \in [Agent -> Int] /\ g \in [Agent -> Int] /\ h \in [Agent -> Int]
  BY SupportFunction
<1> HIDE DEF f, g, h
<1>3. Tally(f) + Tally(g) = Tally(h)
  BY <1>1, <1>2, TallyAdds
<1> QED BY <1>3 DEF f, g, h

\* No recommendations together have more support than the participating weight.
LEMMA SupportBounded ==
    ASSUME NEW votes \in [Agent -> Vote], NEW valid \in SUBSET Agent,
           NEW R \in SUBSET Recommendation
    PROVE  Tally(SupportOf(votes, valid, R)) <= 1000 * TotalWeight(valid)
<1> DEFINE w == [a \in Agent |-> 1000 * Weights(valid)[a]]
<1>1. w \in [Agent -> Int] /\ Tally(w) = 1000 * TotalWeight(valid)
  BY TotalTyped, TallyScales
<1>2. \A a \in Agent : SupportOf(votes, valid, R)[a] <= w[a]
  BY SupportTyped, TotalTyped
<1> HIDE DEF w
<1>3. Tally(SupportOf(votes, valid, R)) <= Tally(w)
  BY <1>1, <1>2, SupportTyped, TallyMonotone
<1> QED BY <1>1, <1>3

-----------------------------------------------------------------------------
(* What a quorum authorizes. *)

LEMMA QuorumMeans ==
    ASSUME NEW valid \in SUBSET Agent, NEW s \in Int, Quorum(s, valid)
    PROVE  TotalWeight(valid) \in Nat /\ TotalWeight(valid) >= 10
               /\ s >= 670 * TotalWeight(valid)
<1>1. valid # {}
  BY FS_EmptySet DEF Quorum, MinValidAgents
<1> QED BY <1>1, TotalTyped DEF Quorum, Threshold

\* A quorum has two agents at least, and so twice the smallest weight.
LEMMA QuorumWeighs ==
    ASSUME NEW valid \in SUBSET Agent, NEW s, Quorum(s, valid)
    PROVE  TotalWeight(valid) >= 20
<1>1. Cardinality(valid) >= 3
  BY DEF Quorum, MinValidAgents
<1>2. PICK a : a \in valid
  BY <1>1, FS_EmptySet
<1>3. PICK b \in valid : b # a
  <2>1. SUFFICES ASSUME valid = {a} PROVE FALSE
    BY <1>2
  <2> QED BY <1>1, <2>1, FS_Singleton
<1>4. Weights(valid) \in [Agent -> 0..13]
  BY WeightsAreNumbers DEF Weights
<1>5. Weights(valid)[a] >= 10 /\ Weights(valid)[b] >= 10
  BY <1>2, <1>3, WeightsAreNumbers DEF Weights
<1>6. a \in Agent /\ b \in Agent
  BY <1>2, <1>3
<1>7. Tally(Weights(valid)) >= 20
  BY <1>3, <1>4, <1>5, <1>6, AgentsAre DEF Tally, Agent
<1> QED BY <1>7, TotalTyped

\* Two recommendations never both have a quorum.
LEMMA OneQuorum ==
    ASSUME NEW votes \in [Agent -> Vote], NEW valid \in SUBSET Agent,
           NEW d \in Decided(votes, valid), NEW e \in Decided(votes, valid)
    PROVE  d = e
<1> SUFFICES ASSUME d # e PROVE FALSE
  OBVIOUS
<1> DEFINE sd == Tally(SupportOf(votes, valid, {d}))
           se == Tally(SupportOf(votes, valid, {e}))
<1>1. Quorum(sd, valid) /\ Quorum(se, valid)
  BY SupportIs DEF Decided
<1>2. /\ {d} \in SUBSET Recommendation /\ {e} \in SUBSET Recommendation
      /\ sd \in Int /\ se \in Int
  BY SupportNumber DEF Decided
<1>3. sd + se = Tally(SupportOf(votes, valid, {d} \cup {e}))
  BY <1>2, SupportsAdd
<1>4. sd + se <= 1000 * TotalWeight(valid)
  BY <1>2, <1>3, SupportBounded
<1> HIDE DEF sd, se
<1>5. /\ TotalWeight(valid) \in Nat /\ TotalWeight(valid) >= 10
      /\ sd >= 670 * TotalWeight(valid) /\ se >= 670 * TotalWeight(valid)
  BY <1>1, <1>2, QuorumMeans
<1> QED BY <1>2, <1>4, <1>5

LEMMA InferredIs ==
    ASSUME NEW c \in Candidate
    PROVE  Inferred(c) \in Concrete \cup {"DO_NOTHING"}
BY DEF Inferred, StageAction, Concrete, Candidate, Stage

\* Where an authorized action comes from.
LEMMA Decision ==
    ASSUME NEW votes \in [Agent -> Vote], NEW valid \in SUBSET Agent,
           NEW c \in Candidate, NEW tries,
           NEW r \in Authorized(votes, valid, c, tries)
    PROVE  /\ r \in Concrete
           /\ Authorized(votes, valid, c, tries) = {r}
           /\ \/ /\ r = Inferred(c)
                 /\ Quorum(Support(votes, valid, "RECOVER") + Support(votes, valid, r), valid)
              \/ Quorum(Support(votes, valid, r), valid)
              \/ /\ Quorum(Support(votes, valid, "RECOVER"), valid)
                 /\ r = Inferred(c) \/ (r = "SWITCH_PROVIDER" /\ Inferred(c) = "DO_NOTHING")
<1>1. \A d, e \in Resolved(votes, valid, c) : d = e
  BY OneQuorum DEF Resolved
<1>2. PICK d \in Resolved(votes, valid, c) : r = ConcreteAction(d, c)
  BY DEF Authorized
<1>3. r \in Concrete
  BY AuthorizedTyped
<1>4. Authorized(votes, valid, c, tries) = {r}
  BY <1>1, <1>2 DEF Authorized
<1>5. CASE /\ Inferred(c) # "DO_NOTHING" /\ d = Inferred(c)
           /\ Quorum(Support(votes, valid, "RECOVER") + Support(votes, valid, d), valid)
  <2>1. r = d
    BY <1>2, <1>5, InferredIs DEF ConcreteAction, Concrete
  <2> QED BY <1>3, <1>4, <1>5, <2>1
<1>6. CASE d \in Decided(votes, valid)
  <2>1. Quorum(Support(votes, valid, d), valid)
    BY <1>6 DEF Decided
  <2>2. CASE d # "RECOVER"
    BY <1>2, <1>3, <1>4, <2>1, <2>2 DEF ConcreteAction
  <2>3. CASE d = "RECOVER"
    BY <1>2, <1>3, <1>4, <2>1, <2>3 DEF ConcreteAction
  <2> QED BY <2>2, <2>3
<1> QED BY <1>2, <1>5, <1>6 DEF Resolved

LEMMA AuthorizedSupported ==
    ASSUME NEW votes \in [Agent -> Vote], NEW valid \in SUBSET Agent,
           NEW c \in Candidate, NEW tries,
           NEW r \in Authorized(votes, valid, c, tries)
    PROVE  Tally(SupportOf(votes, valid, {r, "RECOVER"})) >= Threshold * TotalWeight(valid)
<1> DEFINE both == Tally(SupportOf(votes, valid, {r, "RECOVER"}))
           direct == Tally(SupportOf(votes, valid, {r}))
           generic == Tally(SupportOf(votes, valid, {"RECOVER"}))
<1>0. r \in Recommendation /\ r # "RECOVER" /\ "RECOVER" \in Recommendation
  BY Decision DEF Recommendation, Concrete
<1>1. both \in Int /\ direct \in Int /\ generic \in Int
  BY <1>0, SupportNumber
<1>2. direct <= both /\ generic <= both
  BY <1>0, SupportGrows
<1>3. generic + direct = both
  <2>1. {"RECOVER"} \cap {r} = {} /\ {"RECOVER"} \cup {r} = {r, "RECOVER"}
    BY <1>0
  <2>2. generic + direct = Tally(SupportOf(votes, valid, {"RECOVER"} \cup {r}))
    BY <1>0, <2>1, SupportsAdd
  <2> QED BY <2>1, <2>2
<1>4. \/ Quorum(generic + direct, valid) \/ Quorum(direct, valid) \/ Quorum(generic, valid)
  BY Decision, SupportIs
<1> HIDE DEF both, direct, generic
<1>5. \A x \in Int : Quorum(x, valid) => x >= 670 * TotalWeight(valid)
  BY QuorumMeans
<1>6. TotalWeight(valid) \in Nat
  BY TotalTyped
<1>7. both >= 670 * TotalWeight(valid)
  BY <1>1, <1>2, <1>3, <1>4, <1>5, <1>6
<1> QED BY <1>7 DEF both, Threshold

-----------------------------------------------------------------------------
(* What the five votes can support. *)

LEMMA TotalIs ==
    ASSUME NEW valid \in SUBSET Agent
    PROVE  TotalWeight(valid) = (IF "intent" \in valid THEN 10 ELSE 0)
                              + (IF "provider" \in valid THEN 10 ELSE 0)
                              + (IF "transaction" \in valid THEN 12 ELSE 0)
                              + (IF "economics" \in valid THEN 10 ELSE 0)
                              + (IF "risk" \in valid THEN 13 ELSE 0)
BY DEF TotalWeight, Tally, Weight, Agent

\* One belief's part of a support.
LEMMA BeliefSupport ==
    ASSUME NEW votes \in [Agent -> Vote], NEW valid \in SUBSET Agent,
           NEW R \in SUBSET Recommendation, NEW a \in Agent
    PROVE  /\ a \notin valid \/ votes[a].recommendation \notin R
                 => SupportOf(votes, valid, R)[a] = 0
           /\ SupportOf(votes, valid, R)[a] <= Weight(a) * votes[a].confidence
<1>1. Weight(a) * votes[a].confidence \in 0..(1000 * Weight(a))
  BY VoteWeighs
<1>2. 0 <= Weight(a) * votes[a].confidence /\ Weight(a) * votes[a].confidence \in Int
  BY <1>1, WeightsAreNumbers
<1> QED BY <1>2 DEF SupportOf

\* A support is the sum of five parts, each there when its agent's belief counts.
LEMMA Parts ==
    ASSUME NEW votes \in [Agent -> Vote], NEW valid \in SUBSET Agent,
           NEW R \in SUBSET Recommendation,
           NEW s, s = SupportOf(votes, valid, R)
    PROVE  /\ Tally(s) = s["intent"] + s["provider"] + s["transaction"]
                             + s["economics"] + s["risk"]
           /\ \A a \in Agent : /\ s[a] \in Int
                               /\ votes[a].confidence \in 0..1000
                               /\ a \notin valid \/ votes[a].recommendation \notin R
                                      => s[a] = 0
           /\ s["intent"] <= (IF "intent" \in valid THEN 10000 ELSE 0)
           /\ s["provider"] <= (IF "provider" \in valid THEN 10000 ELSE 0)
           /\ s["transaction"] <= 12 * votes["transaction"].confidence
           /\ s["economics"] <= 10 * votes["economics"].confidence
           /\ s["risk"] <= 13 * votes["risk"].confidence
<1>1. \A a \in Agent : /\ a \notin valid \/ votes[a].recommendation \notin R => s[a] = 0
                      /\ s[a] <= Weight(a) * votes[a].confidence
  BY BeliefSupport
<1>2. \A a \in Agent : votes[a].confidence \in 0..1000
  BY DEF Vote
<1>3. \A a \in Agent : s[a] \in Int
  BY SupportFunction
<1>4. /\ s["intent"] <= 10 * votes["intent"].confidence
      /\ s["provider"] <= 10 * votes["provider"].confidence
      /\ s["transaction"] <= 12 * votes["transaction"].confidence
      /\ s["economics"] <= 10 * votes["economics"].confidence
      /\ s["risk"] <= 13 * votes["risk"].confidence
  BY <1>1 DEF Agent, Weight
<1>5. /\ s["intent"] <= (IF "intent" \in valid THEN 10000 ELSE 0)
      /\ s["provider"] <= (IF "provider" \in valid THEN 10000 ELSE 0)
  <2>1. \A a \in Agent : s[a] \in 0..(1000 * Weights(valid)[a])
    BY SupportTyped
  <2>2. /\ Weights(valid)["intent"] = (IF "intent" \in valid THEN 10 ELSE 0)
        /\ Weights(valid)["provider"] = (IF "provider" \in valid THEN 10 ELSE 0)
    BY DEF Weights, Weight, Agent
  <2>3. /\ s["intent"] \in 0..(1000 * Weights(valid)["intent"])
        /\ s["provider"] \in 0..(1000 * Weights(valid)["provider"])
    BY <2>1 DEF Agent
  <2> QED BY <2>2, <2>3
<1>6. Tally(s) = s["intent"] + s["provider"] + s["transaction"] + s["economics"] + s["risk"]
  BY DEF Tally
<1>7. \A a \in Agent : a \notin valid \/ votes[a].recommendation \notin R => s[a] = 0
  BY <1>1
<1> QED BY <1>2, <1>3, <1>4, <1>5, <1>6, <1>7

\* The five votes on a failure at checkout.
LEMMA CheckoutVotes ==
    ASSUME NEW c \in Candidate, NEW tries \in Nat, NEW intent \in IntentVotes,
           c.stage = "checkout", NEW votes, votes = Votes(c, tries, intent)
    PROVE  /\ votes["intent"].recommendation = "SEND_PAYMENT_LINK"
           /\ votes["provider"].recommendation \in {"DO_NOTHING", "SWITCH_PROVIDER"}
           /\ ~ c.provider_fault => /\ votes["provider"].recommendation = "DO_NOTHING"
                                   /\ votes["transaction"] = Says("SEND_PAYMENT_LINK", 880)
           /\ c.provider_fault => votes["transaction"] = Says("SWITCH_PROVIDER", 910)
           /\ votes["economics"].recommendation \in {"SEND_PAYMENT_LINK", "DO_NOTHING"}
           /\ votes["economics"].recommendation = "SEND_PAYMENT_LINK"
                 => votes["economics"].confidence = 850
           /\ votes["risk"].recommendation \in {"SEND_PAYMENT_LINK", "DO_NOTHING"}
<1>1. intent.recommendation \in {"RECOVER", "DO_NOTHING", "SEND_PAYMENT_LINK"}
  BY DEF IntentVotes, RemoteIntentVotes, LocalIntentVotes, Says
<1>2. votes["intent"].recommendation = "SEND_PAYMENT_LINK"
  BY <1>1 DEF Votes, Align, Aligned, Says, Agent
<1>3. /\ votes["provider"].recommendation \in {"DO_NOTHING", "SWITCH_PROVIDER"}
      /\ ~ c.provider_fault => votes["provider"].recommendation = "DO_NOTHING"
  BY DEF Votes, Align, Aligned, ProviderVote, Says, Agent
<1>4. /\ ~ c.provider_fault => votes["transaction"] = Says("SEND_PAYMENT_LINK", 880)
      /\ c.provider_fault => votes["transaction"] = Says("SWITCH_PROVIDER", 910)
  BY DEF Votes, Align, Aligned, TransactionVote, StageAction, Says, Agent
<1>5. /\ votes["economics"].recommendation \in {"SEND_PAYMENT_LINK", "DO_NOTHING"}
      /\ votes["economics"].recommendation = "SEND_PAYMENT_LINK"
            => votes["economics"].confidence = 850
  BY DEF Votes, Align, Aligned, EconomicsVote, Says, Agent
<1>6. votes["risk"].recommendation \in {"SEND_PAYMENT_LINK", "DO_NOTHING"}
  BY DEF Votes, Align, Aligned, RiskVote, Says, Agent
<1> QED BY <1>2, <1>3, <1>4, <1>5, <1>6

\* With the risk agent against it, nothing at checkout comes near a quorum.
LEMMA RiskOutweighs ==
    ASSUME NEW c \in Candidate, NEW tries \in Nat, NEW intent \in IntentVotes,
           c.stage = "checkout", NEW valid \in SUBSET Agent, "risk" \in valid,
           NEW votes, votes = Votes(c, tries, intent),
           votes["risk"].recommendation = "DO_NOTHING", NEW r \in Concrete
    PROVE  Tally(SupportOf(votes, valid, {r, "RECOVER"})) < 670 * TotalWeight(valid)
<1> DEFINE R == {r, "RECOVER"}
           s == SupportOf(votes, valid, R)
           T == TotalWeight(valid)
<1>1. votes \in [Agent -> Vote] /\ R \in SUBSET Recommendation
  BY VotesTyped, IntentVotesAreVotes DEF Recommendation
<1> HIDE DEF s
<1>2. /\ Tally(s) = s["intent"] + s["provider"] + s["transaction"]
                        + s["economics"] + s["risk"]
      /\ \A a \in Agent : s[a] \in Int
      /\ s["intent"] <= (IF "intent" \in valid THEN 10000 ELSE 0)
      /\ s["provider"] <= (IF "provider" \in valid THEN 10000 ELSE 0)
      /\ s["transaction"] <= 12 * votes["transaction"].confidence
      /\ s["economics"] <= 10 * votes["economics"].confidence
  BY <1>1, Parts, SMTT(20) DEF s
<1>3. \A a \in Agent : a \notin valid \/ votes[a].recommendation \notin R => s[a] = 0
  BY <1>1, Parts, SMTT(20) DEF s
<1>4. T = 13 + (IF "intent" \in valid THEN 10 ELSE 0)
             + (IF "provider" \in valid THEN 10 ELSE 0)
             + (IF "transaction" \in valid THEN 12 ELSE 0)
             + (IF "economics" \in valid THEN 10 ELSE 0)
  BY TotalIs
<1> HIDE DEF T
<1>5. /\ votes["intent"].recommendation = "SEND_PAYMENT_LINK"
      /\ votes["provider"].recommendation \in {"DO_NOTHING", "SWITCH_PROVIDER"}
      /\ ~ c.provider_fault => votes["transaction"] = Says("SEND_PAYMENT_LINK", 880)
      /\ c.provider_fault => votes["transaction"] = Says("SWITCH_PROVIDER", 910)
      /\ votes["economics"].recommendation \in {"SEND_PAYMENT_LINK", "DO_NOTHING"}
      /\ votes["economics"].recommendation = "SEND_PAYMENT_LINK"
            => votes["economics"].confidence = 850
  BY CheckoutVotes
<1>6. /\ s["intent"] \in Int /\ s["provider"] \in Int /\ s["transaction"] \in Int
      /\ s["economics"] \in Int /\ s["risk"] \in Int
  BY <1>2 DEF Agent
<1>7. s["risk"] = 0
  BY <1>3 DEF Agent, Concrete
<1>8. CASE r = "SEND_PAYMENT_LINK"
  <2>1. s["provider"] = 0
    BY <1>3, <1>5, <1>8 DEF Agent
  <2>2. s["transaction"] <= (IF "transaction" \in valid THEN 10560 ELSE 0)
    <3>1. CASE c.provider_fault \/ "transaction" \notin valid
      BY <1>3, <1>5, <1>8, <3>1 DEF Agent, Says
    <3>2. CASE ~ c.provider_fault /\ "transaction" \in valid
      BY <1>2, <1>5, <3>2 DEF Says
    <3> QED BY <3>1, <3>2
  <2>3. s["economics"] <= (IF "economics" \in valid THEN 8500 ELSE 0)
    <3>1. CASE votes["economics"].recommendation = "DO_NOTHING" \/ "economics" \notin valid
      BY <1>3, <1>8, <3>1 DEF Agent
    <3>2. CASE votes["economics"].confidence = 850 /\ "economics" \in valid
      BY <1>2, <3>2
    <3> QED BY <1>5, <3>1, <3>2
  <2>4. Tally(s) < 670 * T
    BY <1>2, <1>4, <1>6, <1>7, <2>1, <2>2, <2>3
  <2> QED BY <2>4 DEF s, T
<1>9. CASE r # "SEND_PAYMENT_LINK"
  <2>1. s["intent"] = 0 /\ s["economics"] = 0
    BY <1>3, <1>5, <1>9 DEF Agent, Concrete
  <2>2. s["transaction"] <= (IF "transaction" \in valid THEN 10920 ELSE 0)
    <3>1. CASE "transaction" \notin valid
      BY <1>3, <3>1 DEF Agent
    <3>2. CASE c.provider_fault /\ "transaction" \in valid
      BY <1>2, <1>5, <3>2 DEF Says
    <3>3. CASE ~ c.provider_fault /\ "transaction" \in valid
      BY <1>2, <1>5, <1>6, <3>3 DEF Says
    <3> QED BY <3>1, <3>2, <3>3
  <2>3. Tally(s) < 670 * T
    BY <1>2, <1>4, <1>6, <1>7, <2>1, <2>2
  <2> QED BY <2>3 DEF s, T
<1> QED BY <1>8, <1>9

\* The five votes on a failure after checkout.
LEMMA LaterVotes ==
    ASSUME NEW c \in Candidate, NEW tries \in Nat, NEW intent \in IntentVotes,
           c.stage # "checkout", NEW votes, votes = Votes(c, tries, intent)
    PROVE  /\ votes["intent"].recommendation \in {"RECOVER", "DO_NOTHING", "SEND_PAYMENT_LINK"}
           /\ \/ votes["provider"].recommendation = "DO_NOTHING"
              \/ votes["provider"].recommendation = "SWITCH_PROVIDER" /\ c.provider_fault
           /\ \/ votes["transaction"].recommendation = StageAction[c.stage]
              \/ votes["transaction"].recommendation = "SWITCH_PROVIDER" /\ c.provider_fault
           /\ votes["economics"].recommendation \in {"RECOVER", "DO_NOTHING"}
           /\ votes["risk"].recommendation \in {"RECOVER", "DO_NOTHING"}
<1>1. intent.recommendation \in {"RECOVER", "DO_NOTHING", "SEND_PAYMENT_LINK"}
  BY DEF IntentVotes, RemoteIntentVotes, LocalIntentVotes, Says
<1>2. \A a, v : Align(c, a, v) = v
  BY DEF Align
<1>3. /\ votes["intent"] = intent /\ votes["provider"] = ProviderVote(c)
      /\ votes["transaction"] = TransactionVote(c)
      /\ votes["economics"] = EconomicsVote(c) /\ votes["risk"] = RiskVote(c, tries)
  BY <1>2 DEF Votes
<1>4. \/ votes["provider"].recommendation = "DO_NOTHING"
      \/ votes["provider"].recommendation = "SWITCH_PROVIDER" /\ c.provider_fault
  BY <1>3 DEF ProviderVote, Says
<1>5. \/ votes["transaction"].recommendation = StageAction[c.stage]
      \/ votes["transaction"].recommendation = "SWITCH_PROVIDER" /\ c.provider_fault
  BY <1>3 DEF TransactionVote, Says
<1>6. votes["economics"].recommendation \in {"RECOVER", "DO_NOTHING"}
  BY <1>3 DEF EconomicsVote, Says
<1>7. votes["risk"].recommendation \in {"RECOVER", "DO_NOTHING"}
  BY <1>3 DEF RiskVote, Says
<1> QED BY <1>1, <1>3, <1>4, <1>5, <1>6, <1>7

Fits(r, c) ==
    \/ r = StageAction[c.stage]
    \/ r = "SWITCH_PROVIDER" /\ c.provider_fault

LEMMA InferredFits ==
    ASSUME NEW c \in Candidate, Inferred(c) # "DO_NOTHING"
    PROVE  Fits(Inferred(c), c)
BY DEF Fits, Inferred, StageAction, Candidate, Stage

\* A recommendation with a quorum fits the failure, or is generic support after
\* checkout.
LEMMA QuorumFits ==
    ASSUME NEW c \in Candidate, NEW tries \in Nat, NEW intent \in IntentVotes,
           NEW valid \in SUBSET Agent,
           NEW votes, votes = Votes(c, tries, intent),
           NEW r \in Concrete \cup {"RECOVER"}, Quorum(Support(votes, valid, r), valid)
    PROVE  Fits(r, c) \/ (r = "RECOVER" /\ c.stage # "checkout")
<1> SUFFICES ASSUME ~ Fits(r, c), r = "RECOVER" => c.stage = "checkout" PROVE FALSE
  OBVIOUS
<1> DEFINE R == {r}
           s == SupportOf(votes, valid, R)
<1>1. votes \in [Agent -> Vote] /\ R \in SUBSET Recommendation
  BY VotesTyped, IntentVotesAreVotes DEF Recommendation
<1>2. Tally(s) \in Int /\ Quorum(Tally(s), valid)
  BY <1>1, SupportNumber, SupportIs
<1>3. TotalWeight(valid) \in Nat /\ Tally(s) >= 670 * TotalWeight(valid)
  BY <1>2, QuorumMeans
<1>4. TotalWeight(valid) >= 20
  BY <1>2, QuorumWeighs
<1> HIDE DEF R, s
<1>5. /\ Tally(s) = s["intent"] + s["provider"] + s["transaction"]
                        + s["economics"] + s["risk"]
      /\ \A a \in Agent : s[a] \in Int
      /\ s["intent"] <= (IF "intent" \in valid THEN 10000 ELSE 0)
  <2>1. \A a \in Agent : s[a] \in Int
    <3>1. s \in [Agent -> Int]
      BY <1>1, SupportFunction DEF s
    <3> QED BY <3>1
  <2>2. Tally(s) = s["intent"] + s["provider"] + s["transaction"] + s["economics"] + s["risk"]
    BY DEF Tally
  <2>3. s["intent"] <= (IF "intent" \in valid THEN 10000 ELSE 0)
    BY <1>1, Parts DEF s
  <2> QED BY <2>1, <2>2, <2>3
<1>6. \A a \in Agent : votes[a].recommendation # r => s[a] = 0
  <2>1. \A a \in Agent : a \notin valid \/ votes[a].recommendation \notin R => s[a] = 0
    BY <1>1, Parts DEF s
  <2> QED BY <2>1 DEF R
<1>7. /\ votes["provider"].recommendation # r /\ votes["transaction"].recommendation # r
      /\ votes["economics"].recommendation # r /\ votes["risk"].recommendation # r
  <2>1. CASE c.stage = "checkout"
    <3>1. StageAction[c.stage] = "SEND_PAYMENT_LINK"
      BY <2>1 DEF StageAction
    <3> QED BY <2>1, <3>1, CheckoutVotes DEF Fits, Says, Concrete
  <2>2. CASE c.stage # "checkout"
    BY <2>2, LaterVotes DEF Fits, Concrete
  <2> QED BY <2>1, <2>2
<1>8. /\ s["provider"] = 0 /\ s["transaction"] = 0 /\ s["economics"] = 0 /\ s["risk"] = 0
      /\ s["intent"] \in Int
  BY <1>5, <1>6, <1>7 DEF Agent
<1>9. Tally(s) <= 10000
  BY <1>5, <1>8
<1> QED BY <1>2, <1>3, <1>4, <1>9

-----------------------------------------------------------------------------
(* The properties of an authorized action. *)

\* An authorized action is the only one, and has 0.67 of the participating weight
\* behind it, for itself or for recovery in general (consensus/engine.py:76-125,
\* pipeline.py:127-165).
THEOREM AuthorizedMeansSupportedHolds == Spec => []AuthorizedMeansSupported
<1>1. IInv => AuthorizedMeansSupported
  <2> SUFFICES ASSUME IInv, Assessed, NEW r \in ballot.allowed
               PROVE  /\ ballot.allowed = {r}
                      /\ LET for == {a \in ballot.valid :
                                      ballot.votes[a].recommendation \in {r, "RECOVER"}}
                         IN  Tally([a \in Agent |->
                                 IF a \in for THEN Weight(a) * ballot.votes[a].confidence ELSE 0])
                                 >= Threshold * TotalWeight(ballot.valid)
    BY DEF AuthorizedMeansSupported
  <2> DEFINE votes == ballot.votes
             valid == ballot.valid
             c == current.candidate
             for == {a \in valid : votes[a].recommendation \in {r, "RECOVER"}}
             s == [a \in Agent |-> IF a \in for THEN Weight(a) * votes[a].confidence ELSE 0]
  <2>1. votes \in [Agent -> Vote] /\ valid \in SUBSET Agent /\ c \in Candidate
    BY InputsAssumption DEF IInv, TypeOK, Assessed, Ballot
  <2>2. ballot.allowed = Authorized(votes, valid, c, ballot.tries)
    BY DEF IInv, BallotExplained
  <2>3. ballot.allowed = {r}
    <3>1. r \in Authorized(votes, valid, c, ballot.tries)
      BY <2>2
    <3> HIDE DEF votes, valid, c
    <3>2. Authorized(votes, valid, c, ballot.tries) = {r}
      BY <2>1, <3>1, Decision
    <3> QED BY <2>2, <3>2
  <2>4. s = SupportOf(votes, valid, {r, "RECOVER"})
    BY DEF SupportOf
  <2>5. Tally(SupportOf(votes, valid, {r, "RECOVER"})) >= Threshold * TotalWeight(valid)
    BY <2>1, <2>2, AuthorizedSupported
  <2> QED BY <2>3, <2>4, <2>5
<1> QED BY Inductive, <1>1, PTL

\* At checkout nothing outweighs the refusal of a risk agent that has answered,
\* whichever others have (service.py:98-112).
THEOREM RiskVetoesLinksHolds == Spec => []RiskVetoesLinks
<1>1. IInv => RiskVetoesLinks
  <2> SUFFICES ASSUME IInv, Assessed, current.candidate.stage = "checkout",
                      "risk" \in ballot.valid,
                      ballot.votes["risk"].recommendation = "DO_NOTHING",
                      NEW r \in ballot.allowed
               PROVE  FALSE
    BY DEF RiskVetoesLinks
  <2> DEFINE votes == ballot.votes
             valid == ballot.valid
             c == current.candidate
             tries == ballot.tries
  <2>1. /\ votes \in [Agent -> Vote] /\ valid \in SUBSET Agent
        /\ c \in Candidate /\ tries \in Nat
    BY InputsAssumption DEF IInv, TypeOK, Assessed, Ballot
  <2>3. r \in Authorized(votes, valid, c, tries)
    BY DEF IInv, BallotExplained
  <2>4. PICK intent \in IntentVotes : votes = Votes(c, tries, intent)
    BY DEF IInv, BallotExplained
  <2> HIDE DEF votes, valid, c, tries
  <2>5. r \in Concrete
    BY <2>1, <2>3, Decision
  <2>6. Tally(SupportOf(votes, valid, {r, "RECOVER"})) >= 670 * TotalWeight(valid)
    BY <2>1, <2>3, AuthorizedSupported DEF Threshold
  <2>7. Tally(SupportOf(votes, valid, {r, "RECOVER"})) < 670 * TotalWeight(valid)
    BY <2>1, <2>4, <2>5, RiskOutweighs DEF votes, valid, c
  <2>8. {r, "RECOVER"} \in SUBSET Recommendation
    BY <2>5 DEF Recommendation
  <2>9. Tally(SupportOf(votes, valid, {r, "RECOVER"})) \in Int /\ TotalWeight(valid) \in Nat
    BY <2>1, <2>8, SupportNumber, TotalTyped
  <2> QED BY <2>6, <2>7, <2>9
<1> QED BY Inductive, <1>1, PTL

\* What is authorized fits the failed stage, whatever the five agents believe
\* (engine.py:76-125, pipeline.py:84-165).
THEOREM ActionFitsFailureHolds == Spec => []ActionFitsFailure
<1>1. IInv => ActionFitsFailure
  <2> SUFFICES ASSUME IInv, Assessed, NEW r \in ballot.allowed
               PROVE  Fits(r, current.candidate)
    BY DEF ActionFitsFailure, Fits
  <2> DEFINE votes == ballot.votes
             valid == ballot.valid
             c == current.candidate
             tries == ballot.tries
  <2>1. /\ votes \in [Agent -> Vote] /\ valid \in SUBSET Agent
        /\ c \in Candidate /\ tries \in Nat
    BY InputsAssumption DEF IInv, TypeOK, Assessed, Ballot
  <2>3. r \in Authorized(votes, valid, c, tries)
    BY DEF IInv, BallotExplained
  <2>4. PICK intent \in IntentVotes : votes = Votes(c, tries, intent)
    BY DEF IInv, BallotExplained
  <2> HIDE DEF votes, valid, c, tries
  <2>5. r \in Concrete
    BY <2>1, <2>3, Decision
  <2>6. CASE r = Inferred(c)
    BY <2>1, <2>5, <2>6, InferredFits DEF c, Concrete
  <2>7. CASE Quorum(Support(votes, valid, r), valid)
    <3>1. Fits(r, c) \/ r = "RECOVER"
      BY <2>1, <2>4, <2>5, <2>7, QuorumFits
    <3> QED BY <2>5, <3>1 DEF c, Concrete
  <2>8. CASE Quorum(Support(votes, valid, "RECOVER"), valid) /\ Inferred(c) = "DO_NOTHING"
    <3>1. c.stage = "checkout"
      BY <2>1, <2>8 DEF Inferred, StageAction, Candidate, Stage
    <3>2. Fits("RECOVER", c)
      BY <2>1, <2>4, <2>8, <3>1, QuorumFits
    <3> QED BY <3>1, <3>2 DEF Fits, StageAction
  <2> QED BY <2>1, <2>3, <2>6, <2>7, <2>8, Decision
<1> QED BY Inductive, <1>1, PTL
=============================================================================
