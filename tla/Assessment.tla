----------------------------- MODULE Assessment -----------------------------
(***************************************************************************)
(* How the coordinator decides on a candidate: the five agents' beliefs    *)
(* (recovery/agents, coordinator/service.py:78-311), the validator and the *)
(* weighted consensus (consensus/engine.py), the pipeline that resolves    *)
(* generic support (coordinator/pipeline.py) and the guardrails            *)
(* (policy/engine.py).  The validator remembers belief ids and bad beliefs *)
(* for as long as the process lives; the versions and the attempts of a    *)
(* transaction are in Redis.                                               *)
(*                                                                         *)
(* Confidences are in thousandths and weights in tenths, so a support of   *)
(* 0.67 of the participating weight is 670 times that weight.  The         *)
(* beliefs arrive in the order the agents' threads end; each is validated  *)
(* by its own agent's record only, so the order makes no difference.       *)
(*                                                                         *)
(* A candidate is what detection publishes: a failure (status "failure",   *)
(* a known code and gateway) of one of the four stages before settlement.  *)
(* The branches for finished transactions, for settlement and for missing  *)
(* codes, statuses and providers are not taken on such input, and the kill *)
(* switch is off in the only configuration the service builds.  The risk   *)
(* agent reads alarms that no producer in the repository raises; they are  *)
(* kept, as its tests keep them.                                           *)
(***************************************************************************)
EXTENDS Integers, FiniteSets

CONSTANTS
    Tx,                \* transaction ids
    Candidates,        \* what detection can publish
    LocalConfidences,  \* thousandths: confidences of the local intent store
    MaximumAttempts,   \* config.maximum_recovery_attempts
    MaxVersion,        \* bound: candidates per transaction
    MaxRestarts        \* bound: restarts of the process

VARIABLES
    version, attempts,       \* Redis: state_version, recovery_attempts
    seen, bad, quarantined,  \* the validator: local belief ids, counts, agents
    pc, current,             \* the candidate being assessed: its tx and itself
    ballot,                  \* its beliefs, which of them count, the action
    restarts

validator == <<seen, bad, quarantined>>
vars == <<version, attempts, seen, bad, quarantined, pc, current, ballot, restarts>>

Agent  == {"intent", "provider", "transaction", "economics", "risk"}
Remote == {"intent", "provider"}
Stage  == {"checkout", "payment", "authorization", "capture"}
Alarm  == {"none", "high_risk_failure", "duplicate_recovery", "cooldown_active", "risk_score"}
Concrete == {"SEND_PAYMENT_LINK", "RETRY_PAYMENT", "RETRY_CAPTURE", "SWITCH_PROVIDER"}
Recommendation == Concrete \cup {"RECOVER", "DO_NOTHING"}

Candidate == [stage : Stage,
              provider_fault : BOOLEAN,  \* the failure code is in PROVIDER_FAILURES
              above_median : BOOLEAN,    \* customer_intent_score > current_median_intent
              degradation : 0..1000,     \* degradation_probability, in thousandths
              amount : Nat,
              alarm : Alarm]
Vote == [recommendation : Recommendation, confidence : 0..1000]
Nobody == [tx |-> "none"]
NoBallot == [allowed |-> {}]

ASSUME InputsAssumption ==
    /\ Candidates \subseteq Candidate
    /\ LocalConfidences \subseteq 0..1000
ASSUME NumbersAssumption == {MaximumAttempts, MaxVersion, MaxRestarts} \subseteq Nat

RecoveryCost   == 50
MaximumAmount  == 100000
MinValidAgents == 3
Threshold      == 670

-----------------------------------------------------------------------------
(* The agents. *)

Says(recommendation, confidence) ==
    [recommendation |-> recommendation, confidence |-> confidence]

StageAction == [checkout |-> "SEND_PAYMENT_LINK", payment |-> "RETRY_PAYMENT",
                authorization |-> "RETRY_PAYMENT", capture |-> "RETRY_CAPTURE"]

TransactionVote(c) ==
    IF c.provider_fault THEN Says("SWITCH_PROVIDER", 910) ELSE Says(StageAction[c.stage], 880)

\* Of the amount, 0.85 is expected back, against the cost of the attempt.
EconomicsVote(c) ==
    IF c.amount = 0 THEN Says("DO_NOTHING", 920)
    ELSE IF c.amount > MaximumAmount THEN Says("DO_NOTHING", 930)
    ELSE IF 85 * c.amount < 100 * RecoveryCost THEN Says("DO_NOTHING", 900)
    ELSE Says("RECOVER", 850)

AlarmConfidence == [high_risk_failure |-> 970, duplicate_recovery |-> 960,
                    cooldown_active |-> 900, risk_score |-> 860]

RiskVote(c, tries) ==
    IF c.alarm = "high_risk_failure" \/ (c.alarm # "none" /\ tries < MaximumAttempts)
    THEN Says("DO_NOTHING", AlarmConfidence[c.alarm])
    ELSE IF tries >= MaximumAttempts THEN Says("DO_NOTHING", 950)
    ELSE Says("RECOVER", 900)

ProviderVote(c) ==
    IF ~ c.provider_fault THEN Says("DO_NOTHING", 900)
    ELSE IF c.degradation <= 500 THEN Says("DO_NOTHING", 800)
    ELSE Says("SWITCH_PROVIDER", IF c.degradation > 800 THEN c.degradation ELSE 800)

\* The intent agent scores a customer's history: RECOVER needs some of it.
RemoteIntentVotes ==
    {Says("RECOVER", k) : k \in {500, 800, 950}}
        \cup {Says("DO_NOTHING", k) : k \in {200, 500, 800, 950}}
\* The local fallback compares the customer with the median of its merchant.
LocalIntentVotes ==
    {Says(r, k) : r \in {"SEND_PAYMENT_LINK", "DO_NOTHING"}, k \in LocalConfidences}

Aligned(agent, vote) ==
    \/ vote.recommendation = "RECOVER"
    \/ agent = "intent" /\ vote.recommendation = "DO_NOTHING"

\* Mutants: votes are aligned at every stage; 0.75 is added, not a floor.
AlignAnyStage(c, agent, vote) ==
    IF Aligned(agent, vote)
    THEN Says("SEND_PAYMENT_LINK",
              IF agent = "intent" /\ vote.confidence < 750 THEN 750 ELSE vote.confidence)
    ELSE vote
AlignAdding(c, agent, vote) ==
    IF c.stage = "checkout" /\ Aligned(agent, vote)
    THEN Says("SEND_PAYMENT_LINK",
              IF agent = "intent" THEN vote.confidence + 750 ELSE vote.confidence)
    ELSE vote
\* _align_checkout_link_votes: at checkout generic support, and the intent agent's
\* refusal, become support for the link; the intent agent's confidence is raised
\* to 0.75.
Align(c, agent, vote) ==
    IF c.stage = "checkout" /\ Aligned(agent, vote)
    THEN Says("SEND_PAYMENT_LINK",
              IF agent = "intent" /\ vote.confidence < 750 THEN 750 ELSE vote.confidence)
    ELSE vote

Votes(c, tries, intent) ==
    [intent      |-> Align(c, "intent", intent),
     provider    |-> Align(c, "provider", ProviderVote(c)),
     transaction |-> Align(c, "transaction", TransactionVote(c)),
     economics   |-> Align(c, "economics", EconomicsVote(c)),
     risk        |-> Align(c, "risk", RiskVote(c, tries))]

-----------------------------------------------------------------------------
(* Consensus. *)

\* Mutant: every agent weighs the same.
EqualWeights(agent) == 10
Weight(agent) ==
    CASE agent = "transaction" -> 12
      [] agent = "risk" -> 13
      [] OTHER -> 10

Tally(f) == f["intent"] + f["provider"] + f["transaction"] + f["economics"] + f["risk"]

TotalWeight(valid) == Tally([a \in Agent |-> IF a \in valid THEN Weight(a) ELSE 0])

\* Mutant: the weights are added without the confidence.
WeightOnly(votes, valid, r) ==
    Tally([a \in Agent |->
        IF a \in valid /\ votes[a].recommendation = r THEN 1000 * Weight(a) ELSE 0])
Support(votes, valid, r) ==
    Tally([a \in Agent |->
        IF a \in valid /\ votes[a].recommendation = r
        THEN Weight(a) * votes[a].confidence ELSE 0])

Quorum(support, valid) ==
    /\ Cardinality(valid) >= MinValidAgents
    /\ support >= Threshold * TotalWeight(valid)

\* aggregate: the action a quorum supports.  Two actions never both have one, so
\* the tie-break on safety is left out; too few votes, no quorum and a unanimous
\* DO_NOTHING all leave nothing to authorize.
Decided(votes, valid) == {r \in Recommendation : Quorum(Support(votes, valid, r), valid)}

\* _inferred_action: what the context alone suggests.
Inferred(c) ==
    IF c.stage = "checkout" /\ c.above_median THEN "SEND_PAYMENT_LINK"
    ELSE IF c.provider_fault THEN "SWITCH_PROVIDER"
    ELSE IF c.stage = "checkout" THEN "DO_NOTHING"
    ELSE StageAction[c.stage]

\* _resolve_recover_support: generic and direct support together may carry the
\* inferred action.
Resolved(votes, valid, c) ==
    IF /\ Inferred(c) # "DO_NOTHING"
       /\ Quorum(Support(votes, valid, "RECOVER") + Support(votes, valid, Inferred(c)), valid)
    THEN {Inferred(c)} ELSE Decided(votes, valid)

\* _concrete_action: a decision for RECOVER takes the inferred action, or the
\* other gateway when there is none.
ConcreteAction(decision, c) ==
    IF decision # "RECOVER" THEN decision
    ELSE IF Inferred(c) # "DO_NOTHING" THEN Inferred(c)
    ELSE "SWITCH_PROVIDER"

\* GuardrailPolicy.decide: the actions that pass every rule; at most one does.
Authorized(votes, valid, c, tries) ==
    {ConcreteAction(decision, c) : decision \in
        {d \in Resolved(votes, valid, c) :
            /\ ConcreteAction(d, c) \in Concrete
            /\ tries < MaximumAttempts
            /\ c.amount <= MaximumAmount
            /\ c.amount >= RecoveryCost}}

-----------------------------------------------------------------------------
Init ==
    /\ version = [t \in Tx |-> 0]
    /\ attempts = [t \in Tx |-> 0]
    /\ seen = {}
    /\ bad = [a \in Agent |-> 0]
    /\ quarantined = {}
    /\ pc = "idle"
    /\ current = Nobody
    /\ ballot = NoBallot
    /\ restarts = 0

\* upsert_candidate: a new version of the transaction.
Receive(t, c) ==
    /\ pc = "idle"
    /\ version[t] < MaxVersion
    /\ version' = [version EXCEPT ![t] = @ + 1]
    /\ current' = [tx |-> t, candidate |-> c]
    /\ pc' = "received"
    /\ UNCHANGED <<attempts, validator, ballot, restarts>>

\* Mutant: the fallback's id does not name the version.
AgentId(a) == <<a, 0>>
\* The id of a remote or local belief is new by its uuid, but for the local
\* fallbacks of the two remote agents: they name the agent and the version only.
LocalId(a) == <<a, version[current.tx]>>

Repeated(a, fallback) == a \in fallback /\ LocalId(a) \in seen

\* gather_beliefs and pipeline.run, then apply_recovery_result.  The agents in
\* answered have given a belief, the remote ones in fallback by the local code.
Assess(answered, fallback, intent) ==
    /\ pc = "received"
    /\ LET c        == current.candidate
           tries    == attempts[current.tx]
           votes    == Votes(c, tries, intent)
           repeated == {a \in answered \ quarantined : Repeated(a, fallback)}
           valid    == answered \ (quarantined \cup repeated)
           allowed  == Authorized(votes, valid, c, tries)
       IN  /\ bad' = [a \in Agent |-> IF a \in repeated THEN bad[a] + 1 ELSE bad[a]]
           /\ quarantined' = quarantined \cup {a \in repeated : bad[a] + 1 >= 2}
           /\ seen' = seen \cup {LocalId(a) : a \in valid \cap fallback}
           /\ attempts' = IF allowed = {} THEN attempts
                          ELSE [attempts EXCEPT ![current.tx] = @ + 1]
           /\ ballot' = [votes |-> votes, answered |-> answered, valid |-> valid,
                         tries |-> tries, allowed |-> allowed]
    /\ pc' = "assessed"
    /\ UNCHANGED <<version, current, restarts>>

\* Any of the five may raise an exception, which leaves its belief out; a remote
\* agent that cannot be reached is replaced by its fallback.
Answers ==
    \E silent \in SUBSET Agent, fallback \in SUBSET Remote :
        /\ silent \cap fallback = {}
        /\ \E intent \in IF "intent" \in silent THEN {Says("DO_NOTHING", 0)}
                        ELSE IF "intent" \in fallback THEN LocalIntentVotes
                        ELSE RemoteIntentVotes :
               Assess(Agent \ silent, fallback, intent)

\* The consumer goes on to the next candidate.
Finish ==
    /\ pc = "assessed"
    /\ pc' = "idle"
    /\ current' = Nobody
    /\ ballot' = NoBallot
    /\ UNCHANGED <<version, attempts, validator, restarts>>

\* The process ends and another starts, with a new validator.
Restart ==
    /\ restarts < MaxRestarts
    /\ restarts' = restarts + 1
    /\ seen' = {}
    /\ bad' = [a \in Agent |-> 0]
    /\ quarantined' = {}
    /\ pc' = "idle"
    /\ current' = Nobody
    /\ ballot' = NoBallot
    /\ UNCHANGED <<version, attempts>>

Next ==
    \/ \E t \in Tx, c \in Candidates : Receive(t, c)
    \/ Answers
    \/ Finish
    \/ Restart

Spec == Init /\ [][Next]_vars

-----------------------------------------------------------------------------
(* Properties *)

Ballot == [votes : [Agent -> Vote], answered : SUBSET Agent, valid : SUBSET Agent,
           tries : Nat, allowed : SUBSET Concrete]

TypeOK ==
    /\ version \in [Tx -> Nat] /\ attempts \in [Tx -> Nat]
    /\ seen \subseteq Remote \X Nat
    /\ bad \in [Agent -> Nat]
    /\ quarantined \subseteq Agent
    /\ pc \in {"idle", "received", "assessed"}
    /\ IF pc = "idle" THEN current = Nobody ELSE current \in [tx : Tx, candidate : Candidates]
    /\ IF pc = "assessed" THEN ballot \in Ballot ELSE ballot = NoBallot

Assessed == pc = "assessed"

\* A fallback's id names the version (service.py:267), which grows with every
\* candidate and outlives the validator's memory: a transaction never repeats its
\* own ids, so as long as no other has come no belief is rejected as a duplicate
\* and no agent is quarantined, through failures, fallbacks and restarts.
LoneTransactionKeepsVotes ==
    Assessed /\ ballot.valid # ballot.answered
        => \E t \in Tx \ {current.tx} : version[t] > 0

\* An authorized action has 0.67 of the participating weight behind it, counted
\* belief by belief as votes for it or for recovery in general, and at most one
\* action is authorized (README.md:111-112, "support(action)").
AuthorizedMeansSupported ==
    Assessed => \A r \in ballot.allowed :
        /\ ballot.allowed = {r}
        /\ LET for == {a \in ballot.valid : ballot.votes[a].recommendation \in {r, "RECOVER"}}
           IN  Tally([a \in Agent |-> IF a \in for THEN Weight(a) * ballot.votes[a].confidence
                                      ELSE 0])
                   >= Threshold * TotalWeight(ballot.valid)

\* The five votes never combine to an action that does not fit the failure: a
\* link only at checkout, a capture retry only at capture, a payment retry
\* between them, a switch only after a fault of the provider.
ActionFitsFailure ==
    Assessed => \A r \in ballot.allowed :
        \/ r = StageAction[current.candidate.stage]
        \/ r = "SWITCH_PROVIDER" /\ current.candidate.provider_fault

\* "provider and risk agents remain independent vetoes in consensus"
\* (service.py:112): at checkout no combination of the other votes outweighs the
\* risk agent's refusal, whichever of them are missing.  A risk agent that raises
\* an exception has refused nothing (service.py:98-104).
RiskVetoesLinks ==
    Assessed /\ current.candidate.stage = "checkout" /\ "risk" \in ballot.valid
        /\ ballot.votes["risk"].recommendation = "DO_NOTHING"
            => ballot.allowed = {}

\* "it is a fail-closed demo guardrail" (consensus/engine.py:1): a belief that is
\* rejected never opens an action that the same belief, counted, keeps closed.
FailsClosed ==
    Assessed => ballot.allowed \subseteq
        Authorized(ballot.votes, ballot.answered, current.candidate, ballot.tries)
=============================================================================
