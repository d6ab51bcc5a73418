----------------------------- MODULE Lifecycle ------------------------------
(***************************************************************************)
(* A transaction's lifecycle as the mock pipeline makes it                 *)
(* (runner/mock_pipeline.py): the scenarios, and the guard                 *)
(* TransactionStateStore, which every lifecycle passes as a whole before   *)
(* its first event is written anywhere.                                    *)
(*                                                                         *)
(* An event is its type, its status, the number of its attempt, the        *)
(* payment it belongs to (order_id, payment_id and trace_id are drawn      *)
(* together) and the provider in its metadata.  A script is a sequence of  *)
(* events.                                                                 *)
(***************************************************************************)
EXTENDS Naturals, Sequences

None == "none"

Status == {"success", "failure", "unknown"}

\* The stages, with their start, success and failure event (common/config.py,
\* common/event.py).  Settlement events carry batches and no transaction.
Stage == {"checkout", "payment", "authorization", "capture"}
Started   == [checkout |-> "checkout_started", payment |-> "payment_created",
              authorization |-> "authorization_requested", capture |-> "capture_requested"]
Completed == [checkout |-> "checkout_completed", payment |-> "payment_succeeded",
              authorization |-> "authorization_succeeded", capture |-> "capture_succeeded"]
Failed    == [checkout |-> "checkout_failed", payment |-> "payment_failed",
              authorization |-> "authorization_failed", capture |-> "capture_failed"]
EventTypes == [s \in Stage |-> {Started[s], Completed[s], Failed[s]}
                  \cup (IF s = "payment" THEN {"payment_link_clicked"} ELSE {})]
EventType == UNION {EventTypes[s] : s \in Stage}
StageOf == [type \in EventType |-> CHOOSE s \in Stage : type \in EventTypes[s]]

-----------------------------------------------------------------------------
(* The guard. *)

\* _REQUIRED_PREDECESSOR
Guarded == EventType \ {"payment_link_clicked"}
Before  == [payment |-> "checkout", authorization |-> "payment", capture |-> "authorization"]
Predecessor == [type \in Guarded |->
    LET s == StageOf[type]
    IN  IF type # Started[s] THEN Started[s]
        ELSE IF s = "checkout" THEN None
        ELSE Completed[Before[s]]]

Fresh == [payment |-> None, attempt |-> 0, last |-> None, successful |-> {}, terminal |-> FALSE]

\* Mutant: after a failure anything goes back to a step that had succeeded.
AnyAttempt(g, e) == g.terminal
\* After a failure, only another attempt does.
NewAttempt(g, e) ==
    g.terminal /\ 0 \notin {g.attempt, e.attempt} /\ e.attempt # g.attempt

\* validate_and_apply does not raise.
Accepts(g, e) ==
    /\ g.payment \in {None, e.payment}
    /\ e.type \in Guarded
    /\ IF NewAttempt(g, e) THEN Predecessor[e.type] \in g.successful
       ELSE ~ g.terminal /\ Predecessor[e.type] \in {None, g.last}

\* What it leaves behind when it does not.
Applied(g, e) ==
    [payment    |-> e.payment,
     attempt    |-> IF NewAttempt(g, e) \/ g.attempt = 0 THEN e.attempt ELSE g.attempt,
     last       |-> e.type,
     successful |-> g.successful \cup (IF e.status = "success" THEN {e.type} ELSE {}),
     terminal   |-> e.status # "success"]

\* The guard after the first n events of a script.
GuardAfter(script) ==
    LET guard[n \in 0..Len(script)] ==
            IF n = 0 THEN Fresh ELSE Applied(guard[n - 1], script[n])
    IN  guard

\* run_once publishes a lifecycle only if the guard takes all of it.
Validated(script) ==
    LET guard == GuardAfter(script)
    IN  \A n \in 1..Len(script) : Accepts(guard[n - 1], script[n])

-----------------------------------------------------------------------------
(* The scenarios, as the types of their events. *)

Upto(s) ==
    LET checkout == <<"checkout_started", "checkout_completed">>
        payment  == checkout \o <<"payment_created", "payment_succeeded">>
        auth     == payment \o <<"authorization_requested", "authorization_succeeded">>
    IN  CASE s = "checkout" -> <<>>
          [] s = "payment" -> checkout
          [] s = "authorization" -> payment
          [] s = "capture" -> auth

\* scenario_steps.  "settlement_failure" has no branch and is a normal lifecycle;
\* "random_failure" fails at a stage drawn from the seed.
ScenarioSteps ==
    LET failing(s) == Upto(s) \o <<Started[s], Failed[s]>>
        normal == Upto("capture") \o <<"capture_requested", "capture_succeeded">>
    IN  [normal |-> normal,
         settlement_failure |-> normal,
         checkout_failure |-> failing("checkout"),
         payment_failure |-> failing("payment"),
         authorization_failure |-> failing("authorization"),
         capture_failure |-> failing("capture"),
         recovery_retry |-> failing("authorization")
             \o <<"authorization_requested", "authorization_succeeded",
                  "capture_requested", "capture_succeeded">>]

\* "live_mix" goes by the last digit of the seed.
LiveMix(seed) ==
    LET cycle == seed % 10
    IN  CASE cycle \in 0..5 -> "normal"
          [] cycle = 6 -> "checkout_failure"
          [] cycle = 7 -> "payment_failure"
          [] cycle = 8 -> "authorization_failure"
          [] cycle = 9 -> "capture_failure"

IsFailureType(type) == \E s \in Stage : type = Failed[s]

Event(type, attempt, payment, provider) ==
    [type |-> type, status |-> IF IsFailureType(type) THEN "failure" ELSE "success",
     attempt |-> attempt, payment |-> payment, provider |-> provider, followup |-> FALSE]

\* build_scenario_events: what follows a failure is another attempt.
ScenarioEvents(scenario, payment, provider) ==
    LET types == ScenarioSteps[scenario]
        attempt(i) == IF \E j \in 1..(i - 1) : IsFailureType(types[j]) THEN 2 ELSE 1
    IN  [i \in 1..Len(types) |-> Event(types[i], attempt(i), payment, provider)]

-----------------------------------------------------------------------------
(* What the guard is for. *)

\* A step of the flow: where in it an event stands, success or not.
Flow == <<"checkout_started", "checkout_completed", "payment_created", "payment_succeeded",
          "authorization_requested", "authorization_succeeded", "capture_requested",
          "capture_succeeded">>
Place(type) ==
    LET done == IF IsFailureType(type) THEN Completed[StageOf[type]] ELSE type
    IN  CHOOSE i \in 1..Len(Flow) : Flow[i] = done

\* A lifecycle takes the flow step by step, for one payment.  A failure ends an
\* attempt: what follows it is another one, from a step reached before.  The guard
\* asks nothing of a checkout that starts over after a success, and neither does
\* this.
Causal(script) ==
    \A i \in 1..Len(script) :
        LET place == Place(script[i].type)
        IN  /\ script[i].payment = script[1].payment
            /\ i = 1 => place = 1
            /\ place > 1 /\ script[i - 1].status # "failure" =>
                   place = Place(script[i - 1].type) + 1
            /\ i > 1 /\ script[i - 1].status = "failure" =>
                   /\ script[i].attempt # script[i - 1].attempt
                   /\ \E j \in 1..(i - 1) : Place(script[j].type) = place - 1
=============================================================================
