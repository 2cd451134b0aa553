--------------------------- MODULE CircuitBreaker ---------------------------
(***************************************************************************)
(* The circuit breaker of one connector (core/tool/connector/              *)
(* circuit_breaker.py) and the calls it guards (ConnectorToolAdapter.run). *)
(* The registry's lock makes each of its methods one step.  A request's    *)
(* time limit of 30 seconds is one for each read, so a call may end after  *)
(* the breaker's cooldown.  Some names carry a prefix: ConfirmationGate,   *)
(* the other guard of a tool call, has the same, and both are proved       *)
(* together.                                                               *)
(***************************************************************************)
EXTENDS Integers, FiniteSets

CONSTANTS
  Callers,           \* calls under way at the same time
  FailureThreshold,
  HalfOpenMaxCalls

ASSUME BreakerAssumption ==
  FailureThreshold \in Nat \ {0} /\ HalfOpenMaxCalls \in Nat \ {0}

VARIABLES
  breaker,  \* state, failure_count, half_open_calls
  cooled,   \* recovery_timeout has passed since the last failure
  service,  \* whether the connector's server works
  request,  \* each caller's call: how the server was when it was sent
  probing,  \* callers whose call was let through in this half-open round
  lost,     \* of these, those that have ended without a report
  tries,    \* history: calls that were sent although the breaker was not
            \* closed, since the last failure was reported
  streak    \* failures reported since the last success or reset

breakerVars == <<breaker, cooled, service, request, probing, lost, tries, streak>>

\* Counts are compared with the threshold only: more is not counted.
Failures == 0 .. FailureThreshold
OneMore(n) == IF n = FailureThreshold THEN n ELSE n + 1

BreakerTypeOK ==
  /\ breaker \in [state : {"closed", "open", "half_open"}, failures : Failures,
                  probes : 0 .. HalfOpenMaxCalls]
  /\ cooled \in BOOLEAN
  /\ service \in {"up", "down"}
  /\ request \in [Callers -> {"none", "up", "down"}]
  /\ probing \subseteq Callers /\ lost \in 0 .. HalfOpenMaxCalls
  /\ tries \in 0 .. HalfOpenMaxCalls /\ streak \in Failures

Closed == [state |-> "closed", failures |-> 0, probes |-> 0]

BreakerInit ==
  /\ breaker = Closed
  /\ cooled = FALSE
  /\ service = "up"
  /\ request = [c \in Callers |-> "none"]
  /\ probing = {} /\ lost = 0
  /\ tries = 0 /\ streak = 0
-----------------------------------------------------------------------------
(* check_and_acquire.  A call that is refused changes nothing.             *)

Sent(c) ==
  /\ request[c] = "none"
  /\ request' = [request EXCEPT ![c] = service]
  /\ tries' = IF breaker.state = "closed" THEN tries ELSE tries + 1
  /\ UNCHANGED <<cooled, service, streak>>

CallClosed(c) ==
  /\ breaker.state = "closed"
  /\ Sent(c)
  /\ UNCHANGED <<breaker, probing, lost>>

\* Mutant of CallCooled: the breaker stays open.
CallCooledOpen(c) ==
  /\ breaker.state = "open" /\ cooled
  /\ Sent(c)
  /\ breaker' = [breaker EXCEPT !.probes = 1]
  /\ probing' = {c} /\ lost' = 0

\* The cooldown is over: the first probe of a new round.
CallCooled(c) ==
  /\ breaker.state = "open" /\ cooled
  /\ Sent(c)
  /\ breaker' = [breaker EXCEPT !.state = "half_open", !.probes = 1]
  /\ probing' = {c} /\ lost' = 0

CallHalfOpen(c) ==
  /\ breaker.state = "half_open" /\ breaker.probes < HalfOpenMaxCalls
  /\ Sent(c)
  /\ breaker' = [breaker EXCEPT !.probes = @ + 1]
  /\ probing' = probing \cup {c}
  /\ UNCHANGED lost

Call(c) == CallClosed(c) \/ CallCooled(c) \/ CallHalfOpen(c)
-----------------------------------------------------------------------------
(* The end of a call, whatever became of the breaker since it was sent.    *)

Ended(c) ==
  /\ request[c] # "none"
  /\ request' = [request EXCEPT ![c] = "none"]
  /\ probing' = probing \ {c}
  /\ UNCHANGED service

\* record_success: from any state.
RecordSuccess == Closed

\* Mutant of RecordFailure: a failed probe is one failure like any other,
\* and there have been none since the breaker opened.
RecordFailureAfresh ==
  LET failures == IF breaker.state = "half_open" THEN 1 ELSE OneMore(breaker.failures)
  IN  [breaker EXCEPT !.failures = failures,
                      !.state = IF failures >= FailureThreshold THEN "open" ELSE @]

\* record_failure: one is enough in a half-open round.
RecordFailure ==
  LET failures == OneMore(breaker.failures)
  IN  [breaker EXCEPT !.failures = failures,
                      !.state = IF @ = "half_open" \/ failures >= FailureThreshold
                                THEN "open" ELSE @]

\* An answer below 400.
Succeeds(c) ==
  /\ Ended(c)
  /\ "up" \in {request[c], service}
  /\ breaker' = RecordSuccess /\ streak' = 0 /\ tries' = 0
  /\ UNCHANGED <<cooled, lost>>

\* An answer from 500, a timeout or no connection.
Fails(c) ==
  /\ Ended(c)
  /\ "down" \in {request[c], service}
  /\ breaker' = RecordFailure /\ streak' = OneMore(streak) /\ tries' = 0
  /\ cooled' = FALSE /\ UNCHANGED lost

\* An answer from 400 to 499, an argument or address that is refused before
\* anything is sent, any other exception, a cancelled turn: nothing is
\* recorded.
Unreported(c) ==
  /\ Ended(c)
  /\ lost' = lost + (IF c \in probing THEN 1 ELSE 0)
  /\ UNCHANGED <<breaker, cooled, streak, tries>>

Ends(c) == Succeeds(c) \/ Fails(c) \/ Unreported(c)

\* reset, by an administrator.
Reset ==
  /\ breaker # Closed
  /\ breaker' = Closed /\ streak' = 0 /\ tries' = 0
  /\ UNCHANGED <<cooled, service, request, probing, lost>>
-----------------------------------------------------------------------------
Cool ==
  /\ breaker.state = "open" /\ ~cooled
  /\ cooled' = TRUE
  /\ UNCHANGED <<breaker, service, request, probing, lost, streak, tries>>

Turns ==
  /\ service' = IF service = "up" THEN "down" ELSE "up"
  /\ UNCHANGED <<breaker, cooled, request, probing, lost, streak, tries>>

BreakerNext == Reset \/ Cool \/ Turns \/ \E c \in Callers : Call(c) \/ Ends(c)

BreakerSpec == BreakerInit /\ [][BreakerNext]_breakerVars

\* Time passes, a call ends, and the connector goes on being called.
BreakerFairSpec ==
  /\ BreakerSpec
  /\ WF_breakerVars(Cool) /\ WF_breakerVars(\E c \in Callers : Call(c))
  /\ \A c \in Callers : WF_breakerVars(Ends(c))
=============================================================================
