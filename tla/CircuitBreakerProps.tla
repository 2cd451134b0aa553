------------------------- MODULE CircuitBreakerProps ------------------------
(***************************************************************************)
(* What the breaker promises the connector's server and its callers.       *)
(***************************************************************************)
EXTENDS CircuitBreaker

(* Calls are refused only when FailureThreshold failures were reported     *)
(* with no success between them, however the answers of earlier calls and  *)
(* of probes come in.                                                      *)
RefusalsEarned ==
  breaker.state # "closed" => streak = FailureThreshold

(* A server that is believed to be down is left alone: from one reported   *)
(* failure to the next report no more than HalfOpenMaxCalls calls are sent *)
(* to it, however many ask at once and whatever old calls report           *)
(* meanwhile, and none while the breaker is open.  Whoever is let through  *)
(* is counted among the probes of the round.                               *)
ProbesLimited ==
  /\ tries <= HalfOpenMaxCalls /\ (breaker.state = "open" => tries = 0)
  /\ Cardinality(probing) <= HalfOpenMaxCalls
  /\ breaker.state = "half_open" => Cardinality(probing) <= breaker.probes

(* The breaker refuses only what it must and lets through only what it     *)
(* may, within the range its counters have.                                *)
RefusesJustly == BreakerTypeOK /\ RefusalsEarned /\ ProbesLimited

(* "The system will automatically retry after a cooldown period": once the *)
(* server works for good, calls are let through again, unless every probe  *)
(* of a round ended without a report.                                      *)
Recovers ==
  <>[](service = "up") =>
    []<>(\/ breaker.state = "closed"
         \/ breaker.state = "half_open" /\ lost = HalfOpenMaxCalls)
=============================================================================
