---------------------------- MODULE BillingProps ----------------------------
(***************************************************************************)
(* What the handling of subscriptions promises.                            *)
(***************************************************************************)
EXTENDS Billing, TLC

Over(s) == live[s].status = "canceled" /\ live[s].end < now
Running(s) == live[s].status = "active"
SubsOf(u) == {s \in Subs : Owner[s] = u}
Lost(s) == \E e \in 1 .. Len(log) :
             log[e].sub = s /\ e \notin unanswered /\ ledger[e] # "processed"
Demoted(u) == plan[u] \in Listed /\ plan'[u] \notin Listed

(* Deliveries do not double-apply an event (db/models/billing.py): however *)
(* often it comes, to however many processes at once, its effects are      *)
(* committed once, unless an attempt at it was recorded as failed.         *)
AppliedOnce == \A e \in Events \ retried : applied[e] <= 1

(* A user keeps the plan until what he paid for is over: he is moved off   *)
(* it only when a subscription of his was canceled at the provider and its *)
(* last period has passed there, unless its events were handled out of     *)
(* order.                                                                  *)
KeepsPaidWindow ==
  [][\A u \in Users : Demoted(u) => \E s \in SubsOf(u) : Over(s) \/ s \in disordered]_vars

(* When every event of a subscription was handled, in order and one at a   *)
(* time, its row says what the provider says and its user, who has no      *)
(* other, has the plan.                                                    *)
MirrorsProvider ==
  \A s \in Subs \ disordered :
    /\ row[s].status # "none"
    /\ \A e \in 1 .. Len(log) : log[e].sub = s => ledger[e] = "processed"
    => /\ row[s] = live[s]
       /\ Running(s) /\ live[s].price \in Listed /\ SubsOf(Owner[s]) = {s} =>
            plan[Owner[s]] = live[s].price

(* A user whose only subscription is over is moved off its plan sooner or  *)
(* later, unless its events were given up or handled out of order or       *)
(* billing is off.                                                         *)
EndedIsDemoted ==
  \A s \in Subs :
    Over(s) ~> \/ plan[Owner[s]] \notin Listed
               \/ s \in disordered \/ Lost(s) \/ posture = "off"

(* "The user must keep their Pro features until current_period_end (they   *)
(* paid for it)" (subscription_lifecycle.py): the sweep leaves alone a     *)
(* user with a running subscription.                                       *)
PayingKeepsPlan ==
  [][\A u \in Users : Demoted(u) => \A s \in SubsOf(u) : ~Running(s)]_vars
=============================================================================
