------------------------------ MODULE Billing ------------------------------
(***************************************************************************)
(* Subscriptions and quota: the payment provider's events as web/api/      *)
(* webhooks.py handles them, the hourly sweep of ended subscriptions and   *)
(* the access posture of the instance.                                     *)
(*                                                                         *)
(* The provider is external: it bills, writes a log of events and delivers *)
(* each one until it is acknowledged, in any order and possibly to two     *)
(* server processes at once.  Time counts billing periods: what is paid    *)
(* through period n has end = n.  A price stands for the plan it names.    *)
(***************************************************************************)
EXTENDS Integers, Sequences, FiniteSets

CONSTANTS
  Users,
  Subs,       \* subscriptions the provider may open
  Owner,      \* the user each one is for
  Prices,     \* prices at the provider
  Listed,     \* those with a row in billing_plans
  Workers,    \* server processes handling webhooks
  MaxEvents,  \* bound: events in the provider's log
  MaxPeriods, \* bound: billing periods
  Postures,   \* access models the instance is switched between
  Faults      \* "fail": a handler raises or its process dies;
              \* "retrieve": the renewal's look-up at the provider fails

ASSUME BillingAssumption ==
  /\ Owner \in [Subs -> Users]
  /\ Listed \subseteq Prices /\ Listed # {}
  /\ MaxEvents \in Nat /\ MaxPeriods \in Nat
  /\ Postures \subseteq {"off", "freemium", "paid_only"}
  /\ Faults \subseteq {"fail", "retrieve"}
  /\ {"free", "none"} \cap Prices = {}

VARIABLES
  now,        \* the current billing period
  live,       \* each subscription as the provider has it
  log,        \* the provider's events, oldest first
  unanswered, \* events not acknowledged yet
  posture,    \* access_model
  row,        \* the subscriptions table
  plan,       \* users.plan_id
  ledger,     \* stripe_webhook_events
  applied,    \* how often the effects of each event were committed
  retried,    \* events an attempt at which was recorded as failed
  disordered, \* subscriptions with an event applied after a later one, or
              \* while another was in hand
  work,       \* the webhook each process is handling; event 0 when none
  sweep,      \* the ended subscriptions a sweep has read
  target      \* the plan it moves their users to

provider == <<now, live, log>>
history == <<applied, retried, disordered>>
tables == <<row, plan, ledger, history>>
sweeper == <<sweep, target>>
vars == <<provider, unanswered, posture, tables, work, sweep, target>>

Events == 1 .. MaxEvents
Kinds == {"checkout", "updated", "deleted", "paid", "failed"}
Status == {"none", "open", "active", "past_due", "canceled"}
State == [status : Status, price : Prices, end : Int]
Plans == Listed \cup {"free", "none"}
\* What a handler has in hand: its event, whether the ledger had no row for
\* it, and the rows and the provider's answer as it read them.
Job == [event : 0 .. MaxEvents, fresh : BOOLEAN, row : State, plan : Plans, live : State]

Unknown == [status |-> "none", price |-> CHOOSE p \in Prices : TRUE, end |-> 0]
Established == [status |-> "active", price |-> CHOOSE p \in Listed : TRUE, end |-> 0]
NoJob == [event |-> 0, fresh |-> FALSE, row |-> Unknown, plan |-> "none", live |-> Unknown]
Busy(w) == work[w].event # 0

TypeOK ==
  /\ now \in 0 .. MaxPeriods
  /\ live \in [Subs -> State]
  /\ log \in Seq([sub : Subs, kind : Kinds, state : State]) /\ Len(log) <= MaxEvents
  /\ unanswered \subseteq Events
  /\ posture \in {"off", "freemium", "paid_only"}
  /\ row \in [Subs -> State]
  /\ plan \in [Users -> Plans]
  /\ ledger \in [Events -> {"none", "failed", "processed"}]
  /\ applied \in [Events -> Nat]
  /\ retried \subseteq Events
  /\ disordered \subseteq Subs
  /\ work \in [Workers -> Job]
  /\ sweep \subseteq Subs /\ target \in {"free", "none"}

\* A new instance, or one whose users in Subscribed have a plan already, the
\* last payment made or failed.
StartsWith(Subscribed, status) ==
  /\ live = [s \in Subs |-> IF s \in Subscribed THEN [Established EXCEPT !.status = status]
                             ELSE Unknown]
  /\ posture = IF Subscribed = {} THEN "off" ELSE "freemium"
  /\ plan = [u \in Users |-> CASE \E s \in Subscribed : Owner[s] = u -> Established.price
                             [] posture = "off" -> "none"
                             [] OTHER -> "free"]

Init ==
  /\ \E Subscribed \in SUBSET Subs, status \in {"active", "past_due"} :
       /\ \A s, o \in Subscribed : Owner[s] = Owner[o] => s = o
       /\ StartsWith(Subscribed, status)
  /\ row = live
  /\ now = 0 /\ log = << >> /\ unanswered = {}
  /\ ledger = [e \in Events |-> "none"]
  /\ applied = [e \in Events |-> 0]
  /\ retried = {} /\ disordered = {}
  /\ work = [w \in Workers |-> NoJob]
  /\ sweep = {} /\ target = "none"
-----------------------------------------------------------------------------
(* The provider.                                                           *)

\* The subscription becomes new and the events named tell so.
Emits(s, new, kinds) ==
  /\ Len(log) + Len(kinds) <= MaxEvents
  /\ live' = [live EXCEPT ![s] = new]
  /\ log' = log \o [i \in DOMAIN kinds |-> [sub |-> s, kind |-> kinds[i], state |-> new]]
  /\ unanswered' = unanswered \cup (Len(log) + 1 .. Len(log) + Len(kinds))
  /\ UNCHANGED <<now, posture, tables, work, sweeper>>

\* A handler takes seconds, a period a month; the provider gives an event up
\* after three days.
PeriodEnds ==
  /\ now < MaxPeriods /\ sweep = {} /\ \A w \in Workers : ~Busy(w)
  /\ \A s \in Subs : live[s].status \in {"active", "past_due"} => live[s].end >= now
  /\ now' = now + 1
  /\ unanswered' = {}
  /\ UNCHANGED <<live, log, posture, tables, work, sweeper>>

CheckoutPaid(s) ==
  /\ live[s].status = "open"
  /\ Emits(s, [live[s] EXCEPT !.status = "active", !.end = now], <<"checkout">>)

PlanChanges(s, p) ==
  /\ live[s].status = "active" /\ p # live[s].price
  /\ Emits(s, [live[s] EXCEPT !.price = p], <<"updated">>)

Renews(s) ==
  /\ live[s].status = "active" /\ live[s].end < now
  /\ Emits(s, [live[s] EXCEPT !.end = now], <<"paid", "updated">>)

PaymentFails(s) ==
  /\ live[s].status = "active" /\ live[s].end < now
  /\ Emits(s, [live[s] EXCEPT !.status = "past_due", !.end = now], <<"failed", "updated">>)

PaymentRecovers(s) ==
  /\ live[s].status = "past_due"
  /\ Emits(s, [live[s] EXCEPT !.status = "active"], <<"paid", "updated">>)

\* At once, at the end of the period or after failed payments.
Cancels(s) ==
  /\ live[s].status \in {"active", "past_due"}
  /\ Emits(s, [live[s] EXCEPT !.status = "canceled"], <<"deleted">>)
-----------------------------------------------------------------------------
(* The instance: posture and checkout.                                     *)

\* set_access_model: activation for freemium binds the users without a plan.
SetAccessModel(m) ==
  /\ posture # m
  /\ posture' = m
  /\ plan' = [u \in Users |-> IF m = "freemium" /\ plan[u] = "none" THEN "free"
                               ELSE plan[u]]
  /\ UNCHANGED <<provider, unanswered, row, ledger, history, work, sweeper>>

\* create_checkout: nothing asks whether the user has a subscription.
CreateCheckout(s, p) ==
  /\ posture # "off" /\ p \in Listed /\ live[s].status = "none"
  /\ live' = [live EXCEPT ![s].status = "open", ![s].price = p]
  /\ UNCHANGED <<now, log, unanswered, posture, tables, work, sweeper>>
-----------------------------------------------------------------------------
(* The handlers: the row and the plan each one leaves behind.              *)

Kept(job) == [row |-> job.row, plan |-> job.plan]

\* _handle_checkout_completed
CheckoutCompleted(job) ==
  IF job.live.price \notin Listed THEN Kept(job)
  ELSE [row |-> job.live, plan |-> job.live.price]

\* _handle_subscription_updated: the payload as it comes.
SubscriptionUpdated(job) ==
  LET new == log[job.event].state
  IN  [row |-> new,
       plan |-> IF new.price # job.row.price /\ new.price \in Listed THEN new.price
                ELSE job.plan]

\* Mutant of SubscriptionDeleted: the row stays active until the period ends.
DeletedStaysActive(job) ==
  [row |-> [job.row EXCEPT !.end = log[job.event].state.end], plan |-> job.plan]

\* _handle_subscription_deleted: the plan is left to the sweep.
SubscriptionDeleted(job) ==
  [row |-> [job.row EXCEPT !.status = "canceled", !.end = log[job.event].state.end],
   plan |-> job.plan]

\* _handle_invoice_paid for a renewal.  When the provider does not answer, the
\* invoice's own window counts, which ends where the paid period begins.
InvoicePaid(job) ==
  [row |-> [job.row EXCEPT !.end = job.live.end], plan |-> job.plan]

\* _handle_invoice_failed
InvoiceFailed(job) ==
  [row |-> [job.row EXCEPT !.status = "past_due"], plan |-> job.plan]

\* dispatch
Outcome(job) ==
  LET kind == log[job.event].kind
  IN  CASE kind = "checkout" -> CheckoutCompleted(job)
        [] kind # "checkout" /\ job.row.status = "none" -> Kept(job)
        [] kind = "updated" /\ job.row.status # "none" -> SubscriptionUpdated(job)
        [] kind = "deleted" /\ job.row.status # "none" -> SubscriptionDeleted(job)
        [] kind = "paid" /\ job.row.status # "none" -> InvoicePaid(job)
        [] kind = "failed" /\ job.row.status # "none" -> InvoiceFailed(job)

\* A session writes the columns it changed and no others.
Merged(current, read, new) ==
  [c \in DOMAIN new |-> IF new[c] = read[c] THEN current[c] ELSE new[c]]
-----------------------------------------------------------------------------
(* stripe_webhook.                                                         *)

Answered(e) == unanswered' = unanswered \ {e}

\* An event processed before is acknowledged and left alone.
Duplicate(e) ==
  /\ posture # "off" /\ e \in unanswered /\ ledger[e] = "processed"
  /\ Answered(e)
  /\ UNCHANGED <<provider, posture, tables, work, sweeper>>

\* What a handler that looks the subscription up at the provider is told.
Retrieved(e) ==
  CASE log[e].kind \notin {"checkout", "paid"} -> {Unknown}
    [] log[e].kind = "paid" /\ "retrieve" \in Faults ->
         {live[log[e].sub], [live[log[e].sub] EXCEPT !.end = log[e].state.end - 1]}
    [] log[e].kind = "checkout" \/ (log[e].kind = "paid" /\ "retrieve" \notin Faults) ->
         {live[log[e].sub]}

\* Mutant of Receive: the ledger is not asked.
ReceiveAgain(w, e) ==
  /\ posture # "off" /\ e \in unanswered /\ ~Busy(w)
  /\ \E answer \in Retrieved(e) :
       work' = [work EXCEPT ![w] =
                 [event |-> e, fresh |-> FALSE, row |-> row[log[e].sub],
                  plan |-> plan[Owner[log[e].sub]], live |-> answer]]
  /\ UNCHANGED <<provider, unanswered, posture, tables, sweeper>>

\* The ledger, the rows and the provider are read.  While billing is off the
\* provider gets 503 and keeps the event.
Receive(w, e) ==
  /\ posture # "off" /\ e \in unanswered /\ ~Busy(w)
  /\ ledger[e] # "processed"
  /\ \E answer \in Retrieved(e) :
       work' = [work EXCEPT ![w] =
                 [event |-> e, fresh |-> ledger[e] = "none", row |-> row[log[e].sub],
                  plan |-> plan[Owner[log[e].sub]], live |-> answer]]
  /\ UNCHANGED <<provider, unanswered, posture, tables, sweeper>>

\* Two first deliveries of one event: the second insert breaks the key.
Conflict(job) == job.fresh /\ ledger[job.event] # "none"

Overtaken(job) ==
  \E e \in job.event + 1 .. Len(log) : applied[e] > 0 /\ log[e].sub = log[job.event].sub

Overlapped(w) ==
  \E v \in Workers \ {w} :
    Busy(v) /\ log[work[v].event].sub = log[work[w].event].sub

\* The effects and the ledger's row in one transaction.
Commit(w) ==
  LET job == work[w]
      s == log[job.event].sub
      new == Outcome(job)
  IN  /\ Busy(w) /\ ~Conflict(job)
      /\ row' = [row EXCEPT ![s] = Merged(@, job.row, new.row)]
      /\ plan' = [plan EXCEPT ![Owner[s]] = IF new.plan = job.plan THEN @ ELSE new.plan]
      /\ ledger' = [ledger EXCEPT ![job.event] = "processed"]
      /\ applied' = [applied EXCEPT ![job.event] = @ + 1]
      /\ disordered' = IF Overtaken(job) \/ Overlapped(w) THEN disordered \cup {s}
                       ELSE disordered
      /\ work' = [work EXCEPT ![w] = NoJob]
      /\ Answered(job.event)
      /\ UNCHANGED <<provider, posture, retried, sweeper>>

\* The handler raises: its changes are rolled back, the error is recorded and
\* the provider, told of the failure, delivers again.  A process that dies
\* records nothing.
Fail(w) ==
  LET job == work[w]
  IN  /\ Busy(w) /\ ("fail" \in Faults \/ Conflict(job))
      /\ \/ /\ ledger' = [ledger EXCEPT ![job.event] = IF @ = "none" THEN "failed" ELSE @]
            /\ retried' = retried \cup {job.event}
         \/ "fail" \in Faults /\ UNCHANGED <<ledger, retried>>
      /\ work' = [work EXCEPT ![w] = NoJob]
      /\ UNCHANGED <<provider, unanswered, posture, row, plan, applied, disordered, sweeper>>
-----------------------------------------------------------------------------
(* The lifecycle sweep.                                                    *)

\* Mutant of Expired: the period paid for is not waited for.
ExpiredAtOnce(s) == row[s].status = "canceled"

Expired(s) == row[s].status = "canceled" /\ row[s].end < now

DowngradeTarget == IF posture = "freemium" THEN "free" ELSE "none"

\* downgrade_expired_canceled_subscriptions reads the posture and the rows ...
SweepReads ==
  /\ sweep = {} /\ posture # "off"
  /\ \E s \in Subs : Expired(s)
  /\ sweep' = {s \in Subs : Expired(s)}
  /\ target' = DowngradeTarget
  /\ UNCHANGED <<provider, unanswered, posture, tables, work>>

\* Mutant of SweepWrites: nobody is moved.
SweepForgets ==
  /\ sweep # {} /\ sweep' = {} /\ target' = "none"
  /\ UNCHANGED <<provider, unanswered, posture, tables, work>>

\* ... and moves the users they belong to.
SweepWrites ==
  /\ sweep # {}
  /\ plan' = [u \in Users |-> IF \E s \in sweep : Owner[s] = u THEN target ELSE plan[u]]
  /\ sweep' = {} /\ target' = "none"
  /\ UNCHANGED <<provider, unanswered, posture, row, ledger, history, work>>
-----------------------------------------------------------------------------
Provider ==
  \/ PeriodEnds
  \/ \E s \in Subs : \/ CheckoutPaid(s) \/ Renews(s) \/ PaymentFails(s)
                     \/ PaymentRecovers(s) \/ Cancels(s)
                     \/ \E p \in Prices : PlanChanges(s, p)

Handle(e) == Duplicate(e) \/ \E w \in Workers : Receive(w, e)

Next ==
  \/ Provider
  \/ \E m \in Postures : SetAccessModel(m)
  \/ \E s \in Subs, p \in Prices : CreateCheckout(s, p)
  \/ \E e \in unanswered : Handle(e)
  \/ \E w \in Workers : Commit(w) \/ Fail(w)
  \/ SweepReads \/ SweepWrites

Spec == Init /\ [][Next]_vars

\* The provider delivers until it is answered, a handler ends and does not
\* fail for ever, and the sweep runs every hour.
FairSpec ==
  /\ Spec
  /\ SF_vars(\E e \in unanswered : Handle(e))
  /\ SF_vars(\E w \in Workers : Commit(w))
  /\ \A w \in Workers : WF_vars(Commit(w) \/ Fail(w))
  /\ SF_vars(SweepReads) /\ WF_vars(SweepWrites)
=============================================================================
