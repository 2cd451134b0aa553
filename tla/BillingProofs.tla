---------------------------- MODULE BillingProofs ----------------------------
(***************************************************************************)
(* Billing keeps its types, no event is applied twice unless an attempt at *)
(* it was recorded as failed, a subscription all of whose events were      *)
(* handled in order is as the provider says, and only the sweep takes a    *)
(* plan away, from the user of a subscription that is over.                *)
(***************************************************************************)
EXTENDS BillingProps, SequenceTheorems, TLAPS

\* What is unanswered or in hand is in the log.
InLog ==
  /\ unanswered \subseteq 1 .. Len(log)
  /\ \A w \in Workers : work[w].event \in 0 .. Len(log)

\* The ledger knows what was applied, and a job without a ledger row is fresh.
Accounted ==
  /\ \A e \in Events : applied[e] > 0 => ledger[e] = "processed"
  /\ \A e \in Events \ retried : applied[e] <= 1 /\ ledger[e] # "failed"
  /\ \A w \in Workers : Busy(w) /\ work[w].event \notin retried => work[w].fresh

Inv == TypeOK /\ InLog

LEMMA UnknownTyped == Unknown \in State /\ Established \in State /\ NoJob \in Job /\ Listed \subseteq Prices
<1>1. PICK p \in Listed : TRUE
  BY BillingAssumption
<1>2. (CHOOSE p2 \in Prices : TRUE) \in Prices /\ (CHOOSE p3 \in Listed : TRUE) \in Listed
  BY <1>1, BillingAssumption
<1>3. Unknown \in State /\ Established \in State
  BY <1>2, BillingAssumption DEF Unknown, Established, State, Status
<1>4. 0 \in 0 .. MaxEvents
  BY BillingAssumption
<1>5. NoJob \in Job
  BY <1>3, <1>4 DEF NoJob, Job, Plans
<1> QED BY <1>3, <1>5, BillingAssumption

\* An event of the log that a process has in hand, with what it has read.
LEMMA JobTyped ==
  ASSUME Inv, NEW w \in Workers, Busy(w)
  PROVE  /\ work[w] \in Job /\ work[w].event \in 1 .. Len(log) /\ work[w].event \in Events
         /\ log[work[w].event] \in [sub : Subs, kind : Kinds, state : State]
<1>1. work[w] \in Job /\ Len(log) \in Nat /\ Len(log) <= MaxEvents
  BY DEF Inv, TypeOK
<1>2. work[w].event \in 1 .. Len(log)
  BY <1>1 DEF Inv, InLog, Busy, Job
<1>3. log[work[w].event] \in [sub : Subs, kind : Kinds, state : State]
  <2> DEFINE Event == [sub : Subs, kind : Kinds, state : State]
  <2>1. log \in Seq(Event)
    BY DEF Inv, TypeOK
  <2> HIDE DEF Event
  <2>2. log[work[w].event] \in Event
    BY <1>2, <2>1
  <2> QED BY <2>2 DEF Event
<1>4. work[w].event \in Events
  BY <1>1, <1>2, BillingAssumption DEF Events
<1> QED BY <1>1, <1>2, <1>3, <1>4

\* Every handler leaves a row and a plan.
LEMMA OutcomeTyped ==
  ASSUME Inv, NEW w \in Workers, Busy(w)
  PROVE  Outcome(work[w]).row \in State /\ Outcome(work[w]).plan \in Plans
<1> DEFINE job == work[w]
           e == log[job.event]
<1>1. job \in Job /\ e.kind \in Kinds /\ e.state \in State
  BY JobTyped
<1>2. job.row \in State /\ job.live \in State /\ job.plan \in Plans
  BY <1>1 DEF Job
<1>3. Kept(job).row \in State /\ Kept(job).plan \in Plans
  BY <1>2 DEF Kept
<1>4. CheckoutCompleted(job).row \in State /\ CheckoutCompleted(job).plan \in Plans
  BY <1>2, <1>3 DEF CheckoutCompleted, Plans
<1>5. SubscriptionUpdated(job).row \in State /\ SubscriptionUpdated(job).plan \in Plans
  BY <1>1, <1>2 DEF SubscriptionUpdated, Plans
<1>6. SubscriptionDeleted(job).row \in State /\ SubscriptionDeleted(job).plan \in Plans
  BY <1>1, <1>2 DEF SubscriptionDeleted, State, Status
<1>7. InvoicePaid(job).row \in State /\ InvoicePaid(job).plan \in Plans
  BY <1>2 DEF InvoicePaid, State
<1>8. InvoiceFailed(job).row \in State /\ InvoiceFailed(job).plan \in Plans
  BY <1>2 DEF InvoiceFailed, State, Status
<1> HIDE DEF job, e
<1>9. \/ Outcome(job) = CheckoutCompleted(job) \/ Outcome(job) = Kept(job)
      \/ Outcome(job) = SubscriptionUpdated(job) \/ Outcome(job) = SubscriptionDeleted(job)
      \/ Outcome(job) = InvoicePaid(job) \/ Outcome(job) = InvoiceFailed(job)
  <2> DEFINE k == log[job.event].kind
             absent == job.row.status = "none"
  <2>1. k \in Kinds
    BY <1>1 DEF e
  <2>2. CASE k = "checkout"
    BY <2>2 DEF Outcome
  <2>3. CASE k # "checkout" /\ absent
    BY <2>3 DEF Outcome
  <2>4. CASE k = "updated" /\ ~absent
    BY <2>4 DEF Outcome
  <2>5. CASE k = "deleted" /\ ~absent
    BY <2>5 DEF Outcome
  <2>6. CASE k = "paid" /\ ~absent
    BY <2>6 DEF Outcome
  <2>7. CASE k = "failed" /\ ~absent
    BY <2>7 DEF Outcome
  <2> QED BY <2>1, <2>2, <2>3, <2>4, <2>5, <2>6, <2>7 DEF Kinds
<1>10. Outcome(job).row \in State /\ Outcome(job).plan \in Plans
  BY <1>3, <1>4, <1>5, <1>6, <1>7, <1>8, <1>9
<1> QED BY <1>10 DEF job

\* No handler takes a plan away.
LEMMA OutcomePlan ==
  ASSUME NEW job, log[job.event].kind \in Kinds
  PROVE  Outcome(job).plan = job.plan \/ Outcome(job).plan \in Listed
<1> DEFINE k == log[job.event].kind
           absent == job.row.status = "none"
<1>1. CASE k = "checkout"
  BY <1>1 DEF Outcome, CheckoutCompleted, Kept
<1>2. CASE k # "checkout" /\ absent
  BY <1>2 DEF Outcome, Kept
<1>3. CASE k = "updated" /\ ~absent
  BY <1>3 DEF Outcome, SubscriptionUpdated
<1>4. CASE k = "deleted" /\ ~absent
  BY <1>4 DEF Outcome, SubscriptionDeleted
<1>5. CASE k = "paid" /\ ~absent
  BY <1>5 DEF Outcome, InvoicePaid
<1>6. CASE k = "failed" /\ ~absent
  BY <1>6 DEF Outcome, InvoiceFailed
<1> QED
  BY <1>1, <1>2, <1>3, <1>4, <1>5, <1>6 DEF Kinds

LEMMA MergedTyped ==
  ASSUME NEW current \in State, NEW read \in State, NEW new \in State
  PROVE  Merged(current, read, new) \in State
BY DEF Merged, State, Status

\* The provider's steps lengthen the log and touch nothing of the instance.
LEMMA EmitsKeeps ==
  ASSUME Inv, NEW s \in Subs, NEW new \in State, NEW kinds \in Seq(Kinds), Emits(s, new, kinds)
  PROVE  Inv'
<1> DEFINE told == [i \in DOMAIN kinds |-> [sub |-> s, kind |-> kinds[i], state |-> new]]
           Event == [sub : Subs, kind : Kinds, state : State]
<1>1. kinds \in Seq(Kinds) /\ Len(kinds) \in Nat /\ DOMAIN kinds = 1 .. Len(kinds)
  OBVIOUS
<1>2. \A i \in 1 .. Len(kinds) : kinds[i] \in Kinds
  BY <1>1
<1>3. told = [i \in 1 .. Len(kinds) |-> [sub |-> s, kind |-> kinds[i], state |-> new]]
  BY <1>1
<1>4. told \in Seq(Event) /\ Len(told) = Len(kinds)
  <2>1. \A i \in 1 .. Len(kinds) : [sub |-> s, kind |-> kinds[i], state |-> new] \in Event
    BY <1>2
  <2> QED BY <1>1, <1>3, <2>1
<1>5. log \in Seq(Event) /\ Len(log) \in Nat
  BY DEF Inv, TypeOK
<1> HIDE DEF told, Event
<1>6. log' = log \o told
  BY DEF Emits, told
<1>7. log' \in Seq(Event) /\ Len(log') = Len(log) + Len(kinds)
  <2>1. log \o told \in Seq(Event) /\ Len(log \o told) = Len(log) + Len(told)
    BY <1>4, <1>5, ConcatProperties, Zenon
  <2> QED BY <1>4, <1>6, <2>1, Zenon
<1>e. /\ Len(log) + Len(kinds) <= MaxEvents
      /\ unanswered' = unanswered \cup (Len(log) + 1 .. Len(log) + Len(kinds))
      /\ live' = [live EXCEPT ![s] = new]
      /\ work' = work
  BY DEF Emits
<1>8. Len(log') <= MaxEvents
  BY <1>e, <1>7
<1>9. unanswered' \subseteq 1 .. Len(log')
  <2>1. unanswered \subseteq 1 .. Len(log)
    BY DEF Inv, InLog
  <2>2. SUFFICES ASSUME NEW x \in unanswered' PROVE x \in 1 .. Len(log')
    OBVIOUS
  <2>3. CASE x \in unanswered
    BY <1>1, <1>5, <1>7, <2>1, <2>3
  <2>4. CASE x \in Len(log) + 1 .. Len(log) + Len(kinds)
    BY <1>1, <1>5, <1>7, <2>4
  <2> QED BY <1>e, <2>2, <2>3, <2>4
<1>10. \A w \in Workers : work'[w].event \in 0 .. Len(log')
  BY <1>1, <1>5, <1>7, <1>e DEF Inv, InLog
<1>11. unanswered' \subseteq Events
  BY <1>7, <1>8, <1>9, <1>1, <1>5, BillingAssumption DEF Events
<1>12. live' \in [Subs -> State]
  BY <1>e DEF Inv, TypeOK
<1>13. /\ UNCHANGED <<now, posture, row, plan, ledger, applied, retried, disordered>>
       /\ UNCHANGED <<work, sweep, target>>
  BY DEF Emits, tables, history, sweeper
<1> QED
  BY <1>7, <1>8, <1>9, <1>10, <1>11, <1>12, <1>13 DEF Inv, TypeOK, InLog, Event

LEMMA ProviderKeeps ==
  ASSUME Inv, Provider
  PROVE  Inv'
<1>1. CASE PeriodEnds
  <2>1. now' \in 0 .. MaxPeriods
    BY <1>1, BillingAssumption DEF PeriodEnds, Inv, TypeOK
  <2> QED BY <1>1, <2>1 DEF PeriodEnds, Inv, TypeOK, InLog, tables, history, sweeper
<1>2. CASE \E s \in Subs : CheckoutPaid(s) \/ Renews(s) \/ PaymentFails(s)
                          \/ PaymentRecovers(s) \/ Cancels(s)
                          \/ \E p \in Prices : PlanChanges(s, p)
  <2>1. PICK s \in Subs : CheckoutPaid(s) \/ Renews(s) \/ PaymentFails(s)
                          \/ PaymentRecovers(s) \/ Cancels(s)
                          \/ \E p \in Prices : PlanChanges(s, p)
    BY <1>2
  <2>2. live[s] \in State /\ now \in Int
    BY DEF Inv, TypeOK
  <2>3. \E new \in State, kinds \in Seq(Kinds) : Emits(s, new, kinds)
    <3>1. /\ <<"checkout">> \in Seq(Kinds) /\ <<"updated">> \in Seq(Kinds)
          /\ <<"deleted">> \in Seq(Kinds) /\ <<"paid", "updated">> \in Seq(Kinds)
          /\ <<"failed", "updated">> \in Seq(Kinds)
      BY DEF Kinds
    <3>2. CASE CheckoutPaid(s)
      <4>1. [live[s] EXCEPT !.status = "active", !.end = now] \in State
        BY <2>2 DEF State, Status
      <4> QED BY <3>1, <3>2, <4>1 DEF CheckoutPaid
    <3>3. CASE Renews(s)
      <4>1. [live[s] EXCEPT !.end = now] \in State
        BY <2>2 DEF State
      <4> QED BY <3>1, <3>3, <4>1 DEF Renews
    <3>4. CASE PaymentFails(s)
      <4>1. [live[s] EXCEPT !.status = "past_due", !.end = now] \in State
        BY <2>2 DEF State, Status
      <4> QED BY <3>1, <3>4, <4>1 DEF PaymentFails
    <3>5. CASE PaymentRecovers(s)
      <4>1. [live[s] EXCEPT !.status = "active"] \in State
        BY <2>2 DEF State, Status
      <4> QED BY <3>1, <3>5, <4>1 DEF PaymentRecovers
    <3>6. CASE Cancels(s)
      <4>1. [live[s] EXCEPT !.status = "canceled"] \in State
        BY <2>2 DEF State, Status
      <4> QED BY <3>1, <3>6, <4>1 DEF Cancels
    <3>7. CASE \E p \in Prices : PlanChanges(s, p)
      <4>1. PICK p \in Prices : PlanChanges(s, p)
        BY <3>7
      <4>2. [live[s] EXCEPT !.price = p] \in State
        BY <2>2 DEF State
      <4> QED BY <3>1, <4>1, <4>2 DEF PlanChanges
    <3> QED BY <2>1, <3>2, <3>3, <3>4, <3>5, <3>6, <3>7
  <2> QED BY <2>3, EmitsKeeps
<1> QED BY <1>1, <1>2 DEF Provider

LEMMA ReceiveKeeps ==
  ASSUME Inv, NEW w \in Workers, NEW e \in unanswered, Receive(w, e)
  PROVE  Inv'
<1>1. e \in 1 .. Len(log) /\ e \in Events /\ Len(log) \in Nat /\ Len(log) <= MaxEvents
  BY DEF Inv, TypeOK, InLog
<1>2. log[e] \in [sub : Subs, kind : Kinds, state : State]
  <2> DEFINE Event == [sub : Subs, kind : Kinds, state : State]
  <2>1. log \in Seq(Event)
    BY DEF Inv, TypeOK
  <2> HIDE DEF Event
  <2>2. log[e] \in Event
    BY <1>1, <2>1
  <2> QED BY <2>2 DEF Event
<1>3. Retrieved(e) \subseteq State
  <2>1. live[log[e].sub] \in State /\ log[e].state.end \in Int
    BY <1>2 DEF Inv, TypeOK, State
  <2>2. [live[log[e].sub] EXCEPT !.end = log[e].state.end - 1] \in State
    BY <2>1 DEF State
  <2>3. CASE log[e].kind \notin {"checkout", "paid"}
    BY <2>3, UnknownTyped DEF Retrieved
  <2>4. CASE log[e].kind = "checkout" \/ (log[e].kind = "paid" /\ "retrieve" \notin Faults)
    BY <2>1, <2>4 DEF Retrieved
  <2>5. CASE log[e].kind = "paid" /\ "retrieve" \in Faults
    BY <2>1, <2>2, <2>5 DEF Retrieved
  <2> QED BY <2>3, <2>4, <2>5
<1>4. PICK answer \in Retrieved(e) :
        work' = [work EXCEPT ![w] =
                   [event |-> e, fresh |-> ledger[e] = "none", row |-> row[log[e].sub],
                    plan |-> plan[Owner[log[e].sub]], live |-> answer]]
  BY DEF Receive
<1>5. [event |-> e, fresh |-> ledger[e] = "none", row |-> row[log[e].sub],
       plan |-> plan[Owner[log[e].sub]], live |-> answer] \in Job
  <2>1. row[log[e].sub] \in State /\ plan[Owner[log[e].sub]] \in Plans /\ answer \in State
    BY <1>2, <1>3, BillingAssumption DEF Inv, TypeOK
  <2>2. e \in 0 .. MaxEvents
    BY <1>1 DEF Events
  <2>3. (ledger[e] = "none") \in BOOLEAN
    OBVIOUS
  <2> QED BY <2>1, <2>2, <2>3 DEF Job
<1>6. work' \in [Workers -> Job]
  BY <1>4, <1>5 DEF Inv, TypeOK
<1>7. \A v \in Workers : work'[v].event \in 0 .. Len(log)
  BY <1>1, <1>4 DEF Inv, InLog, TypeOK
<1> QED
  BY <1>6, <1>7
  DEF Receive, Inv, TypeOK, InLog, provider, tables, history, sweeper

LEMMA CommitKeeps ==
  ASSUME Inv, NEW w \in Workers, Commit(w)
  PROVE  Inv'
<1> DEFINE job == work[w]
           s == log[job.event].sub
<1>1. Busy(w) /\ ~Conflict(job)
  BY DEF Commit
<1>2. job.event \in Events /\ s \in Subs /\ job \in Job
  BY <1>1, JobTyped
<1>3. row' \in [Subs -> State]
  <2>1. row[s] \in State /\ job.row \in State /\ Outcome(job).row \in State
    BY <1>1, <1>2, OutcomeTyped DEF Inv, TypeOK, Job
  <2>2. Merged(row[s], job.row, Outcome(job).row) \in State
    BY <2>1, MergedTyped
  <2>3. row' = [row EXCEPT ![s] = Merged(row[s], job.row, Outcome(job).row)]
    BY DEF Commit
  <2> QED BY <2>2, <2>3 DEF Inv, TypeOK
<1>4. plan' \in [Users -> Plans]
  <2>1. Outcome(job).plan \in Plans
    BY <1>1, OutcomeTyped
  <2>2. plan' = [plan EXCEPT ![Owner[s]] = IF Outcome(job).plan = job.plan THEN @
                                          ELSE Outcome(job).plan]
    BY DEF Commit
  <2> QED BY <2>1, <2>2 DEF Inv, TypeOK
<1>5. /\ ledger' = [ledger EXCEPT ![job.event] = "processed"]
      /\ applied' = [applied EXCEPT ![job.event] = @ + 1]
      /\ disordered' \in {disordered, disordered \cup {s}}
      /\ work' = [work EXCEPT ![w] = NoJob]
      /\ unanswered' = unanswered \ {job.event}
      /\ UNCHANGED <<now, live, log, posture, retried, sweep, target>>
  BY DEF Commit, Answered, provider, sweeper
<1>6. applied' \in [Events -> Nat] /\ ledger' \in [Events -> {"none", "failed", "processed"}]
  BY <1>2, <1>5 DEF Inv, TypeOK
<1>7. work' \in [Workers -> Job]
  BY <1>5, UnknownTyped DEF Inv, TypeOK
<1>8. Len(log) \in Nat
  BY DEF Inv, TypeOK
<1>9. \A v \in Workers : work'[v].event \in 0 .. Len(log)
  BY <1>5, <1>8 DEF Inv, InLog, TypeOK, NoJob
<1>10. disordered' \subseteq Subs
  BY <1>2, <1>5 DEF Inv, TypeOK
<1>11. unanswered' \subseteq unanswered
  BY <1>5
<1> HIDE DEF job, s
<1>12. TypeOK'
  BY <1>3, <1>4, <1>5, <1>6, <1>7, <1>10, <1>11 DEF Inv, TypeOK
<1>13. InLog'
  BY <1>5, <1>9, <1>11 DEF Inv, InLog
<1> QED BY <1>12, <1>13 DEF Inv

LEMMA FailKeeps ==
  ASSUME Inv, NEW w \in Workers, Fail(w)
  PROVE  Inv'
<1>1. work[w].event \in Events
  BY JobTyped DEF Fail
<1>2. /\ \/ /\ ledger' = [ledger EXCEPT ![work[w].event] = IF @ = "none" THEN "failed" ELSE @]
            /\ retried' = retried \cup {work[w].event}
         \/ UNCHANGED <<ledger, retried>>
      /\ work' = [work EXCEPT ![w] = NoJob]
      /\ UNCHANGED <<now, live, log, unanswered, posture, row, plan, applied, disordered>>
      /\ UNCHANGED <<sweep, target>>
  BY DEF Fail, provider, sweeper
<1>3. ledger' \in [Events -> {"none", "failed", "processed"}] /\ retried' \subseteq Events
  BY <1>1, <1>2 DEF Inv, TypeOK
<1>4. work' \in [Workers -> Job]
  BY <1>2, UnknownTyped DEF Inv, TypeOK
<1>5. Len(log) \in Nat
  BY DEF Inv, TypeOK
<1>6. \A v \in Workers : work'[v].event \in 0 .. Len(log)
  BY <1>2, <1>5 DEF Inv, InLog, TypeOK, NoJob
<1>7. TypeOK'
  BY <1>2, <1>3, <1>4 DEF Inv, TypeOK
<1>8. InLog'
  BY <1>2, <1>6 DEF Inv, InLog
<1> QED BY <1>7, <1>8 DEF Inv

LEMMA InitTyped == ASSUME Init PROVE Inv
<1>1. PICK Subscribed \in SUBSET Subs, status \in {"active", "past_due"} :
        StartsWith(Subscribed, status)
  BY DEF Init
<1>2. live \in [Subs -> State] /\ row \in [Subs -> State]
  BY <1>1, UnknownTyped DEF Init, StartsWith, State, Status
<1>3. posture \in {"off", "freemium", "paid_only"}
  BY <1>1 DEF StartsWith
<1>4. Established.price \in Listed
  <2>1. PICK p \in Listed : TRUE
    BY BillingAssumption
  <2> QED BY <2>1 DEF Established
<1>5. plan \in [Users -> Plans]
  <2>1. plan = [u \in Users |-> CASE \E s \in Subscribed : Owner[s] = u -> Established.price
                                [] posture = "off" -> "none"
                                [] OTHER -> "free"]
    BY <1>1 DEF StartsWith
  <2>2. CASE Subscribed = {}
    <3>1. posture = "off" /\ ~\E u \in Users, s \in Subscribed : Owner[s] = u
      BY <1>1, <2>2 DEF StartsWith
    <3>2. plan = [u \in Users |-> "none"]
      BY <2>1, <3>1
    <3> QED BY <3>2 DEF Plans
  <2>3. CASE Subscribed # {}
    <3>1. posture = "freemium"
      BY <1>1, <2>3 DEF StartsWith
    <3>2. plan = [u \in Users |-> IF \E s \in Subscribed : Owner[s] = u
                                  THEN Established.price ELSE "free"]
      BY <2>1, <3>1
    <3> QED BY <1>4, <3>2 DEF Plans
  <2> QED BY <2>2, <2>3
<1>6. work \in [Workers -> Job] /\ \A w \in Workers : work[w].event = 0
  BY UnknownTyped DEF Init, NoJob
<1>7. log \in Seq([sub : Subs, kind : Kinds, state : State]) /\ Len(log) = 0
  BY DEF Init
<1>8. TypeOK
  BY <1>2, <1>3, <1>5, <1>6, <1>7, BillingAssumption DEF Init, TypeOK
<1>9. InLog
  BY <1>6, <1>7 DEF Init, InLog
<1> QED BY <1>8, <1>9 DEF Inv

LEMMA StepKeeps == ASSUME Inv, [Next]_vars PROVE Inv'
<1>1. CASE Provider
  BY <1>1, ProviderKeeps
<1>2. CASE \E m \in Postures : SetAccessModel(m)
  <2>1. PICK m \in Postures : SetAccessModel(m)
    BY <1>2
  <2>2. plan' \in [Users -> Plans] /\ posture' \in {"off", "freemium", "paid_only"}
    BY <2>1, BillingAssumption DEF SetAccessModel, Inv, TypeOK, Plans
  <2> QED
    BY <2>1, <2>2 DEF SetAccessModel, Inv, TypeOK, InLog, provider, history, sweeper
<1>3. CASE \E s \in Subs, p \in Prices : CreateCheckout(s, p)
  <2>1. PICK s \in Subs, p \in Prices : CreateCheckout(s, p)
    BY <1>3
  <2>2. live' \in [Subs -> State]
    <3>1. live[s] \in State
      BY DEF Inv, TypeOK
    <3>2. [live[s] EXCEPT !.status = "open", !.price = p] \in State
      BY <3>1 DEF State, Status
    <3>3. live' = [live EXCEPT ![s] = [live[s] EXCEPT !.status = "open", !.price = p]]
      BY <2>1 DEF CreateCheckout, Inv, TypeOK, State
    <3> QED BY <3>2, <3>3 DEF Inv, TypeOK
  <2> QED
    BY <2>1, <2>2 DEF CreateCheckout, Inv, TypeOK, InLog, tables, history, sweeper
<1>4. CASE \E e \in unanswered : Handle(e)
  <2>1. PICK e \in unanswered : Handle(e)
    BY <1>4
  <2>2. CASE Duplicate(e)
    BY <2>2 DEF Duplicate, Answered, Inv, TypeOK, InLog, provider, tables, history, sweeper
  <2>3. CASE \E w \in Workers : Receive(w, e)
    BY <2>3, ReceiveKeeps
  <2> QED BY <2>1, <2>2, <2>3 DEF Handle
<1>5. CASE \E w \in Workers : Commit(w) \/ Fail(w)
  BY <1>5, CommitKeeps, FailKeeps
<1>6. CASE SweepReads
  BY <1>6 DEF SweepReads, DowngradeTarget, Inv, TypeOK, InLog, provider, tables, history
<1>7. CASE SweepWrites
  <2>1. plan' \in [Users -> Plans]
    BY <1>7 DEF SweepWrites, Inv, TypeOK, Plans
  <2> QED BY <1>7, <2>1 DEF SweepWrites, Inv, TypeOK, InLog, provider, history
<1>8. CASE UNCHANGED vars
  BY <1>8 DEF vars, Inv, TypeOK, InLog, Busy, provider, tables, history, sweeper
<1> QED BY <1>1, <1>2, <1>3, <1>4, <1>5, <1>6, <1>7, <1>8 DEF Next

LEMMA InvAlways == Spec => []Inv
BY InitTyped, StepKeeps, PTL DEF Spec

(* Whatever is delivered, in whatever order and however often, the tables, *)
(* the ledger and the jobs in hand keep their types: in particular a       *)
(* user's plan is always one of the catalogue, the default or none.        *)
THEOREM TypeCorrect == Spec => []TypeOK
<1>1. Inv => TypeOK
  BY DEF Inv
<1> QED BY <1>1, InvAlways, PTL

\* The ledger and the jobs change in three steps only.
LEMMA AccountsKept ==
  ASSUME Inv, Accounted, UNCHANGED <<ledger, applied, retried>>,
         \A w \in Workers : work'[w] = work[w] \/ work'[w] = NoJob
  PROVE  Accounted'
<1>1. \A w \in Workers : work'[w] = NoJob => ~Busy(w)'
  BY DEF Busy, NoJob
<1> QED BY <1>1 DEF Accounted, Busy

LEMMA AccountedStep == ASSUME Inv, Accounted, [Next]_vars PROVE Accounted'
<1>1. CASE Provider
  <2>1. UNCHANGED <<ledger, applied, retried, work>>
    BY <1>1 DEF Provider, PeriodEnds, CheckoutPaid, Renews, PaymentFails, PaymentRecovers,
                Cancels, PlanChanges, Emits, tables, history
  <2> QED BY <2>1, AccountsKept
<1>2. CASE \E m \in Postures : SetAccessModel(m)
  <2>1. UNCHANGED <<ledger, applied, retried, work>>
    BY <1>2 DEF SetAccessModel, history
  <2> QED BY <2>1, AccountsKept
<1>3. CASE \E s \in Subs, p \in Prices : CreateCheckout(s, p)
  <2>1. UNCHANGED <<ledger, applied, retried, work>>
    BY <1>3 DEF CreateCheckout, tables, history
  <2> QED BY <2>1, AccountsKept
<1>4. CASE \E e \in unanswered : Handle(e)
  <2>1. PICK e \in unanswered : Handle(e)
    BY <1>4
  <2>2. CASE Duplicate(e)
    <3>1. UNCHANGED <<ledger, applied, retried, work>>
      BY <2>2 DEF Duplicate, tables, history
    <3> QED BY <3>1, AccountsKept
  <2>3. CASE \E w \in Workers : Receive(w, e)
    <3>1. PICK w \in Workers : Receive(w, e)
      BY <2>3
    <3>2. e \in Events /\ ledger[e] \in {"none", "failed"}
      BY <3>1 DEF Receive, Inv, TypeOK
    <3>3. /\ UNCHANGED <<ledger, applied, retried>>
          /\ \A v \in Workers \ {w} : work'[v] = work[v]
          /\ work'[w].event = e /\ work'[w].fresh = (ledger[e] = "none")
      BY <3>1 DEF Receive, Inv, TypeOK, tables, history
    <3> QED BY <3>2, <3>3 DEF Accounted, Busy
  <2> QED BY <2>1, <2>2, <2>3 DEF Handle
<1>5. CASE \E w \in Workers : Commit(w)
  <2>1. PICK w \in Workers : Commit(w)
    BY <1>5
  <2> DEFINE e == work[w].event
  <2>2. /\ Busy(w) /\ ~Conflict(work[w]) /\ e \in Events
        /\ ledger' = [ledger EXCEPT ![e] = "processed"]
        /\ applied' = [applied EXCEPT ![e] = @ + 1]
        /\ work' = [work EXCEPT ![w] = NoJob]
        /\ retried' = retried
    BY <2>1, JobTyped DEF Commit
  <2>3. e \notin retried => applied[e] = 0
    <3>1. e \notin retried => ledger[e] = "none"
      BY <2>2, Zenon DEF Accounted, Conflict
    <3>2. applied[e] \in Nat /\ (applied[e] > 0 => ledger[e] = "processed")
      BY <2>2 DEF Accounted, Inv, TypeOK
    <3> QED BY <3>1, <3>2
  <2>4. \A d \in Events : applied'[d] > 0 => ledger'[d] = "processed"
    BY <2>2 DEF Accounted, Inv, TypeOK
  <2>5. \A d \in Events \ retried' : applied'[d] <= 1 /\ ledger'[d] # "failed"
    BY <2>2, <2>3 DEF Accounted, Inv, TypeOK
  <2>6. \A v \in Workers : Busy(v)' /\ work'[v].event \notin retried' => work'[v].fresh
    BY <2>2 DEF Accounted, Busy, NoJob, Inv, TypeOK
  <2> QED BY <2>4, <2>5, <2>6 DEF Accounted
<1>6. CASE \E w \in Workers : Fail(w)
  <2>1. PICK w \in Workers : Fail(w)
    BY <1>6
  <2> DEFINE e == work[w].event
  <2>0. e \in Events
    BY <2>1, JobTyped DEF Fail
  <2>2. /\ applied' = applied
        /\ work' = [work EXCEPT ![w] = NoJob]
        /\ \/ /\ ledger' = [ledger EXCEPT ![e] = IF @ = "none" THEN "failed" ELSE @]
              /\ retried' = retried \cup {e}
           \/ UNCHANGED <<ledger, retried>>
    BY <2>1 DEF Fail
  <2>3. \A d \in Events : applied'[d] > 0 => ledger'[d] = "processed"
    BY <2>0, <2>2 DEF Accounted, Inv, TypeOK
  <2>4. \A d \in Events \ retried' : applied'[d] <= 1 /\ ledger'[d] # "failed"
    BY <2>0, <2>2 DEF Accounted, Inv, TypeOK
  <2>5. \A v \in Workers : Busy(v)' /\ work'[v].event \notin retried' => work'[v].fresh
    BY <2>0, <2>2 DEF Accounted, Busy, NoJob, Inv, TypeOK
  <2> QED BY <2>3, <2>4, <2>5 DEF Accounted
<1>7. CASE SweepReads \/ SweepWrites
  <2>1. UNCHANGED <<ledger, applied, retried, work>>
    BY <1>7 DEF SweepReads, SweepWrites, tables, history
  <2> QED BY <2>1, AccountsKept
<1>8. CASE UNCHANGED vars
  <2>1. UNCHANGED <<ledger, applied, retried, work>>
    BY <1>8 DEF vars, tables, history
  <2> QED BY <2>1, AccountsKept
<1> QED BY <1>1, <1>2, <1>3, <1>4, <1>5, <1>6, <1>7, <1>8 DEF Next

(* However often an event is delivered, to however many processes at once, *)
(* its effects are committed once: the key of the ledger decides between   *)
(* two first deliveries.  Only an event whose failure was recorded has no  *)
(* such guard.                                                             *)
THEOREM AppliedOnceHolds == Spec => []AppliedOnce
<1>1. Init => Accounted
  BY BillingAssumption DEF Init, Accounted, Busy, NoJob, Events
<1>2. Inv /\ Accounted /\ [Next]_vars => Accounted'
  BY AccountedStep
<1>3. Accounted => AppliedOnce
  BY DEF Accounted, AppliedOnce
<1> QED BY <1>1, <1>2, <1>3, InvAlways, PTL DEF Spec

-----------------------------------------------------------------------------
(* The provider's log, and what is still to be handled of it.              *)

Of(s) == {e \in 1 .. Len(log) : log[e].sub = s}
Pending(e) == e \in unanswered \/ \E w \in Workers : work[w].event = e
Later(e) == \E f \in e + 1 .. Len(log) : applied[f] > 0 /\ log[f].sub = log[e].sub

EventSound(e) ==
  /\ log[e].state.end <= now
  /\ log[e].state.status \in {"active", "past_due", "canceled"}
  /\ log[e].kind = "deleted" <=> log[e].state.status = "canceled"
  /\ log[e].kind \in {"paid", "failed"} =>
       e + 1 \in Of(log[e].sub) /\ log[e + 1].kind = "updated"
  /\ log[e].kind = "checkout" /\ Pending(e) => log[e].state.end = now

(* A checkout is the first event of its subscription, in its own period;   *)
(* the deletion is the last and leaves the price as it was.                *)
PairSound(e, f) ==
  log[e].sub = log[f].sub =>
    /\ log[e].kind = "deleted" => f <= e
    /\ log[e].kind = "checkout" =>
         /\ e <= f /\ log[e].state.end <= log[f].state.end
         /\ log[f].kind \in {"paid", "failed"} => log[e].state.end < log[f].state.end
    /\ log[e].kind = "deleted" /\ f < e /\ (\A g \in Of(log[e].sub) : g <= f \/ e <= g) =>
         log[e].state.price = log[f].state.price

LogSound ==
  \A e \in 1 .. Len(log) : EventSound(e) /\ \A f \in 1 .. Len(log) : PairSound(e, f)

\* A subscription at the provider is as its last event tells.
LiveSound(s) ==
  /\ live[s].status \in {"none", "open"} => Of(s) = {} /\ row[s].status = "none"
  /\ live[s].end <= now
  /\ \A e \in Of(s) : (\A f \in Of(s) : f <= e) => log[e].state = live[s]
  /\ \A e \in Of(s) : \E b \in Of(s) : log[b].state = live[s]
  /\ \A e \in Of(s) : log[e].kind = "checkout" =>
       /\ log[e].state.end <= live[s].end
       /\ live[s].status = "past_due" => log[e].state.end < live[s].end

LEMMA LogTyped ==
  ASSUME Inv, NEW e \in 1 .. Len(log)
  PROVE  /\ log[e].sub \in Subs /\ log[e].kind \in Kinds /\ log[e].state \in State
         /\ log[e].state.end \in Int /\ e \in Events /\ Len(log) \in Nat
<1> DEFINE Event == [sub : Subs, kind : Kinds, state : State]
<1>1. log \in Seq(Event) /\ Len(log) <= MaxEvents
  BY DEF Inv, TypeOK
<1> HIDE DEF Event
<1>2. log[e] \in Event /\ Len(log) \in Nat
  BY <1>1
<1>3. e \in Events
  BY <1>1, <1>2, BillingAssumption DEF Events
<1> QED
  BY <1>2, <1>3 DEF Event, State

\* An event is told of s, or two.
Emission(s, new) ==
  LET n == Len(log)
  IN  /\ Len(log') \in {n + 1, n + 2}
      /\ \A e \in 1 .. n : log'[e] = log[e]
      /\ \A e \in n + 1 .. Len(log') :
           /\ log'[e].sub = s /\ log'[e].state = new
           /\ log'[e].kind = "deleted" <=> new.status = "canceled"
           /\ log'[e].kind = "deleted" => Len(log') = n + 1 /\ new.price = live[s].price
           /\ log'[e].kind = "checkout" =>
                Len(log') = n + 1 /\ live[s].status = "open" /\ new.end = now
           /\ log'[e].kind \in {"paid", "failed"} =>
                /\ e = n + 1 /\ Len(log') = n + 2 /\ log'[n + 2].kind = "updated"
                /\ new.end > live[s].end \/ live[s].status = "past_due"
      /\ live[s].status \in {"open", "active", "past_due"}
      /\ live[s].status = "open" => log'[n + 1].kind = "checkout" /\ new.status = "active"
      /\ new.status \in {"active", "past_due", "canceled"}
      /\ new.end <= now /\ live[s].end <= new.end
      /\ new.status = "past_due" => live[s].end < new.end
      /\ live' = [live EXCEPT ![s] = new]
      /\ unanswered' = unanswered \cup (n + 1 .. Len(log'))
      /\ UNCHANGED <<now, posture, row, plan, ledger, applied, retried, disordered>>
      /\ UNCHANGED <<work, sweep, target>>

\* The events told are appended.
LEMMA EmitsAppends ==
  ASSUME Inv, NEW s \in Subs, NEW new \in State, NEW kinds \in Seq(Kinds), Emits(s, new, kinds)
  PROVE  /\ Len(log') = Len(log) + Len(kinds) /\ Len(log) \in Nat
         /\ \A e \in 1 .. Len(log) : log'[e] = log[e]
         /\ \A i \in 1 .. Len(kinds) :
              log'[Len(log) + i] = [sub |-> s, kind |-> kinds[i], state |-> new]
<1> DEFINE told == [i \in DOMAIN kinds |-> [sub |-> s, kind |-> kinds[i], state |-> new]]
           Event == [sub : Subs, kind : Kinds, state : State]
<1>1. kinds \in Seq(Kinds) /\ Len(kinds) \in Nat /\ DOMAIN kinds = 1 .. Len(kinds)
  OBVIOUS
<1>2. \A i \in 1 .. Len(kinds) : kinds[i] \in Kinds
  BY <1>1
<1>3. told = [i \in 1 .. Len(kinds) |-> [sub |-> s, kind |-> kinds[i], state |-> new]]
  BY <1>1
<1>4. told \in Seq(Event) /\ Len(told) = Len(kinds)
  <2>1. \A i \in 1 .. Len(kinds) : [sub |-> s, kind |-> kinds[i], state |-> new] \in Event
    BY <1>2
  <2> QED BY <1>1, <1>3, <2>1
<1>5. log \in Seq(Event) /\ Len(log) \in Nat
  BY DEF Inv, TypeOK
<1>6. \A i \in 1 .. Len(kinds) : told[i] = [sub |-> s, kind |-> kinds[i], state |-> new]
  BY <1>3
<1> HIDE DEF told, Event
<1>7. log' = log \o told
  BY DEF Emits, told
<1>8. \A i \in 1 .. Len(kinds) : log'[Len(log) + i] = told[i]
  BY <1>1, <1>4, <1>5, <1>7
<1>9. \A e \in 1 .. Len(log) : log'[e] = log[e]
  BY <1>4, <1>5, <1>7
<1>10. Len(log') = Len(log) + Len(kinds)
  <2>1. Len(log \o told) = Len(log) + Len(told)
    BY <1>4, <1>5, ConcatProperties, Zenon
  <2> QED BY <1>4, <1>7, <2>1, Zenon
<1> QED
  BY <1>5, <1>6, <1>8, <1>9, <1>10

LEMMA EmissionIs ==
  ASSUME Inv, NEW s \in Subs, live[s].end <= now,
         \/ CheckoutPaid(s) \/ Renews(s) \/ PaymentFails(s) \/ PaymentRecovers(s)
         \/ Cancels(s) \/ \E p \in Prices : PlanChanges(s, p)
  PROVE  \E new \in State : Emission(s, new)
<1> DEFINE n == Len(log)
<1>1. live[s] \in State /\ now \in Int /\ n \in Nat /\ live[s].end \in Int
  BY DEF Inv, TypeOK, State
<1>2. ASSUME NEW new \in State, NEW kinds \in Seq(Kinds), Emits(s, new, kinds)
      PROVE  /\ live' = [live EXCEPT ![s] = new]
             /\ unanswered' = unanswered \cup (n + 1 .. n + Len(kinds))
             /\ UNCHANGED <<now, posture, row, plan, ledger, applied, retried, disordered>>
             /\ UNCHANGED <<work, sweep, target>>
  BY <1>2 DEF Emits, tables, history, sweeper
<1>3. ASSUME NEW new \in State, NEW k \in Kinds, Emits(s, new, <<k>>)
      PROVE  /\ Len(log') = n + 1 /\ \A e \in 1 .. n : log'[e] = log[e]
             /\ log'[n + 1] = [sub |-> s, kind |-> k, state |-> new]
  <2> DEFINE kinds == <<k>>
  <2>1. kinds \in Seq(Kinds) /\ Len(kinds) = 1 /\ kinds[1] = k
    OBVIOUS
  <2> HIDE DEF kinds
  <2>2. Emits(s, new, kinds)
    BY <1>3 DEF kinds
  <2>3. /\ Len(log') = Len(log) + Len(kinds) /\ Len(log) \in Nat
        /\ \A e \in 1 .. Len(log) : log'[e] = log[e]
        /\ \A i \in 1 .. Len(kinds) :
              log'[Len(log) + i] = [sub |-> s, kind |-> kinds[i], state |-> new]
    BY <2>1, <2>2, EmitsAppends
  <2> QED BY <2>1, <2>3
<1>4. ASSUME NEW new \in State, NEW k \in Kinds, Emits(s, new, <<k, "updated">>)
      PROVE  /\ Len(log') = n + 2 /\ \A e \in 1 .. n : log'[e] = log[e]
             /\ log'[n + 1] = [sub |-> s, kind |-> k, state |-> new]
             /\ log'[n + 2] = [sub |-> s, kind |-> "updated", state |-> new]
  <2> DEFINE kinds == <<k, "updated">>
  <2>1. kinds \in Seq(Kinds) /\ Len(kinds) = 2 /\ kinds[1] = k /\ kinds[2] = "updated"
    BY DEF Kinds
  <2> HIDE DEF kinds
  <2>2. Emits(s, new, kinds)
    BY <1>4 DEF kinds
  <2>3. /\ Len(log') = Len(log) + Len(kinds) /\ Len(log) \in Nat
        /\ \A e \in 1 .. Len(log) : log'[e] = log[e]
        /\ \A i \in 1 .. Len(kinds) :
              log'[Len(log) + i] = [sub |-> s, kind |-> kinds[i], state |-> new]
    BY <2>1, <2>2, EmitsAppends
  <2> QED BY <2>1, <2>3
<1>5. ASSUME NEW new \in State, NEW k \in Kinds \ {"paid", "failed"}, Emits(s, new, <<k>>),
             k = "deleted" <=> new.status = "canceled",
             k = "deleted" => new.price = live[s].price,
             k = "checkout" => new.end = now,
             k = "checkout" <=> live[s].status = "open",
             live[s].status \in {"open", "active", "past_due"},
             new.status \in {"active", "canceled"},
             new.end <= now, live[s].end <= new.end
      PROVE  Emission(s, new)
  <2>0. /\ k \in Kinds /\ Len(log') = n + 1 /\ \A e \in 1 .. n : log'[e] = log[e]
        /\ log'[n + 1] = [sub |-> s, kind |-> k, state |-> new]
    BY <1>3, <1>5
  <2>1. \A e \in n + 1 .. Len(log') : e = n + 1
    BY <1>1, <2>0
  <2>2. <<k>> \in Seq(Kinds) /\ Len(<<k>>) = 1
    OBVIOUS
  <2>3. /\ live' = [live EXCEPT ![s] = new]
        /\ unanswered' = unanswered \cup (n + 1 .. n + 1)
        /\ UNCHANGED <<now, posture, row, plan, ledger, applied, retried, disordered>>
        /\ UNCHANGED <<work, sweep, target>>
    BY <1>2, <1>5, <2>2
  <2>4. live[s].status = "open" => new.status = "active"
    BY <1>5
  <2>5. /\ live[s].status \in {"open", "active", "past_due"}
        /\ new.status \in {"active", "past_due", "canceled"} /\ new.status # "past_due"
        /\ live[s].status = "open" => log'[n + 1].kind = "checkout"
    BY <1>5, <2>0
  <2>6. \A e \in n + 1 .. Len(log') :
           /\ log'[e].sub = s /\ log'[e].state = new
           /\ log'[e].kind = "deleted" <=> new.status = "canceled"
           /\ log'[e].kind = "deleted" => Len(log') = n + 1 /\ new.price = live[s].price
           /\ log'[e].kind = "checkout" =>
                Len(log') = n + 1 /\ live[s].status = "open" /\ new.end = now
           /\ log'[e].kind \notin {"paid", "failed"}
    BY <1>5, <2>0, <2>1
  <2>7. Len(log') \in {n + 1, n + 2} /\ (n + 1 .. n + 1) = (n + 1 .. Len(log'))
    BY <2>0
  <2> QED BY <1>5, <2>0, <2>3, <2>4, <2>5, <2>6, <2>7 DEF Emission
<1>6. ASSUME NEW new \in State, NEW k \in {"paid", "failed"}, Emits(s, new, <<k, "updated">>),
             live[s].status \in {"active", "past_due"},
             live[s].end < new.end \/ live[s].status = "past_due",
             new.status \in {"active", "past_due"}, new.end <= now, live[s].end <= new.end,
             new.status = "past_due" => live[s].end < new.end
      PROVE  Emission(s, new)
  <2>0. /\ Len(log') = n + 2 /\ \A e \in 1 .. n : log'[e] = log[e]
        /\ log'[n + 1] = [sub |-> s, kind |-> k, state |-> new]
        /\ log'[n + 2] = [sub |-> s, kind |-> "updated", state |-> new]
    BY <1>4, <1>6 DEF Kinds
  <2>1. \A e \in n + 1 .. Len(log') : e = n + 1 \/ e = n + 2
    BY <1>1, <2>0
  <2>2. <<k, "updated">> \in Seq(Kinds) /\ Len(<<k, "updated">>) = 2
    BY DEF Kinds
  <2>3. /\ live' = [live EXCEPT ![s] = new]
        /\ unanswered' = unanswered \cup (n + 1 .. n + 2)
        /\ UNCHANGED <<now, posture, row, plan, ledger, applied, retried, disordered>>
        /\ UNCHANGED <<work, sweep, target>>
    BY <1>2, <1>6, <2>2
  <2>4. k \in Kinds
    BY DEF Kinds
  <2>5. \A e \in n + 1 .. Len(log') :
           /\ log'[e].sub = s /\ log'[e].state = new
           /\ log'[e].kind \notin {"deleted", "checkout"} /\ new.status # "canceled"
           /\ log'[e].kind \in {"paid", "failed"} =>
                /\ e = n + 1 /\ Len(log') = n + 2 /\ log'[n + 2].kind = "updated"
                /\ new.end > live[s].end \/ live[s].status = "past_due"
    BY <1>1, <1>6, <2>0, <2>1 DEF State
  <2>6. Len(log') \in {n + 1, n + 2} /\ (n + 1 .. n + 2) = (n + 1 .. Len(log'))
    BY <2>0
  <2>7. live[s].status # "open" /\ new.status \in {"active", "past_due", "canceled"}
    BY <1>6
  <2> QED BY <1>6, <2>0, <2>3, <2>5, <2>6, <2>7 DEF Emission
<1>7. CASE CheckoutPaid(s)
  <2> DEFINE new == [live[s] EXCEPT !.status = "active", !.end = now]
  <2>1. new \in State /\ new.status = "active" /\ new.end = now
    BY <1>1 DEF State, Status
  <2>2. Emits(s, new, <<"checkout">>) /\ live[s].status = "open"
    BY <1>7 DEF CheckoutPaid
  <2> HIDE DEF new
  <2> QED BY <1>1, <1>5, <2>1, <2>2 DEF Kinds
<1>8. CASE \E p \in Prices : PlanChanges(s, p)
  <2>1. PICK p \in Prices : PlanChanges(s, p)
    BY <1>8
  <2> DEFINE new == [live[s] EXCEPT !.price = p]
  <2>2. new \in State /\ new.status = live[s].status /\ new.end = live[s].end
    BY <1>1 DEF State
  <2>3. Emits(s, new, <<"updated">>) /\ live[s].status = "active"
    BY <2>1 DEF PlanChanges
  <2> HIDE DEF new
  <2> QED BY <1>1, <1>5, <2>2, <2>3 DEF Kinds
<1>9. CASE Cancels(s)
  <2> DEFINE new == [live[s] EXCEPT !.status = "canceled"]
  <2>1. /\ new \in State /\ new.status = "canceled" /\ new.end = live[s].end
        /\ new.price = live[s].price
    BY <1>1 DEF State, Status
  <2>2. Emits(s, new, <<"deleted">>) /\ live[s].status \in {"active", "past_due"}
    BY <1>9 DEF Cancels
  <2> HIDE DEF new
  <2> QED BY <1>1, <1>5, <2>1, <2>2 DEF Kinds
<1>10. CASE Renews(s)
  <2> DEFINE new == [live[s] EXCEPT !.end = now]
  <2>1. new \in State /\ new.status = live[s].status /\ new.end = now
    BY <1>1 DEF State
  <2>2. Emits(s, new, <<"paid", "updated">>) /\ live[s].status = "active" /\ live[s].end < now
    BY <1>10 DEF Renews
  <2> HIDE DEF new
  <2> QED BY <1>1, <1>6, <2>1, <2>2
<1>11. CASE PaymentFails(s)
  <2> DEFINE new == [live[s] EXCEPT !.status = "past_due", !.end = now]
  <2>1. new \in State /\ new.status = "past_due" /\ new.end = now
    BY <1>1 DEF State, Status
  <2>2. Emits(s, new, <<"failed", "updated">>) /\ live[s].status = "active" /\ live[s].end < now
    BY <1>11 DEF PaymentFails
  <2> HIDE DEF new
  <2> QED BY <1>1, <1>6, <2>1, <2>2
<1>12. CASE PaymentRecovers(s)
  <2> DEFINE new == [live[s] EXCEPT !.status = "active"]
  <2>1. new \in State /\ new.status = "active" /\ new.end = live[s].end
    BY <1>1 DEF State, Status
  <2>2. Emits(s, new, <<"paid", "updated">>) /\ live[s].status = "past_due"
    BY <1>12 DEF PaymentRecovers
  <2> HIDE DEF new
  <2> QED BY <1>1, <1>6, <2>1, <2>2
<1> QED
  BY <1>7, <1>8, <1>9, <1>10, <1>11, <1>12

\* What is told of a subscription keeps the log in order.
LEMMA EmissionLog ==
  ASSUME Inv, LogSound, NEW s \in Subs, LiveSound(s), NEW new \in State, Emission(s, new)
  PROVE  LogSound'
<1> DEFINE n == Len(log)
<1>1. /\ n \in Nat /\ Len(log') \in {n + 1, n + 2} /\ now' = now /\ work' = work
      /\ \A e \in 1 .. n : log'[e] = log[e]
      /\ unanswered' = unanswered \cup (n + 1 .. Len(log'))
  BY DEF Emission, Inv, TypeOK
<1>2. \A e \in 1 .. Len(log') : e \in 1 .. n \/ e \in n + 1 .. Len(log')
  BY <1>1
<1>3. 1 .. n \subseteq 1 .. Len(log') /\ n + 1 .. Len(log') \subseteq 1 .. Len(log')
  BY <1>1
<1>4. now \in Int /\ new.end \in Int /\ live[s].end \in Int
  BY DEF Inv, TypeOK, State
<1>5. ASSUME NEW e \in 1 .. n PROVE EventSound(e)'
  <2>1. EventSound(e) /\ log'[e] = log[e]
    BY <1>1 DEF LogSound
  <2>2. Pending(e)' <=> Pending(e)
    BY <1>1 DEF Pending
  <2>3. \A f \in Of(log[e].sub) : f \in Of(log[e].sub)' /\ log'[f] = log[f]
    BY <1>1, <1>3 DEF Of
  <2> QED BY <1>1, <2>1, <2>2, <2>3 DEF EventSound
<1>6. ASSUME NEW e \in n + 1 .. Len(log') PROVE EventSound(e)'
  <2>1. Of(s)' = {g \in 1 .. Len(log') : log'[g].sub = s}
    BY DEF Of
  <2>2. n + 1 .. Len(log') \subseteq Of(s)'
    BY <1>3, <2>1 DEF Emission
  <2> QED BY <1>1, <1>4, <2>2 DEF EventSound, Emission
<1>7. \A e \in Of(s) : log[e].kind # "deleted"
  <2>1. SUFFICES ASSUME NEW e \in Of(s), log[e].kind = "deleted" PROVE FALSE
    OBVIOUS
  <2>2. \A f \in Of(s) : f <= e
    BY <2>1 DEF Of, LogSound, PairSound
  <2>3. live[s].status = "canceled"
    BY <2>1, <2>2 DEF LiveSound, LogSound, EventSound, Of
  <2> QED BY <2>3 DEF Emission
<1>8. ASSUME NEW e \in 1 .. n, NEW f \in 1 .. n PROVE PairSound(e, f)'
  <2>1. PairSound(e, f) /\ log'[e] = log[e] /\ log'[f] = log[f]
    BY <1>1 DEF LogSound
  <2>2. Of(log[e].sub) \subseteq Of(log[e].sub)'
    BY <1>1, <1>3 DEF Of
  <2> QED BY <2>1, <2>2 DEF PairSound
<1>9. ASSUME NEW e \in 1 .. n, NEW f \in n + 1 .. Len(log') PROVE PairSound(e, f)'
  <2>1. SUFFICES ASSUME log[e].sub = s PROVE PairSound(e, f)'
    BY <1>1 DEF PairSound, Emission
  <2>2. log'[e] = log[e] /\ log[e].kind # "deleted" /\ e <= f
    BY <1>1, <1>7, <2>1 DEF Of
  <2>3. e \in Of(s) /\ log[e].state.end \in Int
    BY <2>1, LogTyped DEF Of
  <2>4. log[e].kind = "checkout" =>
          /\ log[e].state.end <= live[s].end
          /\ live[s].status = "past_due" => log[e].state.end < live[s].end
    BY <2>3 DEF LiveSound
  <2>5. /\ log'[f].state = new /\ live[s].end <= new.end
        /\ log'[f].kind \in {"paid", "failed"} =>
             new.end > live[s].end \/ live[s].status = "past_due"
    BY DEF Emission
  <2> QED BY <1>4, <2>2, <2>3, <2>4, <2>5 DEF PairSound
<1>10. ASSUME NEW e \in n + 1 .. Len(log'), NEW f \in 1 .. n PROVE PairSound(e, f)'
  <2>1. SUFFICES ASSUME log[f].sub = s PROVE PairSound(e, f)'
    BY <1>1 DEF PairSound, Emission
  <2>2. log'[f] = log[f] /\ f <= e /\ f \in Of(s)
    BY <1>1, <2>1 DEF Of
  <2>3. live[s].status # "open"
    BY <2>2 DEF LiveSound
  <2>4. log'[e].sub = s /\ log'[e].kind # "checkout" /\ log'[e].state = new
    BY <2>3 DEF Emission
  <2>5. ASSUME \A g \in Of(s)' : g <= f \/ e <= g PROVE live[s] = log[f].state
    <3>1. \A g \in Of(s) : g \in Of(s)' /\ ~(e <= g)
      BY <1>1, <1>3 DEF Of
    <3>2. \A g \in Of(s) : g <= f
      BY <2>5, <3>1
    <3> QED BY <2>2, <3>2 DEF LiveSound
  <2>6. log'[e].kind = "deleted" => new.price = live[s].price
    BY DEF Emission
  <2> QED BY <2>2, <2>4, <2>5, <2>6 DEF PairSound
<1>11. ASSUME NEW e \in n + 1 .. Len(log'), NEW f \in n + 1 .. Len(log') PROVE PairSound(e, f)'
  BY <1>1, <1>4 DEF PairSound, Emission
<1> QED
  BY <1>2, <1>5, <1>6, <1>8, <1>9, <1>10, <1>11 DEF LogSound

-----------------------------------------------------------------------------
(* The rows of the instance, as far as the events of a subscription were   *)
(* handled in order and one at a time.                                     *)

\* What was applied is processed, and is in the log.
Accounts ==
  \A e \in Events : /\ applied[e] > 0 <=> ledger[e] = "processed"
                    /\ applied[e] > 0 => e <= Len(log)

\* What a handler has read is still so when it commits.
JobSound(w) ==
  LET job == work[w]
      s == log[job.event].sub
  IN  Busy(w) =>
        /\ log[job.event].kind = "checkout" => \E b \in Of(s) : log[b].state = job.live
        /\ s \notin disordered => job.row = row[s] /\ ledger[job.event] # "processed"

AllProcessed(s) == \A e \in Of(s) : ledger[e] = "processed"

\* Only the deletion of s is left to apply.
DeletionLeft(s, e) ==
  /\ log[e].kind = "deleted" /\ applied[e] = 0
  /\ \A f \in Of(s) \ {e} : ledger[f] = "processed"

(* A canceled row stays so, unless its checkout was handled only after the *)
(* cancellation: then an update may be on its way, in the same period.     *)
CanceledSound(s) ==
  /\ live[s].status = "canceled" /\ live[s].end = row[s].end
  /\ \A e \in Of(s) : Pending(e) =>
       \/ Later(e) \/ log[e].kind = "deleted"
       \/ log[e].kind = "updated" /\ row[s].end = now

RowSound(s) ==
  /\ \A e \in Of(s) : log[e].kind = "checkout" /\ applied[e] = 0 => row[s].status = "none"
  /\ row[s].status # "none" /\ AllProcessed(s) => row[s] = live[s]
  /\ \A e \in Of(s) : row[s].status # "none" /\ DeletionLeft(s, e) =>
       row[s].price = log[e].state.price
  /\ row[s].status = "canceled" => CanceledSound(s)

\* The user of s, who has no other subscription.
PlanSound(s) ==
  /\ row[s].status = "none" => plan[Owner[s]] \notin Listed
  /\ row[s].status # "none" /\ ~Expired(s) =>
       /\ plan[Owner[s]] \in Listed
       /\ row[s].price \in Listed => plan[Owner[s]] = row[s].price
  /\ \A w \in Workers : Busy(w) /\ log[work[w].event].sub = s =>
       /\ row[s].status = "none" => work[w].plan \notin Listed
       /\ row[s].status # "none" /\ ~Expired(s) => work[w].plan = plan[Owner[s]]

Only(s) == SubsOf(Owner[s]) = {s}

Sound ==
  /\ LogSound /\ Accounts
  /\ \A s \in Subs : LiveSound(s)
  /\ \A w \in Workers : JobSound(w)
  /\ \A s \in Subs \ disordered : RowSound(s)
  /\ \A s \in sweep \ disordered : Expired(s)
  /\ \A s \in Subs \ disordered : Only(s) => PlanSound(s)

LEMMA JobInLog ==
  ASSUME Inv, NEW w \in Workers, Busy(w)
  PROVE  /\ work[w].event \in 1 .. Len(log) /\ work[w].event \in Of(log[work[w].event].sub)
         /\ Pending(work[w].event)
BY JobTyped DEF Of, Pending

LEMMA OfTyped ==
  ASSUME Inv, NEW s, NEW e \in Of(s)
  PROVE  /\ e \in 1 .. Len(log) /\ log[e].sub = s /\ s \in Subs /\ log[e].kind \in Kinds
         /\ log[e].state \in State /\ log[e].state.end \in Int /\ e \in Events /\ e \in Nat
BY LogTyped DEF Of

LEMMA EmissionSound ==
  ASSUME Inv, Inv', Sound, NEW s \in Subs, NEW new \in State, Emission(s, new)
  PROVE  Sound'
<1> DEFINE n == Len(log)
<1>1. /\ n \in Nat /\ Len(log') \in {n + 1, n + 2} /\ Len(log') \in Nat
      /\ \A e \in 1 .. n : log'[e] = log[e]
      /\ live \in [Subs -> State] /\ live' = [live EXCEPT ![s] = new]
      /\ unanswered' = unanswered \cup (n + 1 .. Len(log'))
      /\ UNCHANGED <<now, posture, row, plan, ledger, applied, retried, disordered>>
      /\ UNCHANGED <<work, sweep, target>>
  BY DEF Emission, Inv, TypeOK
<1>2. LogSound'
  BY EmissionLog DEF Sound
<1>3. Accounts'
  BY <1>1 DEF Sound, Accounts, Events
<1>4. n + 1 \in Events /\ ledger[n + 1] # "processed"
  <2>1. n + 1 \in 1 .. Len(log')
    BY <1>1
  <2>2. n + 1 \in Events
    <3>1. Inv' => Len(log') <= MaxEvents
      BY DEF Inv, TypeOK
    <3> QED BY <1>1, <2>1, <3>1, BillingAssumption DEF Events
  <2> QED BY <1>1, <2>2 DEF Sound, Accounts
<1>5. /\ n + 1 \in Of(s)' /\ Of(s) \subseteq Of(s)'
      /\ \A e \in Of(s)' : (e \in Of(s) /\ log'[e] = log[e]) \/ e \in n + 1 .. Len(log')
  BY <1>1 DEF Of, Emission
<1>6. ASSUME NEW t \in Subs \ {s}
      PROVE  Of(t)' = Of(t) /\ live'[t] = live[t] /\ \A e \in Of(t) : log'[e] = log[e]
  BY <1>1, <1>6 DEF Of, Emission
<1>7. LiveSound(s)'
  <2>1. live'[s] = new /\ LiveSound(s)
    BY <1>1 DEF Sound
  <2>2. new.status \notin {"none", "open"} /\ new.end <= now'
    BY <1>1 DEF Emission
  <2>3. ASSUME NEW e \in Of(s)', \A f \in Of(s)' : f <= e PROVE log'[e].state = new
    <3>1. e \in n + 1 .. Len(log')
      BY <1>1, <1>5, <2>3 DEF Of
    <3> QED BY <3>1 DEF Emission
  <2>4. log'[n + 1].state = new
    BY <1>1 DEF Emission
  <2>5. ASSUME NEW e \in Of(s)', log'[e].kind = "checkout"
        PROVE  /\ log'[e].state.end <= new.end
               /\ new.status = "past_due" => log'[e].state.end < new.end
    <3>1. CASE e \in n + 1 .. Len(log')
      BY <2>5, <3>1 DEF Emission, State
    <3>2. CASE e \in Of(s) /\ log'[e] = log[e]
      BY <1>1, <2>1, <2>5, <3>2, OfTyped DEF Emission, LiveSound, State
    <3> QED BY <1>5, <3>1, <3>2
  <2> QED BY <1>5, <2>1, <2>2, <2>3, <2>4, <2>5 DEF LiveSound
<1>8. ASSUME NEW t \in Subs \ {s} PROVE LiveSound(t)'
  BY <1>1, <1>6 DEF Sound, LiveSound
<1>9. ASSUME NEW w \in Workers, Busy(w)
      PROVE  /\ log'[work'[w].event] = log[work[w].event]
             /\ Of(log[work[w].event].sub) \subseteq Of(log[work[w].event].sub)'
             /\ \A b \in Of(log[work[w].event].sub) : log'[b] = log[b]
  BY <1>1, <1>9, JobInLog DEF Of
<1>10. ASSUME NEW w \in Workers PROVE JobSound(w)'
  <2>1. SUFFICES ASSUME Busy(w) PROVE JobSound(w)'
    BY <1>1 DEF JobSound, Busy
  <2>2. JobSound(w)
    BY DEF Sound
  <2> QED BY <1>1, <1>9, <2>1, <2>2 DEF JobSound
<1>11. ASSUME NEW e \in 1 .. n PROVE (Pending(e)' <=> Pending(e)) /\ (Later(e) => Later(e)')
  <2>1. Pending(e)' <=> Pending(e)
    BY <1>1 DEF Pending
  <2>2. ASSUME NEW f \in e + 1 .. n PROVE f \in e + 1 .. Len(log') /\ log'[f] = log[f]
    BY <1>1
  <2>3. log'[e] = log[e] /\ applied' = applied
    BY <1>1
  <2>4. Later(e) => Later(e)'
    BY <2>2, <2>3 DEF Later
  <2> QED BY <2>1, <2>4
<1>12. ASSUME NEW t \in Subs \ disordered', t # s PROVE RowSound(t)'
  <2>0. Of(t)' = Of(t) /\ live'[t] = live[t] /\ \A e \in Of(t) : log'[e] = log[e]
    BY <1>6, <1>12
  <2>1. RowSound(t) /\ Of(t) \subseteq 1 .. n
    BY <1>1 DEF Sound, Of
  <2>2. AllProcessed(t)' => AllProcessed(t)
    BY <1>1, <2>0 DEF AllProcessed
  <2>3. \A e \in Of(t) : DeletionLeft(t, e)' => DeletionLeft(t, e)
    BY <1>1, <2>0 DEF DeletionLeft
  <2>4. CanceledSound(t) => CanceledSound(t)'
    BY <1>1, <2>0, <1>11, <2>1 DEF CanceledSound
  <2> QED BY <1>1, <2>0, <2>1, <2>2, <2>3, <2>4 DEF RowSound
<1>13. ASSUME s \notin disordered' PROVE RowSound(s)'
  <2>1. RowSound(s) /\ LiveSound(s)
    BY <1>1, <1>13 DEF Sound
  <2>2. ASSUME NEW e \in Of(s)', log'[e].kind = "checkout", applied'[e] = 0
        PROVE  row'[s].status = "none"
    <3>1. CASE e \in n + 1 .. Len(log')
      BY <1>1, <2>1, <2>2, <3>1 DEF Emission, LiveSound
    <3>2. CASE e \in Of(s) /\ log'[e] = log[e]
      BY <1>1, <2>1, <2>2, <3>2 DEF RowSound
    <3> QED BY <1>5, <3>1, <3>2
  <2>3. ~AllProcessed(s)'
    BY <1>1, <1>4, <1>5 DEF AllProcessed
  <2>4. ASSUME NEW e \in Of(s)', row'[s].status # "none", DeletionLeft(s, e)'
        PROVE  row'[s].price = log'[e].state.price
    <3>1. e = n + 1
      BY <1>1, <1>4, <1>5, <2>4 DEF DeletionLeft
    <3>2. Len(log') = n + 1 /\ new.price = live[s].price /\ log'[e].state = new
      BY <1>1, <2>4, <3>1 DEF Emission, DeletionLeft
    <3>3. AllProcessed(s)
      <4>1. \A f \in Of(s) : f \in Of(s)' \ {e}
        BY <1>1, <1>5, <3>1 DEF Of
      <4> QED BY <1>1, <2>4, <4>1 DEF DeletionLeft, AllProcessed
    <3> QED BY <1>1, <2>1, <2>4, <3>2, <3>3 DEF RowSound
  <2>5. row'[s].status # "canceled"
    BY <1>1, <2>1 DEF RowSound, CanceledSound, Emission
  <2> QED BY <2>2, <2>3, <2>4, <2>5 DEF RowSound
<1>14. \A t \in sweep' \ disordered' : Expired(t)'
  BY <1>1 DEF Sound, Expired
<1>15. ASSUME NEW t \in Subs \ disordered', Only(t)' PROVE PlanSound(t)'
  <2>1. PlanSound(t) /\ \A w \in Workers : Busy(w)' <=> Busy(w)
    BY <1>1, <1>15 DEF Sound, Only, SubsOf, Busy
  <2> QED BY <1>1, <1>9, <2>1 DEF PlanSound, Expired
<1> QED
  BY <1>2, <1>3, <1>7, <1>8, <1>10, <1>12, <1>13, <1>14, <1>15 DEF Sound
\* Nothing becomes pending but by the provider.
LEMMA LogKept ==
  ASSUME LogSound, UNCHANGED <<log, now>>, \A e \in 1 .. Len(log) : Pending(e)' => Pending(e)
  PROVE  LogSound'
BY DEF LogSound, EventSound, PairSound, Of

LEMMA LiveKept ==
  ASSUME NEW s, LiveSound(s), UNCHANGED <<log, now, live>>,
         row'[s].status = row[s].status \/ Of(s) # {}
  PROVE  LiveSound(s)'
BY DEF LiveSound, Of

LEMMA RowKept ==
  ASSUME Inv, NEW s, RowSound(s), UNCHANGED <<log, now>>, row'[s] = row[s],
         live'[s] = live[s] \/ row[s].status = "none",
         \A e \in Of(s) : /\ applied'[e] = applied[e]
                          /\ Pending(e)' => Pending(e)
                          /\ ledger'[e] = "processed" <=> ledger[e] = "processed"
  PROVE  RowSound(s)'
<1>1. Of(s)' = Of(s)
  BY DEF Of
<1>2. AllProcessed(s)' <=> AllProcessed(s)
  BY <1>1 DEF AllProcessed
<1>3. \A e \in Of(s) : DeletionLeft(s, e)' <=> DeletionLeft(s, e)
  BY <1>1 DEF DeletionLeft
<1>4. \A e \in Of(s) : Later(e)' <=> Later(e)
  <2>1. \A e \in Of(s) : \A f \in e + 1 .. Len(log) :
          log[f].sub = log[e].sub => applied'[f] = applied[f]
    <3>1. \A e \in Of(s) : e + 1 .. Len(log) \subseteq 1 .. Len(log)
      BY OfTyped, LogTyped
    <3> QED BY <3>1 DEF Of
  <2> QED BY <2>1 DEF Later
<1>5. row[s].status # "none" /\ CanceledSound(s) => CanceledSound(s)'
  <2>1. ASSUME row[s].status # "none" PROVE live'[s] = live[s]
    BY <2>1
  <2> QED BY <1>1, <1>4, <2>1 DEF CanceledSound
<1> QED
  BY <1>1, <1>2, <1>3, <1>5 DEF RowSound

LEMMA PeriodSound ==
  ASSUME Inv, Sound, PeriodEnds
  PROVE  Sound'
<1>1. /\ UNCHANGED <<live, log, row, plan, ledger, applied, disordered, work, sweep>>
      /\ now' = now + 1 /\ now \in Nat /\ sweep = {} /\ unanswered' = {}
      /\ \A w \in Workers : ~Busy(w)
  BY DEF PeriodEnds, tables, history, sweeper, Inv, TypeOK
<1>2. \A e \in 1 .. Len(log) : ~Pending(e)'
  BY <1>1 DEF Pending, Busy
<1>3. \A s : Of(s)' = Of(s)
  BY <1>1 DEF Of
<1>4. LogSound'
  <2>1. ASSUME NEW e \in 1 .. Len(log) PROVE EventSound(e)'
    <3>1. log[e].state.end <= now'
      BY <1>1, LogTyped DEF Sound, LogSound, EventSound
    <3> QED BY <1>1, <1>2, <1>3, <3>1 DEF Sound, LogSound, EventSound
  <2>2. ASSUME NEW e \in 1 .. Len(log), NEW f \in 1 .. Len(log) PROVE PairSound(e, f)'
    BY <1>1, <1>3 DEF Sound, LogSound, PairSound
  <2> QED BY <1>1, <2>1, <2>2 DEF LogSound
<1>5. ASSUME NEW s \in Subs PROVE LiveSound(s)'
  <2>1. live[s].end \in Int /\ live[s].end <= now
    BY DEF Sound, LiveSound, Inv, TypeOK, State
  <2>2. live'[s].end <= now'
    BY <1>1, <2>1
  <2> QED BY <1>1, <1>3, <2>2 DEF Sound, LiveSound
<1>6. ASSUME NEW s \in Subs \ disordered' PROVE RowSound(s)'
  <2>1. Of(s) \subseteq 1 .. Len(log) /\ RowSound(s)
    BY <1>1 DEF Of, Sound
  <2>2. CanceledSound(s) => CanceledSound(s)'
    BY <1>1, <1>2, <1>3, <2>1 DEF CanceledSound
  <2> QED BY <1>1, <1>3, <2>1, <2>2 DEF RowSound, AllProcessed, DeletionLeft
<1>7. ASSUME NEW s \in Subs \ disordered', Only(s)' PROVE PlanSound(s)'
  <2>1. PlanSound(s) /\ row[s].end \in Int
    BY <1>1, <1>7 DEF Sound, Only, SubsOf, Inv, TypeOK, State
  <2>2. Expired(s) => Expired(s)'
    BY <1>1, <2>1 DEF Expired
  <2> QED BY <1>1, <2>1, <2>2 DEF PlanSound, Busy
<1> QED
  BY <1>1, <1>4, <1>5, <1>6, <1>7 DEF Sound, Accounts, JobSound, Busy

(* A step of the instance that leaves the rows, the ledger and the log as  *)
(* they are.                                                               *)
LEMMA QuietSound ==
  ASSUME Inv, Sound, UNCHANGED <<log, now, live, row, applied, disordered>>,
         \A e \in 1 .. Len(log) : Pending(e)' => Pending(e),
         \A e \in Events : ledger'[e] = "processed" <=> ledger[e] = "processed",
         \A w \in Workers : Busy(w)' => JobSound(w)',
         \A s \in sweep' \ disordered : Expired(s),
         \A s \in Subs \ disordered : Only(s) => PlanSound(s)'
  PROVE  Sound'
<1>1. LogSound'
  BY LogKept DEF Sound
<1>2. Accounts'
  BY DEF Sound, Accounts
<1>3. \A s \in Subs : LiveSound(s)'
  BY LiveKept DEF Sound
<1>4. \A w \in Workers : JobSound(w)'
  BY DEF JobSound
<1>5. ASSUME NEW s \in Subs \ disordered' PROVE RowSound(s)'
  <2>1. \A e \in Of(s) : e \in 1 .. Len(log) /\ e \in Events
    BY LogTyped DEF Of
  <2> QED BY <2>1, RowKept DEF Sound
<1>6. \A s \in sweep' \ disordered' : Expired(s)'
  BY DEF Expired
<1>7. \A s \in Subs \ disordered' : Only(s)' => PlanSound(s)'
  BY DEF Only, SubsOf
<1> QED
  BY <1>1, <1>2, <1>3, <1>4, <1>5, <1>6, <1>7 DEF Sound

LEMMA InstanceSound ==
  ASSUME Inv, Sound,
         \/ \E m \in Postures : SetAccessModel(m)
         \/ \E e \in unanswered : Duplicate(e)
         \/ SweepReads \/ SweepWrites \/ UNCHANGED vars
  PROVE  Sound'
<1>1. /\ UNCHANGED <<log, now, live, row, ledger, applied, disordered, work>>
      /\ unanswered' \subseteq unanswered
  BY DEF SetAccessModel, Duplicate, Answered, SweepReads, SweepWrites, vars, provider, tables,
         history, sweeper
<1>2. \A e \in 1 .. Len(log) : Pending(e)' => Pending(e)
  BY <1>1 DEF Pending
<1>3. \A w \in Workers : JobSound(w)'
  BY <1>1 DEF Sound, JobSound, Busy, Of
<1>4. \A s \in sweep' \ disordered : Expired(s)
  BY DEF Sound, SetAccessModel, Duplicate, SweepReads, SweepWrites, vars, sweeper
<1>5. ASSUME NEW s \in Subs \ disordered, Only(s) PROVE PlanSound(s)'
  <2>1. PlanSound(s) /\ Owner[s] \in Users /\ plan \in [Users -> Plans] /\ row[s] \in State
    BY <1>5, BillingAssumption DEF Sound, Inv, TypeOK
  <2>2. Expired(s)' <=> Expired(s)
    BY <1>1 DEF Expired
  <2>3. CASE plan' = plan
    BY <1>1, <2>1, <2>2, <2>3 DEF PlanSound, Busy
  <2>4. CASE \E m \in Postures : SetAccessModel(m)
    <3>1. \/ plan'[Owner[s]] = plan[Owner[s]]
          \/ plan[Owner[s]] = "none" /\ plan'[Owner[s]] = "free"
      BY <2>1, <2>4 DEF SetAccessModel
    <3>2. "free" \notin Listed /\ "none" \notin Listed
      BY BillingAssumption
    <3> QED BY <1>1, <2>1, <2>2, <3>1, <3>2 DEF PlanSound, Busy
  <2>5. CASE SweepWrites
    <3>1. CASE s \in sweep
      <4>1. Expired(s) /\ row[s].status # "none"
        BY <3>1 DEF Sound, Expired
      <4> QED BY <1>1, <2>2, <4>1 DEF PlanSound
    <3>2. CASE s \notin sweep
      <4>1. ~\E t \in sweep : Owner[t] = Owner[s]
        BY <1>5, <3>2 DEF Only, SubsOf, Inv, TypeOK
      <4>2. plan'[Owner[s]] = plan[Owner[s]]
        BY <2>1, <2>5, <4>1 DEF SweepWrites
      <4> QED BY <1>1, <2>1, <2>2, <4>2 DEF PlanSound, Busy
    <3> QED BY <3>1, <3>2
  <2>6. (\E m \in Postures : SetAccessModel(m)) \/ SweepWrites \/ plan' = plan
    BY DEF Duplicate, SweepReads, vars, tables
  <2> QED BY <2>3, <2>4, <2>5, <2>6
<1> QED
  BY <1>1, <1>2, <1>3, <1>4, <1>5, QuietSound

LEMMA CheckoutSound ==
  ASSUME Inv, Sound, NEW s \in Subs, NEW p \in Prices, CreateCheckout(s, p)
  PROVE  Sound'
<1>1. /\ UNCHANGED <<log, now, unanswered, row, plan, ledger, applied, disordered, work, sweep>>
      /\ live[s].status = "none" /\ live \in [Subs -> State]
      /\ live' = [live EXCEPT ![s].status = "open", ![s].price = p]
  BY DEF CreateCheckout, tables, history, sweeper, Inv, TypeOK
<1>2. live'[s].status = "open" /\ live'[s].end = live[s].end /\ Of(s) = {} /\ row[s].status = "none"
  BY <1>1 DEF State, Sound, LiveSound
<1>3. \A t \in Subs \ {s} : live'[t] = live[t]
  BY <1>1
<1>4. LogSound'
  BY <1>1, LogKept DEF Sound, Pending
<1>5. ASSUME NEW t \in Subs PROVE LiveSound(t)'
  <2>1. LiveSound(t) /\ Of(t)' = Of(t)
    BY <1>1 DEF Sound, Of
  <2>2. CASE t = s
    BY <1>1, <1>2, <2>1, <2>2 DEF LiveSound
  <2>3. CASE t # s
    BY <1>1, <1>3, <2>1, <2>3 DEF LiveSound
  <2> QED BY <2>2, <2>3
<1>6. ASSUME NEW t \in Subs \ disordered' PROVE RowSound(t)'
  <2>1. RowSound(t) /\ (live'[t] = live[t] \/ row[t].status = "none")
    BY <1>1, <1>2, <1>3 DEF Sound
  <2>2. \A e : Pending(e)' <=> Pending(e)
    BY <1>1 DEF Pending
  <2> QED BY <1>1, <2>1, <2>2, RowKept
<1>7. Accounts' /\ \A w \in Workers : JobSound(w)'
  BY <1>1 DEF Sound, Accounts, JobSound, Busy, Of
<1>8. \A t \in sweep' \ disordered' : Expired(t)'
  BY <1>1 DEF Sound, Expired
<1>9. \A t \in Subs \ disordered' : Only(t)' => PlanSound(t)'
  BY <1>1 DEF Sound, Only, SubsOf, PlanSound, Expired, Busy
<1> QED
  BY <1>4, <1>5, <1>6, <1>7, <1>8, <1>9 DEF Sound

\* What is in hand afterwards was in hand before, but for w.
LEMMA ReceiveSound ==
  ASSUME Inv, Sound, NEW w \in Workers, NEW e \in unanswered, Receive(w, e)
  PROVE  Sound'
<1> DEFINE s == log[e].sub
<1>1. /\ UNCHANGED <<log, now, live, row, plan, ledger, applied, disordered, unanswered, sweep>>
      /\ ledger[e] # "processed" /\ ~Busy(w) /\ work \in [Workers -> Job]
      /\ e \in 1 .. Len(log)
  BY DEF Receive, provider, tables, history, sweeper, Inv, TypeOK, InLog
<1>2. s \in Subs /\ e \in Of(s) /\ e \in Events /\ e # 0
  BY <1>1, LogTyped DEF Of
<1>3. PICK answer \in Retrieved(e) :
        work' = [work EXCEPT ![w] =
                   [event |-> e, fresh |-> ledger[e] = "none", row |-> row[log[e].sub],
                    plan |-> plan[Owner[log[e].sub]], live |-> answer]]
  BY DEF Receive
<1>4. /\ work'[w].event = e /\ work'[w].row = row[s] /\ work'[w].plan = plan[Owner[s]]
      /\ work'[w].live = answer
      /\ \A v \in Workers \ {w} : work'[v] = work[v]
  BY <1>1, <1>3
<1>5. log[e].kind = "checkout" => answer = live[s]
  BY DEF Retrieved
<1>6. \A d \in 1 .. Len(log) : Pending(d)' => Pending(d)
  BY <1>1, <1>4 DEF Pending
<1>7. ASSUME NEW v \in Workers PROVE JobSound(v)'
  <2>1. CASE v = w
    <3>1. \E b \in Of(s) : log[b].state = live[s]
      BY <1>2 DEF Sound, LiveSound
    <3> QED BY <1>1, <1>2, <1>4, <1>5, <2>1, <3>1 DEF JobSound, Of
  <2>2. CASE v # w
    BY <1>1, <1>4, <2>2 DEF Sound, JobSound, Busy, Of
  <2> QED BY <2>1, <2>2
<1>8. ASSUME NEW t \in Subs \ disordered, Only(t) PROVE PlanSound(t)'
  <2>1. PlanSound(t) /\ (Expired(t)' <=> Expired(t))
    BY <1>1, <1>8 DEF Sound, Expired
  <2>2. ASSUME NEW v \in Workers, Busy(v)', log[work'[v].event].sub = t
        PROVE  /\ row[t].status = "none" => work'[v].plan \notin Listed
               /\ row[t].status # "none" /\ ~Expired(t) => work'[v].plan = plan[Owner[t]]
    <3>1. CASE v = w
      BY <1>4, <2>1, <2>2, <3>1 DEF PlanSound
    <3>2. CASE v # w
      BY <1>4, <2>1, <2>2, <3>2 DEF PlanSound, Busy
    <3> QED BY <3>1, <3>2
  <2> QED BY <1>1, <2>1, <2>2 DEF PlanSound
<1> QED
  BY <1>1, <1>6, <1>7, <1>8, QuietSound DEF Sound

LEMMA FailSound ==
  ASSUME Inv, Sound, NEW w \in Workers, Fail(w)
  PROVE  Sound'
<1> DEFINE e == work[w].event
<1>1. /\ UNCHANGED <<log, now, live, row, plan, applied, disordered, unanswered, sweep>>
      /\ work' = [work EXCEPT ![w] = NoJob] /\ work \in [Workers -> Job] /\ Busy(w)
      /\ ledger' = ledger \/ ledger' = [ledger EXCEPT ![e] = IF @ = "none" THEN "failed" ELSE @]
      /\ ledger \in [Events -> {"none", "failed", "processed"}]
  BY DEF Fail, provider, sweeper, Inv, TypeOK
<1>2. \A d \in Events : ledger'[d] = "processed" <=> ledger[d] = "processed"
  BY <1>1
<1>3. work'[w].event = 0 /\ \A v \in Workers \ {w} : work'[v] = work[v]
  BY <1>1 DEF NoJob
<1>4. \A d \in 1 .. Len(log) : Pending(d)' => Pending(d)
  BY <1>1, <1>3 DEF Pending
<1>5. ASSUME NEW v \in Workers, Busy(v)' PROVE JobSound(v)'
  <2>1. v # w /\ work'[v] = work[v] /\ Busy(v)
    BY <1>3, <1>5 DEF Busy
  <2>2. work[v].event \in Events
    BY <2>1, JobTyped
  <2> QED BY <1>1, <1>2, <2>1, <2>2 DEF Sound, JobSound, Of
<1>6. ASSUME NEW t \in Subs \ disordered, Only(t) PROVE PlanSound(t)'
  <2>1. \A v \in Workers : Busy(v)' => Busy(v) /\ work'[v] = work[v]
    BY <1>3 DEF Busy
  <2> QED BY <1>1, <1>6, <2>1 DEF Sound, PlanSound, Expired
<1> QED
  BY <1>1, <1>2, <1>4, <1>5, <1>6, QuietSound DEF Sound

-----------------------------------------------------------------------------
(* A commit.                                                               *)

LEMMA MergedSame ==
  ASSUME NEW r \in State, NEW new \in State
  PROVE  Merged(r, r, new) = new
<1>1. DOMAIN new = {"status", "price", "end"} /\ DOMAIN r = {"status", "price", "end"}
  BY DEF State
<1>2. \A c \in DOMAIN new : Merged(r, r, new)[c] = new[c]
  BY DEF Merged
<1>3. Merged(r, r, new) = [c \in DOMAIN new |-> Merged(r, r, new)[c]]
  BY DEF Merged
<1>4. new = [c \in DOMAIN new |-> new[c]]
  BY DEF State
<1>5. [c \in DOMAIN new |-> Merged(r, r, new)[c]] = [c \in DOMAIN new |-> new[c]]
  BY <1>2
<1> QED
  BY <1>3, <1>4, <1>5

\* What a commit of the event e of s writes.
LEMMA CommitIs ==
  ASSUME Inv, NEW w \in Workers, Commit(w), NEW e, e = work[w].event, NEW s, s = log[e].sub
  PROVE  /\ e \in Of(s) /\ s \in Subs /\ Pending(e) /\ Busy(w) /\ e \in Events
         /\ UNCHANGED <<log, now, live, retried, sweep>>
         /\ row' = [row EXCEPT ![s] = Merged(@, work[w].row, Outcome(work[w]).row)]
         /\ plan' = [plan EXCEPT ![Owner[s]] =
                       IF Outcome(work[w]).plan = work[w].plan THEN @ ELSE Outcome(work[w]).plan]
         /\ ledger' = [ledger EXCEPT ![e] = "processed"]
         /\ applied' = [applied EXCEPT ![e] = @ + 1]
         /\ disordered' = IF Later(e) \/ Overlapped(w) THEN disordered \cup {s}
                          ELSE disordered
         /\ work'[w].event = 0 /\ \A v \in Workers \ {w} : work'[v] = work[v]
         /\ unanswered' = unanswered \ {e}
<1>1. Busy(w) /\ work \in [Workers -> Job]
  BY DEF Commit, Inv, TypeOK
<1>2. e \in Of(s) /\ s \in Subs /\ Pending(e) /\ e \in Events
  BY <1>1, JobInLog, JobTyped
<1>3. Overtaken(work[w]) <=> Later(e)
  BY DEF Overtaken, Later
<1> QED
  BY <1>1, <1>2, <1>3 DEF Commit, Answered, provider, sweeper, NoJob

(* In order and one at a time: the job is the only one of s, what it read  *)
(* is so, and no later event was applied.                                  *)
Orderly(w, e, s) ==
  /\ s \notin disordered /\ ~Later(e) /\ ~Pending(e)'
  /\ work[w].row = row[s] /\ applied[e] = 0 /\ ledger[e] # "processed"
  /\ row'[s] = Outcome(work[w]).row
  /\ \A f \in Of(s) : Pending(f)' => Pending(f)
  /\ \A f \in Of(s) \ {e} : applied'[f] = applied[f] /\ ledger'[f] = ledger[f]
  /\ \A f \in Of(s) : f > e => ledger[f] # "processed"
  /\ \A f \in Of(s) : f < e \/ Later(f) => Later(f)'
  /\ applied'[e] > 0
  /\ \A v \in Workers : Busy(v)' => log[work'[v].event].sub # s

LEMMA CommitOrderly ==
  ASSUME Inv, Sound, NEW w \in Workers, Commit(w), NEW e, e = work[w].event,
         NEW s, s = log[e].sub, s \notin disordered'
  PROVE  Orderly(w, e, s)
<1>1. /\ e \in Of(s) /\ s \in Subs /\ Pending(e) /\ Busy(w) /\ e \in Events
      /\ UNCHANGED <<log, now, live, retried, sweep>>
      /\ row' = [row EXCEPT ![s] = Merged(@, work[w].row, Outcome(work[w]).row)]
      /\ ledger' = [ledger EXCEPT ![e] = "processed"]
      /\ applied' = [applied EXCEPT ![e] = @ + 1]
      /\ disordered' = IF Later(e) \/ Overlapped(w) THEN disordered \cup {s}
                       ELSE disordered
      /\ work'[w].event = 0 /\ \A v \in Workers \ {w} : work'[v] = work[v]
      /\ unanswered' = unanswered \ {e}
  BY CommitIs
<1>2. s \notin disordered /\ ~Later(e) /\ ~Overlapped(w)
  BY <1>1
<1>3. work[w].row = row[s] /\ ledger[e] # "processed"
  BY <1>1, <1>2 DEF Sound, JobSound
<1>4. applied[e] = 0 /\ applied \in [Events -> Nat] /\ ledger \in [Events -> {"none", "failed", "processed"}]
  BY <1>1, <1>3 DEF Sound, Accounts, Inv, TypeOK
<1>5. row'[s] = Outcome(work[w]).row
  <2>1. row[s] \in State /\ Outcome(work[w]).row \in State /\ row \in [Subs -> State]
    BY <1>1, OutcomeTyped DEF Inv, TypeOK
  <2> QED BY <1>1, <1>3, <2>1, MergedSame
<1>6. \A v \in Workers \ {w} : Busy(v) => work[v].event # e /\ log[work[v].event].sub # s
  BY <1>2 DEF Overlapped
<1>7. ~Pending(e)'
  <2>1. e # 0
    BY <1>1 DEF Busy
  <2>2. \A v \in Workers : work'[v].event # e
    BY <1>1, <1>6, <2>1 DEF Busy
  <2> QED BY <1>1, <2>2 DEF Pending
<1>8. ASSUME NEW f \in Of(s), Pending(f)' PROVE Pending(f)
  <2>1. f # 0
    BY OfTyped, LogTyped DEF Of
  <2> QED BY <1>1, <1>8, <2>1 DEF Pending
<1>9. \A f \in Of(s) : f \in Events /\ f \in 1 .. Len(log) /\ log[f].sub = s
  BY OfTyped
<1>10. \A f \in Of(s) \ {e} : applied'[f] = applied[f] /\ ledger'[f] = ledger[f]
  BY <1>1, <1>4, <1>9
<1>11. \A f \in Of(s) : f > e => ledger[f] # "processed"
  <2>1. \A f \in Of(s) : f > e => f \in e + 1 .. Len(log)
    BY <1>1, <1>9, LogTyped
  <2>2. \A f \in Of(s) : f > e => ~(applied[f] > 0)
    BY <1>2, <1>9, <2>1 DEF Later
  <2> QED BY <1>9, <2>2 DEF Sound, Accounts
<1>12. applied'[e] > 0
  BY <1>1, <1>4
<1>13. ASSUME NEW f \in Of(s), f < e \/ Later(f) PROVE Later(f)'
  <2>1. Len(log) \in Nat /\ e \in 1 .. Len(log) /\ f \in 1 .. Len(log)
    BY <1>1, <1>9, LogTyped
  <2>2. CASE f < e
    <3>1. e \in f + 1 .. Len(log)
      BY <2>1, <2>2
    <3> QED BY <1>1, <1>9, <1>12, <3>1 DEF Later
  <2>3. CASE Later(f)
    <3>1. PICK g \in f + 1 .. Len(log) : applied[g] > 0 /\ log[g].sub = log[f].sub
      BY <2>3 DEF Later
    <3>2. g \in Events /\ g \in 1 .. Len(log)
      BY <2>1, LogTyped
    <3>3. applied'[g] > 0
      BY <1>1, <1>4, <3>1, <3>2
    <3> QED BY <1>1, <3>1, <3>3 DEF Later
  <2> QED BY <1>13, <2>2, <2>3
<1>14. \A v \in Workers : Busy(v)' => log[work'[v].event].sub # s
  BY <1>1, <1>6 DEF Busy
<1> QED
  BY <1>2, <1>3, <1>4, <1>5, <1>7, <1>8, <1>10, <1>11, <1>12, <1>13, <1>14 DEF Orderly

\* What each handler leaves behind.
LEMMA OutcomeIs ==
  ASSUME Inv, Sound, NEW w \in Workers, Commit(w), NEW e, e = work[w].event,
         NEW s, s = log[e].sub, Orderly(w, e, s),
         NEW new, new = Outcome(work[w])
  PROVE  \/ row[s].status = "none" /\ new.row = row[s] /\ new.plan = work[w].plan
         \/ /\ log[e].kind = "checkout" /\ row[s].status = "none"
            /\ work[w].live.price \in Listed
            /\ new.row = work[w].live /\ new.plan = work[w].live.price
         \/ /\ log[e].kind = "updated" /\ row[s].status # "none"
            /\ new.row = log[e].state
            /\ new.plan = IF log[e].state.price # row[s].price /\ log[e].state.price \in Listed
                          THEN log[e].state.price ELSE work[w].plan
         \/ /\ log[e].kind = "deleted" /\ row[s].status # "none"
            /\ new.row.status = "canceled" /\ new.row.end = log[e].state.end
            /\ new.row.price = row[s].price /\ new.row \in State /\ new.plan = work[w].plan
         \/ /\ log[e].kind \in {"paid", "failed"} /\ row[s].status # "none"
            /\ new.row.price = row[s].price /\ new.plan = work[w].plan
            /\ new.row.status \in {row[s].status, "past_due"}
<1>1. /\ e \in Of(s) /\ log[e].kind \in Kinds /\ log[e].state \in State /\ work[w].row = row[s]
      /\ row[s] \in State /\ work[w].live \in State /\ s \notin disordered
      /\ applied[e] = 0 /\ s \in Subs
  BY CommitIs, OfTyped, JobTyped DEF Orderly, Inv, TypeOK, Job
<1> DEFINE job == work[w]
<1>2. log[e].kind = "checkout" => row[s].status = "none"
  BY <1>1 DEF Sound, RowSound
<1>3. job.event = e /\ job.row = row[s]
  BY <1>1
<1> HIDE DEF job
<1>4. Kept(job).row = row[s] /\ Kept(job).plan = job.plan
  BY <1>3 DEF Kept
<1>5. CASE log[e].kind = "checkout"
  <2>1. Outcome(job) = CheckoutCompleted(job)
    BY <1>3, <1>5 DEF Outcome
  <2> QED BY <1>2, <1>4, <1>5, <2>1 DEF CheckoutCompleted, job
<1>6. CASE log[e].kind # "checkout" /\ row[s].status = "none"
  <2>1. Outcome(job) = Kept(job)
    BY <1>3, <1>6 DEF Outcome
  <2> QED BY <1>4, <1>6, <2>1 DEF job
<1>7. CASE log[e].kind = "updated" /\ row[s].status # "none"
  <2>1. Outcome(job) = SubscriptionUpdated(job)
    BY <1>3, <1>7 DEF Outcome
  <2> QED BY <1>3, <1>7, <2>1 DEF SubscriptionUpdated, job
<1>8. CASE log[e].kind = "deleted" /\ row[s].status # "none"
  <2>1. Outcome(job) = SubscriptionDeleted(job)
    BY <1>3, <1>8 DEF Outcome
  <2>2. /\ Outcome(job).row = [row[s] EXCEPT !.status = "canceled", !.end = log[e].state.end]
        /\ Outcome(job).plan = job.plan
    BY <1>3, <2>1 DEF SubscriptionDeleted
  <2>3. /\ Outcome(job).row.status = "canceled" /\ Outcome(job).row.end = log[e].state.end
        /\ Outcome(job).row.price = row[s].price /\ Outcome(job).row \in State
    BY <1>1, <2>2 DEF State, Status
  <2> QED BY <1>8, <2>2, <2>3 DEF job
<1>9. CASE log[e].kind = "paid" /\ row[s].status # "none"
  <2>1. Outcome(job) = InvoicePaid(job)
    BY <1>3, <1>9 DEF Outcome
  <2>2. /\ Outcome(job).row = [row[s] EXCEPT !.end = job.live.end]
        /\ Outcome(job).plan = job.plan
    BY <1>3, <2>1 DEF InvoicePaid
  <2>3. Outcome(job).row.price = row[s].price /\ Outcome(job).row.status = row[s].status
    BY <1>1, <2>2 DEF State
  <2> QED BY <1>9, <2>2, <2>3 DEF job
<1>10. CASE log[e].kind = "failed" /\ row[s].status # "none"
  <2>1. Outcome(job) = InvoiceFailed(job)
    BY <1>3, <1>10 DEF Outcome
  <2>2. /\ Outcome(job).row = [row[s] EXCEPT !.status = "past_due"]
        /\ Outcome(job).plan = job.plan
    BY <1>3, <2>1 DEF InvoiceFailed
  <2>3. Outcome(job).row.price = row[s].price /\ Outcome(job).row.status = "past_due"
    BY <1>1, <2>2 DEF State
  <2> QED BY <1>10, <2>2, <2>3 DEF job
<1> QED
  BY <1>1, <1>5, <1>6, <1>7, <1>8, <1>9, <1>10 DEF Kinds, job

\* An event handled last of all is what the provider says.
LEMMA LastIsLive ==
  ASSUME Inv, Sound, NEW s \in Subs, NEW e \in Of(s)
  PROVE  /\ (\A f \in Of(s) : f <= e) => log[e].state = live[s]
         /\ log[e].kind = "deleted" =>
              (\A f \in Of(s) : f <= e) /\ log[e].state = live[s] /\ live[s].status = "canceled"
<1>1. LiveSound(s) /\ EventSound(e) /\ \A f \in Of(s) : PairSound(e, f)
  BY OfTyped DEF Sound, LogSound
<1>2. \A f \in Of(s) : log[f].sub = log[e].sub
  BY OfTyped
<1> QED
  BY <1>1, <1>2 DEF LiveSound, EventSound, PairSound

\* The deletion leaves the price as the event before it told.
LEMMA DeletionPrice ==
  ASSUME Inv, Sound, NEW s \in Subs, NEW e \in Of(s), NEW f \in Of(s), f < e,
         log[e].kind = "deleted", \A g \in Of(s) : g <= f \/ e <= g
  PROVE  log[e].state.price = log[f].state.price
BY OfTyped DEF Sound, LogSound, PairSound

LEMMA CommitRow ==
  ASSUME Inv, Sound, NEW w \in Workers, Commit(w), NEW e, e = work[w].event,
         NEW s, s = log[e].sub, Orderly(w, e, s)
  PROVE  RowSound(s)'
<1> DEFINE new == Outcome(work[w])
<1>1. /\ e \in Of(s) /\ s \in Subs /\ Pending(e) /\ UNCHANGED <<log, now, live>>
      /\ Of(s)' = Of(s) /\ row[s] \in State /\ now \in Int
  BY CommitIs DEF Of, Inv, TypeOK
<1>2. /\ row'[s] = new.row /\ ~Later(e) /\ ~Pending(e)'
      /\ RowSound(s) /\ LiveSound(s)
      /\ applied[e] = 0 /\ applied'[e] > 0
      /\ \A f \in Of(s) : Pending(f)' => Pending(f)
      /\ \A f \in Of(s) \ {e} : applied'[f] = applied[f] /\ ledger'[f] = ledger[f]
      /\ \A f \in Of(s) : f > e => ledger[f] # "processed"
      /\ \A f \in Of(s) : f < e \/ Later(f) => Later(f)'
  BY <1>1 DEF Orderly, Sound
<1>3. \A f \in Of(s) : /\ f \in Nat /\ log[f].sub = s /\ EventSound(f)
                       /\ \A g \in Of(s) : PairSound(f, g)
                       /\ log[f].state \in State /\ log[f].state.end \in Int
                       /\ log[f].kind \in Kinds
  BY OfTyped DEF Sound, LogSound
<1>4. ASSUME AllProcessed(s)'
      PROVE  /\ \A f \in Of(s) : f <= e
             /\ \A f \in Of(s) \ {e} : ledger[f] = "processed"
             /\ log[e].state = live[s]
  <2>1. \A f \in Of(s) \ {e} : ledger[f] = "processed"
    BY <1>1, <1>2, <1>4 DEF AllProcessed
  <2>2. \A f \in Of(s) : f <= e
    BY <1>1, <1>2, <1>3, <2>1
  <2> QED BY <1>1, <2>1, <2>2, LastIsLive
<1>5. ASSUME NEW f \in Of(s), DeletionLeft(s, f)'
      PROVE  /\ f # e /\ e < f /\ log[f].kind = "deleted"
             /\ \A g \in Of(s) : g <= e \/ f <= g
             /\ log[f].state.price = log[e].state.price
             /\ log[e].kind \notin {"paid", "failed", "deleted"}
             /\ log[e].kind = "checkout" => \A g \in Of(s) : g = e \/ g = f
  <2>1. f # e /\ log[f].kind = "deleted" /\ \A g \in Of(s) \ {f, e} : ledger[g] = "processed"
    BY <1>1, <1>2, <1>5 DEF DeletionLeft
  <2>2. \A g \in Of(s) : g <= f
    BY <1>1, <2>1, LastIsLive
  <2>3. e < f
    BY <1>1, <1>3, <2>1, <2>2
  <2>4. \A g \in Of(s) : g <= e \/ f <= g
    BY <1>1, <1>2, <1>3, <2>1, <2>2
  <2>5. log[f].state.price = log[e].state.price
    BY <1>1, <2>1, <2>3, <2>4, DeletionPrice
  <2>6. log[e].kind \notin {"paid", "failed"}
    <3>1. SUFFICES ASSUME log[e].kind \in {"paid", "failed"} PROVE FALSE
      OBVIOUS
    <3>2. e + 1 \in Of(s) /\ log[e + 1].kind = "updated"
      BY <1>1, <1>3, <3>1 DEF EventSound
    <3>3. e + 1 # f /\ e + 1 > e /\ e + 1 # e
      BY <1>1, <1>3, <2>1, <3>2
    <3> QED BY <1>2, <2>1, <3>2, <3>3
  <2>7. log[e].kind # "deleted"
    <3>1. log[e].kind = "deleted" => f <= e
      BY <1>1, LastIsLive
    <3> QED BY <1>1, <1>3, <2>3, <3>1
  <2>8. log[e].kind = "checkout" => \A g \in Of(s) : g = e \/ g = f
    <3>1. log[e].kind = "checkout" => \A g \in Of(s) : e <= g
      BY <1>1, <1>3 DEF PairSound
    <3> QED BY <1>1, <1>3, <2>2, <2>4, <3>1
  <2> QED BY <2>1, <2>3, <2>4, <2>5, <2>6, <2>7, <2>8
<1>6. ASSUME row'[s].status # "none" /\ AllProcessed(s)' => row'[s] = live'[s],
             row'[s].status # "none" =>
               \A f \in Of(s) : DeletionLeft(s, f)' => row'[s].price = log[f].state.price,
             row'[s].status = "canceled" => CanceledSound(s)',
             log[e].kind # "checkout" /\ row[s].status = "none" => row'[s].status = "none"
      PROVE  RowSound(s)'
  <2>1. ASSUME NEW f \in Of(s), log[f].kind = "checkout", applied'[f] = 0
        PROVE  row'[s].status = "none"
    <3>1. f # e /\ applied[f] = 0 /\ row[s].status = "none"
      BY <1>2, <2>1 DEF RowSound
    <3>2. log[e].kind # "checkout"
      <4>1. log[e].kind = "checkout" => e <= f /\ f <= e
        BY <1>1, <1>3, <2>1 DEF PairSound
      <4> QED BY <1>1, <1>3, <3>1, <4>1
    <3> QED BY <1>6, <3>1, <3>2
  <2> QED BY <1>1, <1>6, <2>1 DEF RowSound
<1> HIDE DEF new
<1>7. CASE row[s].status = "none" /\ new.row = row[s]
  BY <1>2, <1>6, <1>7
<1>8. CASE log[e].kind = "checkout" /\ row[s].status = "none" /\ new.row = work[w].live
  <2>1. PICK b \in Of(s) : log[b].state = work[w].live
    BY <1>1, <1>8, CommitIs DEF Sound, JobSound
  <2>2. row'[s] = log[b].state /\ \A g \in Of(s) : e <= g
    BY <1>1, <1>2, <1>3, <1>8, <2>1 DEF PairSound
  <2>3. AllProcessed(s)' => row'[s] = live'[s]
    <3>1. AllProcessed(s)' => b = e
      BY <1>1, <1>3, <1>4, <2>2
    <3> QED BY <1>1, <1>4, <2>2, <3>1
  <2>4. \A f \in Of(s) : DeletionLeft(s, f)' => row'[s].price = log[f].state.price
    BY <1>5, <1>8, <2>2
  <2>5. ASSUME row'[s].status = "canceled" PROVE CanceledSound(s)'
    <3>1. log[b].kind = "deleted"
      BY <1>3, <2>2, <2>5 DEF EventSound
    <3>2. live[s] = row'[s] /\ live[s].status = "canceled"
      BY <1>1, <2>2, <3>1, LastIsLive
    <3>3. log[e].state.end = now /\ log[e].state.end <= log[b].state.end /\ log[b].state.end <= now
      BY <1>1, <1>3, <1>8 DEF EventSound, PairSound
    <3>4. row'[s].end = now
      BY <1>1, <1>3, <2>2, <3>3
    <3>5. ASSUME NEW f \in Of(s), Pending(f)'
          PROVE  log[f].kind \in {"deleted", "updated"}
      <4>1. f # e /\ log[f].state.end <= now
        BY <1>2, <1>3, <3>5 DEF EventSound
      <4>2. log[f].kind # "checkout"
        <5>1. log[f].kind = "checkout" => f <= e /\ e <= f
          BY <1>1, <1>3, <2>2 DEF PairSound
        <5> QED BY <1>1, <1>3, <4>1, <5>1
      <4>3. log[f].kind \notin {"paid", "failed"}
        <5>1. log[f].kind \in {"paid", "failed"} => log[e].state.end < log[f].state.end
          BY <1>1, <1>3, <1>8 DEF PairSound
        <5> QED BY <1>1, <1>3, <3>3, <4>1, <5>1
      <4> QED BY <1>3, <4>2, <4>3 DEF Kinds
    <3> QED BY <1>1, <3>2, <3>4, <3>5 DEF CanceledSound
  <2> QED BY <1>6, <1>8, <2>3, <2>4, <2>5
<1>9. CASE log[e].kind = "updated" /\ row[s].status # "none" /\ new.row = log[e].state
  <2>1. row'[s] = log[e].state /\ row'[s].status # "canceled"
    BY <1>1, <1>2, <1>3, <1>9 DEF EventSound
  <2> QED BY <1>1, <1>4, <1>5, <1>6, <1>9, <2>1
<1>10. CASE /\ log[e].kind = "deleted" /\ row[s].status # "none"
            /\ new.row.status = "canceled" /\ new.row.end = log[e].state.end
            /\ new.row.price = row[s].price /\ new.row \in State
  <2>1. /\ \A f \in Of(s) : f <= e
        /\ log[e].state = live[s] /\ live[s].status = "canceled"
    BY <1>1, <1>10, LastIsLive
  <2>2. /\ row'[s].status = "canceled" /\ row'[s].end = log[e].state.end
        /\ row'[s].price = row[s].price /\ row'[s] \in State
    BY <1>2, <1>10
  <2>3. AllProcessed(s)' => row'[s] = live'[s]
    <3>1. ASSUME AllProcessed(s)' PROVE row[s].price = log[e].state.price
      <4>1. DeletionLeft(s, e)
        BY <1>2, <1>4, <1>10, <3>1 DEF DeletionLeft
      <4> QED BY <1>1, <1>2, <1>10, <4>1 DEF RowSound
    <3>2. log[e].state \in State
      BY <1>1, <1>3
    <3>3. ASSUME AllProcessed(s)' PROVE row'[s] = log[e].state
      BY <2>1, <2>2, <3>1, <3>2, <3>3 DEF State
    <3> QED BY <1>1, <2>1, <3>3
  <2>4. CanceledSound(s)'
    <3>1. ASSUME NEW f \in Of(s), Pending(f)' PROVE Later(f)'
      <4>1. f # e
        BY <1>2, <3>1
      <4>2. f < e
        BY <1>1, <1>3, <2>1, <4>1
      <4> QED BY <1>2, <4>2
    <3> QED BY <1>1, <2>1, <2>2, <3>1 DEF CanceledSound
  <2> QED BY <1>5, <1>6, <1>10, <2>3, <2>4
<1>11. CASE /\ log[e].kind \in {"paid", "failed"} /\ row[s].status # "none"
            /\ new.row.price = row[s].price
            /\ new.row.status \in {row[s].status, "past_due"}
  <2>1. ~AllProcessed(s)'
    <3>1. e + 1 \in Of(s)
      BY <1>1, <1>3, <1>11 DEF EventSound
    <3> QED BY <1>1, <1>3, <1>4, <3>1
  <2>2. row'[s].status # "canceled"
    <3>1. row[s].status # "canceled"
      BY <1>1, <1>2, <1>11 DEF RowSound, CanceledSound
    <3> QED BY <1>2, <1>11, <3>1
  <2> QED BY <1>5, <1>6, <1>11, <2>1, <2>2
<1>12. \/ row[s].status = "none" /\ new.row = row[s]
       \/ log[e].kind = "checkout" /\ row[s].status = "none" /\ new.row = work[w].live
       \/ log[e].kind = "updated" /\ row[s].status # "none" /\ new.row = log[e].state
       \/ /\ log[e].kind = "deleted" /\ row[s].status # "none"
          /\ new.row.status = "canceled" /\ new.row.end = log[e].state.end
          /\ new.row.price = row[s].price /\ new.row \in State
       \/ /\ log[e].kind \in {"paid", "failed"} /\ row[s].status # "none"
          /\ new.row.price = row[s].price
          /\ new.row.status \in {row[s].status, "past_due"}
  <2>1. new = Outcome(work[w])
    BY DEF new
  <2> QED BY <2>1, OutcomeIs
<1> QED
  BY <1>7, <1>8, <1>9, <1>10, <1>11, <1>12

\* And the plan of its user, who has no other subscription.
LEMMA CommitPlan ==
  ASSUME Inv, Sound, NEW w \in Workers, Commit(w), NEW e, e = work[w].event,
         NEW s, s = log[e].sub, Orderly(w, e, s)
  PROVE  /\ Expired(s) => Expired(s)'
         /\ Only(s) => PlanSound(s)'
<1> DEFINE new == Outcome(work[w])
           u == Owner[s]
<1>1. /\ e \in Of(s) /\ s \in Subs /\ Pending(e) /\ UNCHANGED <<log, now, live>>
      /\ row[s] \in State /\ now \in Int /\ Busy(w)
      /\ plan' = [plan EXCEPT ![u] = IF new.plan = work[w].plan THEN @ ELSE new.plan]
  BY CommitIs DEF Inv, TypeOK
<1>2. /\ row'[s] = new.row /\ ~Later(e) /\ RowSound(s)
      /\ \A v \in Workers : Busy(v)' => log[work'[v].event].sub # s
  BY <1>1 DEF Orderly, Sound
<1>3. /\ plan'[u] = IF new.plan = work[w].plan THEN plan[u] ELSE new.plan
      /\ u \in Users /\ plan[u] \in Plans
  BY <1>1, BillingAssumption DEF Inv, TypeOK
<1>4. EventSound(e) /\ log[e].state.end \in Int
  BY <1>1, OfTyped DEF Sound, LogSound
<1>5. ASSUME NEW n, n = new
      PROVE \/ row[s].status = "none" /\ n.row = row[s] /\ n.plan = work[w].plan
            \/ /\ log[e].kind = "checkout" /\ row[s].status = "none"
               /\ work[w].live.price \in Listed
               /\ n.row = work[w].live /\ n.plan = work[w].live.price
            \/ /\ log[e].kind = "updated" /\ row[s].status # "none"
               /\ n.row = log[e].state
               /\ n.plan = IF log[e].state.price # row[s].price /\ log[e].state.price \in Listed
                           THEN log[e].state.price ELSE work[w].plan
            \/ /\ log[e].kind = "deleted" /\ row[s].status # "none"
               /\ n.row.status = "canceled" /\ n.row.end = log[e].state.end
               /\ n.row.price = row[s].price /\ n.row \in State /\ n.plan = work[w].plan
            \/ /\ log[e].kind \in {"paid", "failed"} /\ row[s].status # "none"
               /\ n.row.price = row[s].price /\ n.plan = work[w].plan
               /\ n.row.status \in {row[s].status, "past_due"}
  BY <1>5, OutcomeIs
<1> HIDE DEF new, u
<1>6. ASSUME Expired(s) PROVE Expired(s)'
  <2>1. row[s].status = "canceled" /\ row[s].end < now /\ row[s].end \in Int
    BY <1>1, <1>6 DEF Expired, State
  <2>2. CanceledSound(s)
    BY <1>2, <2>1 DEF RowSound
  <2>3. log[e].kind = "deleted" /\ live[s].end = row[s].end
    <3>1. /\ live[s].end = row[s].end
          /\ \A d \in Of(s) : Pending(d) =>
               \/ Later(d) \/ log[d].kind = "deleted"
               \/ log[d].kind = "updated" /\ row[s].end = now
      BY <2>2 DEF CanceledSound
    <3>2. Later(e) \/ log[e].kind = "deleted" \/ row[s].end = now
      BY <1>1, <3>1, Zenon
    <3>3. row[s].end # now /\ ~Later(e) /\ live[s].end = row[s].end
      <4>1. ~Later(e) BY <1>2
      <4>2. now \in Int BY <1>1
      <4>3. row[s].end # now BY <2>1, <4>2
      <4> QED BY <3>1, <4>1, <4>3
    <3> QED BY <3>2, <3>3
  <2>4. log[e].state = live[s]
    BY <1>1, <2>3, LastIsLive
  <2>5. new.row.status = "canceled" /\ new.row.end = log[e].state.end
    BY <1>5, <2>1, <2>3
  <2> QED BY <1>1, <1>2, <2>1, <2>3, <2>4, <2>5 DEF Expired
<1>7. ASSUME Only(s) PROVE PlanSound(s)'
  <2>1. PlanSound(s) /\ log[work[w].event].sub = s
    BY <1>1, <1>7 DEF Sound, Orderly
  <2>2. /\ row[s].status = "none" => plan[u] \notin Listed /\ work[w].plan \notin Listed
        /\ row[s].status # "none" /\ ~Expired(s) =>
             /\ plan[u] \in Listed /\ work[w].plan = plan[u]
             /\ row[s].price \in Listed => plan[u] = row[s].price
    BY <1>1, <2>1 DEF PlanSound, u
  <2>3. ASSUME row'[s].status = "none" => plan'[u] \notin Listed,
               row'[s].status # "none" /\ ~Expired(s)' =>
                 /\ plan'[u] \in Listed
                 /\ row'[s].price \in Listed => plan'[u] = row'[s].price
        PROVE  PlanSound(s)'
    BY <1>1, <1>2, <2>3 DEF PlanSound, u
  <2>4. CASE row[s].status = "none" /\ new.row = row[s] /\ new.plan = work[w].plan
    BY <1>2, <1>3, <2>2, <2>3, <2>4
  <2>5. CASE /\ log[e].kind = "checkout" /\ row[s].status = "none"
             /\ work[w].live.price \in Listed
             /\ new.row = work[w].live /\ new.plan = work[w].live.price
    <3>1. PICK b \in Of(s) : log[b].state = work[w].live
      BY <1>1, <2>1, <2>5 DEF Sound, JobSound
    <3>2. row'[s].status # "none"
      BY <1>2, <2>5, <3>1, OfTyped DEF Sound, LogSound, EventSound
    <3>3. plan'[u] = work[w].live.price
      BY <1>3, <2>2, <2>5
    <3> QED BY <1>2, <2>3, <2>5, <3>2, <3>3
  <2>6. CASE /\ log[e].kind = "updated" /\ row[s].status # "none"
             /\ new.row = log[e].state
             /\ new.plan = IF log[e].state.price # row[s].price /\ log[e].state.price \in Listed
                           THEN log[e].state.price ELSE work[w].plan
    <3>1. row'[s] = log[e].state /\ row'[s].status \notin {"none", "canceled"}
      BY <1>2, <1>4, <2>6 DEF EventSound
    <3>2. ~Expired(s)
      BY <1>6, <3>1 DEF Expired
    <3>3. plan[u] \in Listed /\ work[w].plan = plan[u]
          /\ (row[s].price \in Listed => plan[u] = row[s].price)
      BY <2>2, <2>6, <3>2
    <3>4. plan'[u] = IF row'[s].price # row[s].price /\ row'[s].price \in Listed
                     THEN row'[s].price ELSE plan[u]
      BY <1>3, <2>6, <3>1, <3>3
    <3> QED BY <2>3, <3>1, <3>3, <3>4
  <2>7. CASE /\ row[s].status # "none" /\ new.plan = work[w].plan
             /\ new.row.price = row[s].price /\ new.row.status # "none"
    <3>1. plan'[u] = plan[u] /\ row'[s].price = row[s].price /\ row'[s].status # "none"
      BY <1>2, <1>3, <2>7
    <3> QED BY <1>6, <2>2, <2>3, <2>7, <3>1
  <2> QED BY <1>5, <2>4, <2>5, <2>6, <2>7
<1> QED
  BY <1>6, <1>7

LEMMA CommitSound ==
  ASSUME Inv, Sound, NEW w \in Workers, Commit(w)
  PROVE  Sound'
<1>0. PICK e, s : e = work[w].event /\ s = log[e].sub
  OBVIOUS
<1>1. /\ e \in Of(s) /\ s \in Subs /\ Pending(e) /\ Busy(w) /\ e \in Events
      /\ UNCHANGED <<log, now, live, sweep>>
      /\ row' = [row EXCEPT ![s] = Merged(@, work[w].row, Outcome(work[w]).row)]
      /\ plan' = [plan EXCEPT ![Owner[s]] =
                    IF Outcome(work[w]).plan = work[w].plan THEN @ ELSE Outcome(work[w]).plan]
      /\ ledger' = [ledger EXCEPT ![e] = "processed"]
      /\ applied' = [applied EXCEPT ![e] = @ + 1]
      /\ disordered' = IF Later(e) \/ Overlapped(w) THEN disordered \cup {s} ELSE disordered
      /\ work'[w].event = 0 /\ \A v \in Workers \ {w} : work'[v] = work[v]
      /\ unanswered' = unanswered \ {e}
  BY <1>0, CommitIs
<1>2. ASSUME s \notin disordered' PROVE Orderly(w, e, s)
  BY <1>0, <1>2, CommitOrderly
<1>3. ASSUME s \notin disordered'
      PROVE  RowSound(s)' /\ (Expired(s) => Expired(s)') /\ (Only(s) => PlanSound(s)')
  <2>1. Orderly(w, e, s)
    BY <1>2, <1>3
  <2>2. RowSound(s)'
    BY <1>0, <2>1, CommitRow
  <2>3. (Expired(s) => Expired(s)') /\ (Only(s) => PlanSound(s)')
    BY <1>0, <2>1, CommitPlan
  <2> QED BY <2>2, <2>3
<1>4. Overlapped(w) <=> \E v \in Workers \ {w} : Busy(v) /\ log[work[v].event].sub = s
  BY <1>0 DEF Overlapped
<1>5. \A t : Of(t)' = Of(t)
  BY <1>1 DEF Of
<1>6. /\ row \in [Subs -> State] /\ plan \in [Users -> Plans] /\ sweep \subseteq Subs
      /\ ledger \in [Events -> {"none", "failed", "processed"}] /\ applied \in [Events -> Nat]
  BY DEF Inv, TypeOK
<1>7. /\ \A t \in Subs \ {s} : row'[t] = row[t]
      /\ \A u \in Users \ {Owner[s]} : plan'[u] = plan[u]
      /\ \A d \in Events \ {e} : ledger'[d] = ledger[d] /\ applied'[d] = applied[d]
      /\ ledger'[e] = "processed" /\ applied'[e] = applied[e] + 1
      /\ disordered \subseteq disordered' /\ (Overlapped(w) => s \in disordered')
  BY <1>1, <1>6
<1>8. e # 0 /\ e \in 1 .. Len(log) /\ log[e].sub = s /\ Len(log) \in Nat
  BY <1>0, <1>1, OfTyped, LogTyped
<1>9. \A d \in 1 .. Len(log) : d \in Events /\ d # 0
  BY LogTyped
<1>10. ASSUME NEW d \in 1 .. Len(log), Pending(d)' PROVE Pending(d)
  <2>1. d # 0
    BY <1>9
  <2> QED BY <1>1, <1>10, <2>1 DEF Pending
<1>11. LogSound'
  BY <1>1, <1>10, LogKept DEF Sound
<1>12. Accounts'
  <2>1. ASSUME NEW d \in Events
        PROVE  /\ applied'[d] > 0 <=> ledger'[d] = "processed"
               /\ applied'[d] > 0 => d <= Len(log)
    <3>1. CASE d = e
      <4>1. applied[e] \in Nat /\ e <= Len(log)
        BY <1>1, <1>6, <1>8
      <4> QED BY <1>7, <3>1, <4>1
    <3>2. CASE d # e
      BY <1>7, <3>2 DEF Sound, Accounts
    <3> QED BY <3>1, <3>2
  <2> QED BY <1>1, <2>1 DEF Accounts
<1>13. ASSUME NEW t \in Subs PROVE LiveSound(t)'
  <2>1. row'[t].status = row[t].status \/ Of(t) # {}
    BY <1>1, <1>7
  <2> QED BY <1>1, <2>1, LiveKept DEF Sound
<1>14. ASSUME NEW v \in Workers PROVE JobSound(v)'
  <2>1. CASE v = w
    BY <1>1, <2>1 DEF JobSound, Busy
  <2>2. CASE v # w /\ Busy(v)
    <3> DEFINE t == log[work[v].event].sub
    <3>1. /\ work'[v] = work[v] /\ JobSound(v) /\ work[v].event \in 1 .. Len(log)
          /\ t \in Subs /\ work[v].event \in Events
      BY <1>1, <2>2, JobInLog, LogTyped DEF Sound
    <3>2. CASE t = s
      <4>1. s \in disordered'
        BY <1>4, <1>7, <2>2, <3>2
      <4> QED BY <1>1, <1>5, <2>2, <3>1, <3>2, <4>1 DEF JobSound
    <3>3. CASE t # s
      <4>1. row'[t] = row[t] /\ (t \in disordered => t \in disordered')
        BY <1>7, <3>1, <3>3
      <4>2. work[v].event # e
        BY <1>8, <3>3
      <4>3. ledger'[work[v].event] = ledger[work[v].event]
        BY <1>7, <3>1, <4>2
      <4> QED BY <1>1, <1>5, <2>2, <3>1, <4>1, <4>3 DEF JobSound
    <3> QED BY <3>2, <3>3
  <2>3. CASE v # w /\ ~Busy(v)
    BY <1>1, <2>3 DEF JobSound, Busy
  <2> QED BY <2>1, <2>2, <2>3
<1>15. ASSUME NEW t \in Subs \ disordered' PROVE RowSound(t)'
  <2>1. CASE t = s
    BY <1>3, <1>15, <2>1
  <2>2. CASE t # s
    <3>1. RowSound(t) /\ row'[t] = row[t] /\ live'[t] = live[t]
      BY <1>1, <1>7, <1>15, <2>2 DEF Sound
    <3>2. ASSUME NEW d \in Of(t)
          PROVE  /\ applied'[d] = applied[d] /\ ledger'[d] = ledger[d]
                 /\ Pending(d)' => Pending(d)
      <4>1. d \in 1 .. Len(log) /\ d \in Events /\ d # e
        BY <1>8, <2>2, <3>2, OfTyped
      <4> QED BY <1>7, <1>10, <4>1
    <3> QED BY <1>1, <3>1, <3>2, RowKept
  <2> QED BY <2>1, <2>2
<1>16. ASSUME NEW t \in sweep' \ disordered' PROVE Expired(t)'
  <2>1. t \in Subs /\ Expired(t)
    BY <1>1, <1>6, <1>7, <1>16 DEF Sound
  <2>2. CASE t = s
    BY <1>3, <1>16, <2>1, <2>2
  <2>3. CASE t # s
    BY <1>1, <1>7, <2>1, <2>3 DEF Expired
  <2> QED BY <2>2, <2>3
<1>17. ASSUME NEW t \in Subs \ disordered', Only(t)' PROVE PlanSound(t)'
  <2>1. Only(t)
    BY <1>17 DEF Only, SubsOf
  <2>2. CASE t = s
    BY <1>3, <1>17, <2>1, <2>2
  <2>3. CASE t # s
    <3>1. Owner[t] \in Users /\ Owner[t] # Owner[s]
      BY <1>1, <2>1, <2>3, BillingAssumption DEF Only, SubsOf
    <3>2. plan'[Owner[t]] = plan[Owner[t]] /\ row'[t] = row[t] /\ PlanSound(t)
      BY <1>7, <1>17, <2>1, <2>3, <3>1 DEF Sound
    <3>3. Expired(t)' <=> Expired(t)
      BY <1>1, <3>2 DEF Expired
    <3>4. ASSUME NEW v \in Workers, Busy(v)' PROVE Busy(v) /\ work'[v] = work[v]
      BY <1>1, <3>4 DEF Busy
    <3> QED BY <1>1, <3>2, <3>3, <3>4 DEF PlanSound
  <2> QED BY <2>2, <2>3
<1> QED
  BY <1>11, <1>12, <1>13, <1>14, <1>15, <1>16, <1>17 DEF Sound
-----------------------------------------------------------------------------
(* Every step.                                                             *)

LEMMA SoundInit == ASSUME Init PROVE Sound
<1>1. PICK Subscribed \in SUBSET Subs, status \in {"active", "past_due"} :
        StartsWith(Subscribed, status)
  BY DEF Init
<1>2. /\ log = << >> /\ now = 0 /\ row = live /\ sweep = {} /\ disordered = {}
      /\ ledger = [e \in Events |-> "none"] /\ applied = [e \in Events |-> 0]
      /\ work = [w \in Workers |-> NoJob]
      /\ live = [s \in Subs |-> IF s \in Subscribed THEN [Established EXCEPT !.status = status]
                                ELSE Unknown]
  BY <1>1 DEF Init, StartsWith
<1>3. 1 .. Len(log) = {} /\ \A s : Of(s) = {}
  BY <1>2 DEF Of
<1>4. \A w \in Workers : ~Busy(w)
  BY <1>2 DEF Busy, NoJob
<1>5. Established.price \in Listed
  <2>1. PICK p \in Listed : TRUE
    BY BillingAssumption
  <2> QED BY <2>1 DEF Established
<1>6. ASSUME NEW s \in Subs
      PROVE  /\ live[s].end = 0
             /\ s \in Subscribed => live[s].status = status /\ live[s].price = Established.price
             /\ s \notin Subscribed => live[s].status = "none"
  <2>1. CASE s \in Subscribed
    <3>1. live[s] = [Established EXCEPT !.status = status]
      BY <1>2, <2>1
    <3> QED BY <2>1, <3>1 DEF Established
  <2>2. CASE s \notin Subscribed
    BY <1>2, <2>2 DEF Unknown
  <2> QED BY <2>1, <2>2
<1>7. LogSound /\ Accounts /\ \A w \in Workers : JobSound(w)
  BY <1>2, <1>3, <1>4 DEF LogSound, Accounts, JobSound
<1>8. ASSUME NEW s \in Subs PROVE LiveSound(s) /\ RowSound(s)
  <2>1. live[s].status \in {"none", "active", "past_due"}
    BY <1>6
  <2>2. LiveSound(s)
    BY <1>2, <1>3, <1>6, <2>1 DEF LiveSound
  <2>3. RowSound(s)
    BY <1>2, <1>3, <2>1 DEF RowSound
  <2> QED BY <2>2, <2>3
<1>9. ASSUME NEW s \in Subs, Only(s) PROVE PlanSound(s)
  <2> DEFINE u == Owner[s]
  <2>1. u \in Users /\ \A t \in Subscribed : Owner[t] = u => t = s
    BY <1>9, BillingAssumption DEF Only, SubsOf
  <2>2. plan[u] = CASE \E t \in Subscribed : Owner[t] = u -> Established.price
                    [] posture = "off" -> "none"
                    [] OTHER -> "free"
    BY <1>1, <2>1 DEF StartsWith
  <2>3. CASE s \in Subscribed
    <3>1. posture # "off"
      BY <1>1, <2>3 DEF StartsWith
    <3>2. \E t \in Subscribed : Owner[t] = u
      BY <2>3
    <3>3. plan[u] = Established.price
      BY <2>2, <3>1, <3>2
    <3> QED BY <1>2, <1>4, <1>5, <1>6, <2>3, <3>3 DEF PlanSound
  <2>4. CASE s \notin Subscribed
    <3>1. ~\E t \in Subscribed : Owner[t] = u
      BY <2>1, <2>4
    <3>2. plan[u] \in {"none", "free"}
      BY <2>2, <3>1
    <3>3. plan[u] \notin Listed
      BY <3>2, BillingAssumption
    <3> QED BY <1>2, <1>4, <1>6, <2>4, <3>3 DEF PlanSound
  <2> QED BY <2>3, <2>4
<1> QED
  BY <1>2, <1>7, <1>8, <1>9 DEF Sound

LEMMA SoundNext == ASSUME Inv, Sound, [Next]_vars PROVE Sound'
<1>1. Inv'
  BY StepKeeps
<1>2. CASE Provider
  <2>1. CASE PeriodEnds
    BY <2>1, PeriodSound
  <2>2. CASE ~PeriodEnds
    <3>1. PICK s \in Subs : \/ CheckoutPaid(s) \/ Renews(s) \/ PaymentFails(s)
                            \/ PaymentRecovers(s) \/ Cancels(s)
                            \/ \E p \in Prices : PlanChanges(s, p)
      BY <1>2, <2>2 DEF Provider
    <3>2. live[s].end <= now
      BY DEF Sound, LiveSound
    <3>3. PICK new \in State : Emission(s, new)
      BY <3>1, <3>2, EmissionIs
    <3> QED BY <1>1, <3>3, EmissionSound
  <2> QED BY <2>1, <2>2
<1>3. CASE \E s \in Subs, p \in Prices : CreateCheckout(s, p)
  BY <1>3, CheckoutSound
<1>4. CASE \E e \in unanswered : Handle(e)
  <2>1. CASE \E e \in unanswered : Duplicate(e)
    BY <2>1, InstanceSound
  <2>2. CASE \E e \in unanswered, w \in Workers : Receive(w, e)
    BY <2>2, ReceiveSound
  <2> QED BY <1>4, <2>1, <2>2 DEF Handle
<1>5. CASE \E w \in Workers : Commit(w) \/ Fail(w)
  BY <1>5, CommitSound, FailSound
<1>6. CASE (\E m \in Postures : SetAccessModel(m)) \/ SweepReads \/ SweepWrites \/ UNCHANGED vars
  BY <1>6, InstanceSound
<1> QED
  BY <1>2, <1>3, <1>4, <1>5, <1>6 DEF Next

LEMMA SoundAlways == Spec => [](Inv /\ Sound)
BY InitTyped, SoundInit, StepKeeps, SoundNext, PTL DEF Spec

(* Whatever the provider does and in whatever order its events arrive:     *)
(* when those of a subscription were all handled, in order and one at a    *)
(* time, its row is the provider's and its user, who has no other, has the *)
(* plan it is for.                                                         *)
THEOREM MirrorsProviderHolds == Spec => []MirrorsProvider
<1>1. ASSUME Inv, Sound PROVE MirrorsProvider
  <2>1. SUFFICES ASSUME NEW s \in Subs \ disordered, row[s].status # "none",
                        \A e \in 1 .. Len(log) : log[e].sub = s => ledger[e] = "processed"
                 PROVE  /\ row[s] = live[s]
                        /\ Running(s) /\ live[s].price \in Listed /\ SubsOf(Owner[s]) = {s} =>
                             plan[Owner[s]] = live[s].price
    BY DEF MirrorsProvider
  <2>2. row[s] = live[s]
    BY <1>1, <2>1 DEF Sound, RowSound, AllProcessed, Of
  <2>3. ASSUME Running(s), live[s].price \in Listed, Only(s)
        PROVE  plan[Owner[s]] = live[s].price
    <3>1. PlanSound(s) /\ ~Expired(s)
      BY <1>1, <2>1, <2>2, <2>3 DEF Sound, Running, Expired
    <3> QED BY <2>1, <2>2, <2>3, <3>1 DEF PlanSound
  <2> QED BY <2>2, <2>3 DEF Only
<1> QED
  BY <1>1, SoundAlways, PTL

(* Only the sweep takes a plan away, and only from the user of a           *)
(* subscription that is over at the provider, or whose events were handled *)
(* out of order.                                                           *)
THEOREM KeepsPaidWindowHolds == Spec => KeepsPaidWindow
<1> DEFINE Step == \A u \in Users : Demoted(u) => \E s \in SubsOf(u) : Over(s) \/ s \in disordered
<1>1. ASSUME Inv, Sound, [Next]_vars PROVE [Step]_vars
  <2>1. CASE SweepWrites
    <3>1. SUFFICES ASSUME NEW u \in Users, Demoted(u)
                   PROVE  \E s \in SubsOf(u) : Over(s) \/ s \in disordered
      OBVIOUS
    <3>2. PICK s \in sweep : Owner[s] = u
      BY <2>1, <3>1 DEF SweepWrites, Demoted
    <3>3. s \in Subs /\ s \in SubsOf(u) /\ row[s] \in State
      BY <1>1, <3>2 DEF Inv, TypeOK, SubsOf
    <3>4. ASSUME s \notin disordered PROVE Over(s)
      <4>1. Expired(s) /\ RowSound(s)
        BY <1>1, <3>2, <3>3, <3>4 DEF Sound
      <4>2. CanceledSound(s)
        BY <4>1 DEF Expired, RowSound
      <4> QED BY <4>1, <4>2 DEF Expired, CanceledSound, Over
    <3> QED BY <3>3, <3>4
  <2>2. ASSUME NEW w \in Workers, Commit(w), NEW u \in Users, Demoted(u) PROVE FALSE
    <3>1. PICK e, s : e = work[w].event /\ s = log[e].sub
      OBVIOUS
    <3>2. PICK new : new = Outcome(work[w])
      OBVIOUS
    <3>3. plan' = [plan EXCEPT ![Owner[s]] = IF new.plan = work[w].plan THEN @ ELSE new.plan]
      BY <2>2, <3>1, <3>2 DEF Commit
    <3>4. new.plan = work[w].plan \/ new.plan \in Listed
      <4>1. log[work[w].event].kind \in Kinds
        BY <1>1, <2>2, JobTyped DEF Commit
      <4>2. PICK job : job = work[w]
        OBVIOUS
      <4> QED BY <3>2, <4>1, <4>2, OutcomePlan
    <3> QED BY <1>1, <2>2, <3>3, <3>4 DEF Demoted, Inv, TypeOK
  <2>3. ASSUME NEW m \in Postures, SetAccessModel(m), NEW u \in Users, Demoted(u) PROVE FALSE
    <3>1. plan[u] # "none"
      BY <2>3, BillingAssumption DEF Demoted
    <3> QED BY <2>3, <3>1 DEF SetAccessModel, Demoted
  <2>4. CASE UNCHANGED plan
    BY <2>4 DEF Demoted
  <2>5. \/ SweepWrites \/ (\E w \in Workers : Commit(w)) \/ (\E m \in Postures : SetAccessModel(m))
        \/ UNCHANGED plan
    <3>1. CASE Provider
      BY <3>1 DEF Provider, PeriodEnds, CheckoutPaid, Renews, PaymentFails, PaymentRecovers,
                  Cancels, PlanChanges, Emits, tables
    <3>2. CASE ~Provider
      BY <1>1, <3>2 DEF Next, CreateCheckout, Handle, Duplicate, Receive, Fail, SweepReads,
                        tables, vars
    <3> QED BY <3>1, <3>2
  <2> QED BY <2>1, <2>2, <2>3, <2>4, <2>5
<1>2. Inv /\ Sound /\ [Next]_vars => [Step]_vars
  BY <1>1
<1> QED
  BY <1>2, SoundAlways, PTL DEF Spec, KeepsPaidWindow
=============================================================================
