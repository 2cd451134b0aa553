------------------------ MODULE ConfirmationGateProofs ------------------------
(***************************************************************************)
(* What stands before a tool call, for any calls, people, callers and      *)
(* faults: the confirmation gate keeps the answers it accepted and         *)
(* implements HumanGate; a connector's breaker refuses justly.             *)
(***************************************************************************)
EXTENDS ConfirmationGateProps, CircuitBreakerProps, FiniteSetTheorems, TLAPS

\* A call that has asked nothing has no row.
Unasked == \A c \in Calls : call[c] = "new" => row[c] = "absent"

\* Of the clicks about one call, one at most was accepted.
OneAccepted ==
  \A p, q \in Replies :
    reply[p] \in Decisions /\ reply[q] \in Decisions /\ target[p] = target[q] => p = q

\* A decided row was decided by a click.
DecidedByClick ==
  \A c \in Calls : row[c] \in Decisions => Accepted(c, row[c])

IInv == TypeOK /\ Unasked /\ AnswerKept /\ OneAccepted /\ DecidedByClick

LEMMA InitIInv == Init => IInv
BY GateAssumption
DEF Init, IInv, TypeOK, Unasked, AnswerKept, OneAccepted, DecidedByClick, Decisions

(* The steps of the hook touch no reply, and a row only to ask or to expire. *)
LEMMA HookKeepsReplies ==
  ASSUME NEW c \in Calls, Hook(c) \/ Raises(c)
  PROVE  reply' = reply /\ target' = target
BY DEF Hook, Raises, Skip, NoChannel, Ask, Send, SendFails, Poll, LastPoll,
       ExpireRead, ExpireWrite

LEMMA QuietSteps ==
  ASSUME IInv, NEW c \in Calls,
         \/ Skip(c) \/ (\E s \in Settings : NoChannel(c, s)) \/ Send(c)
         \/ SendFails(c) \/ Poll(c) \/ LastPoll(c) \/ ExpireRead(c) \/ Raises(c)
  PROVE  /\ UNCHANGED <<row, cards, reply, target>>
         /\ \E to \in {"polling", "late", "expiring"} \cup Over :
              call' = [call EXCEPT ![c] = to]
         /\ call[c] \notin Over
<1>1. CASE \/ Skip(c) \/ (\E s \in Settings : NoChannel(c, s))
           \/ Send(c) \/ SendFails(c) \/ LastPoll(c)
  BY <1>1 DEF Skip, NoChannel, Send, SendFails, LastPoll, Move, Over
<1>2. CASE Poll(c)
  BY <1>2 DEF Poll, Move, Over
<1>3. CASE ExpireRead(c)
  BY <1>3 DEF ExpireRead, Move, Over
<1>4. CASE Raises(c)
  BY <1>4 DEF Raises, Over
<1> QED BY <1>1, <1>2, <1>3, <1>4

LEMMA QuietKeepsIInv ==
  ASSUME IInv, UNCHANGED <<row, cards, reply, target>>,
         call' \in [Calls -> {"new", "sending", "polling", "late", "expiring"}
                               \cup Over],
         \A c \in Calls : /\ call'[c] = "new" => call[c] = "new"
                          /\ call[c] \in Over => call'[c] = call[c]
  PROVE  IInv'
<1>1. TypeOK'
  BY DEF IInv, TypeOK
<1>2. Unasked' /\ OneAccepted' /\ DecidedByClick'
  BY DEF IInv, Unasked, OneAccepted, DecidedByClick, Accepted
<1>3. AnswerKept'
  BY DEF IInv, AnswerKept, TypeOK, Over
<1> QED BY <1>1, <1>2, <1>3 DEF IInv

LEMMA AskKeepsIInv ==
  ASSUME IInv, NEW c \in Calls, NEW s \in Settings, Ask(c, s)
  PROVE  IInv'
<1>1. /\ call[c] = "new" /\ row[c] = "absent"
      /\ \E to \in {"sending", "polling"} : call' = [call EXCEPT ![c] = to]
      /\ row' = [row EXCEPT ![c] = "pending"]
      /\ cards' \in {cards, cards \cup {c}}
      /\ reply' = reply /\ target' = target
  BY DEF Ask, Move, IInv, Unasked
<1>2. TypeOK'
  BY <1>1 DEF IInv, TypeOK
<1>3. Unasked'
  BY <1>1 DEF IInv, Unasked, TypeOK
<1>4. AnswerKept'
  <2> SUFFICES ASSUME NEW q \in Replies, reply[q] \in Decisions
               PROVE  \/ row'[target[q]] = reply[q]
                      \/ row'[target[q]] = "expired" /\ call'[target[q]] = "denied"
    BY <1>1 DEF AnswerKept
  <2>1. target[q] # c
    BY <1>1 DEF IInv, AnswerKept, Decisions
  <2> QED BY <1>1, <2>1 DEF IInv, AnswerKept, TypeOK
<1>5. OneAccepted' /\ DecidedByClick'
  BY <1>1 DEF IInv, OneAccepted, DecidedByClick, Accepted, Decisions, TypeOK
<1> QED BY <1>2, <1>3, <1>4, <1>5 DEF IInv

LEMMA ExpireWriteKeepsIInv ==
  ASSUME IInv, NEW c \in Calls, ExpireWrite(c)
  PROVE  IInv'
<1>1. /\ call[c] = "expiring"
      /\ call' = [call EXCEPT ![c] = "denied"]
      /\ row' = [row EXCEPT ![c] = "expired"]
      /\ UNCHANGED <<cards, reply, target>>
  BY DEF ExpireWrite, Move
<1>2. TypeOK'
  BY <1>1 DEF IInv, TypeOK, Over
<1>3. Unasked' /\ AnswerKept'
  BY <1>1 DEF IInv, Unasked, AnswerKept, TypeOK
<1>4. OneAccepted' /\ DecidedByClick'
  BY <1>1 DEF IInv, OneAccepted, DecidedByClick, Accepted, Decisions, TypeOK
<1> QED BY <1>2, <1>3, <1>4 DEF IInv

LEMMA SweepKeepsIInv ==
  ASSUME IInv, Sweep
  PROVE  IInv'
<1>1. /\ \A c \in Calls : row'[c] = IF c \in Stale THEN "expired" ELSE row[c]
      /\ UNCHANGED <<call, cards, reply, target>>
  BY DEF Sweep
<1>2. TypeOK'
  BY DEF Sweep, IInv, TypeOK
<1>3. Unasked'
  BY <1>1 DEF IInv, Unasked, Stale, Over
<1>4. AnswerKept'
  <2> SUFFICES ASSUME NEW q \in Replies, reply[q] \in Decisions
               PROVE  \/ row'[target[q]] = reply[q]
                      \/ row'[target[q]] = "expired" /\ call[target[q]] = "denied"
    BY <1>1 DEF AnswerKept
  <2>1. target[q] \in Calls /\ target[q] \notin Stale
    BY DEF IInv, TypeOK, AnswerKept, Stale, Decisions
  <2> QED BY <1>1, <2>1 DEF IInv, AnswerKept
<1>5. OneAccepted' /\ DecidedByClick'
  BY <1>1 DEF IInv, OneAccepted, DecidedByClick, Accepted, Decisions
<1> QED BY <1>2, <1>3, <1>4, <1>5 DEF IInv

(* A click that decides a pending row is the first accepted one about it.  *)
LEMMA FirstAccepted ==
  ASSUME IInv, NEW c \in Calls, row[c] = "pending"
  PROVE  \A q \in Replies : target[q] = c => reply[q] \notin Decisions
BY DEF IInv, AnswerKept, Decisions

LEMMA ApplyKeepsIInv ==
  ASSUME IInv, NEW q \in Replies, NEW d \in Decisions, Apply(q, d)
  PROVE  IInv'
<1> DEFINE c == target[q]
<1>0. c \in Calls /\ reply[q] \notin Decisions /\ UNCHANGED <<call, cards, target>>
  BY GateAssumption DEF Apply, CanApply, IInv, TypeOK, Decisions
<1>1. CASE row[c] # "pending"
  <2>1. row' = row /\ reply' = [reply EXCEPT ![q] = "conflict"]
    BY <1>1 DEF Apply
  <2>2. TypeOK'
    BY <1>0, <2>1 DEF IInv, TypeOK
  <2>3. \A p \in Replies : reply'[p] \in Decisions <=> reply[p] \in Decisions
    BY <1>0, <2>1 DEF IInv, TypeOK, Decisions
  <2>4. \A p \in Replies : reply[p] \in Decisions => reply'[p] = reply[p]
    BY <1>0, <2>1 DEF IInv, TypeOK
  <2>5. Unasked' /\ AnswerKept' /\ OneAccepted'
    BY <1>0, <2>1, <2>3, <2>4 DEF IInv, Unasked, AnswerKept, OneAccepted
  <2>6. DecidedByClick'
    BY <1>0, <2>1, <2>3, <2>4 DEF IInv, DecidedByClick, Accepted
  <2> QED BY <2>2, <2>5, <2>6 DEF IInv
<1>2. CASE row[c] = "pending"
  <2>1. row' = [row EXCEPT ![c] = d] /\ reply' = [reply EXCEPT ![q] = d]
    BY <1>2 DEF Apply
  <2>2. /\ row'[c] = d /\ \A b \in Calls \ {c} : row'[b] = row[b]
        /\ reply'[q] = d /\ \A p \in Replies \ {q} : reply'[p] = reply[p]
    BY <1>0, <2>1 DEF IInv, TypeOK
  <2>3. \A p \in Replies : target[p] = c => reply[p] \notin Decisions
    BY <1>0, <1>2, FirstAccepted
  <2>4. TypeOK'
    BY <1>0, <2>1 DEF IInv, TypeOK, Decisions
  <2>5. Unasked'
    BY <1>0, <1>2, <2>2 DEF IInv, Unasked
  <2>6. AnswerKept'
    BY <1>0, <2>2, <2>3 DEF IInv, AnswerKept, TypeOK
  <2>7. OneAccepted'
    BY <1>0, <2>2, <2>3 DEF IInv, OneAccepted
  <2>8. DecidedByClick'
    BY <1>0, <2>2 DEF IInv, DecidedByClick, Accepted
  <2> QED BY <2>4, <2>5, <2>6, <2>7, <2>8 DEF IInv
<1> QED BY <1>1, <1>2

LEMMA CheckKeepsIInv ==
  ASSUME IInv, NEW q \in Replies, Check(q)
  PROVE  IInv'
<1>1. /\ UNCHANGED <<call, row, cards, target>> /\ reply[q] \notin Decisions
      /\ \E to \in {"checked", "conflict"} : reply' = [reply EXCEPT ![q] = to]
  BY DEF Check, Decisions
<1>2. TypeOK'
  BY <1>1 DEF IInv, TypeOK
<1>3. \A p \in Replies : /\ reply'[p] \in Decisions <=> reply[p] \in Decisions
                         /\ reply[p] \in Decisions => reply'[p] = reply[p]
  BY <1>1 DEF IInv, TypeOK, Decisions
<1>4. Unasked' /\ AnswerKept' /\ OneAccepted'
  BY <1>1, <1>3 DEF IInv, Unasked, AnswerKept, OneAccepted
<1>5. DecidedByClick'
  BY <1>1, <1>3 DEF IInv, DecidedByClick, Accepted
<1> QED BY <1>2, <1>4, <1>5 DEF IInv

LEMMA AbortKeepsIInv ==
  ASSUME IInv, Abort
  PROVE  IInv'
<1>1. /\ UNCHANGED <<row, cards, reply, target>>
      /\ call' = [c \in Calls |-> IF call[c] \in Over THEN call[c] ELSE "aborted"]
  BY DEF Abort
<1> QED BY <1>1, QuietKeepsIInv DEF Over

LEMMA NextIInv == IInv /\ [Next]_vars => IInv'
<1> SUFFICES ASSUME IInv, [Next]_vars PROVE IInv'
  OBVIOUS
<1>1. ASSUME NEW c \in Calls, Hook(c) \/ Raises(c) PROVE IInv'
  <2>1. ASSUME NEW s \in Settings, Ask(c, s) PROVE IInv'
    BY <2>1, AskKeepsIInv
  <2>2. CASE ExpireWrite(c)
    BY <2>2, ExpireWriteKeepsIInv
  <2>3. CASE \/ Skip(c) \/ (\E s \in Settings : NoChannel(c, s)) \/ Send(c)
             \/ SendFails(c) \/ Poll(c) \/ LastPoll(c) \/ ExpireRead(c) \/ Raises(c)
    <3>1. /\ UNCHANGED <<row, cards, reply, target>> /\ call[c] \notin Over
          /\ \E to \in {"polling", "late", "expiring"} \cup Over :
               call' = [call EXCEPT ![c] = to]
      BY <2>3, QuietSteps
    <3>2. /\ call' \in [Calls -> {"new", "sending", "polling", "late", "expiring"}
                                    \cup Over]
          /\ \A b \in Calls : /\ call'[b] = "new" => call[b] = "new"
                              /\ call[b] \in Over => call'[b] = call[b]
      BY <3>1 DEF IInv, TypeOK, Over
    <3> QED BY <3>1, <3>2, QuietKeepsIInv
  <2> QED BY <1>1, <2>1, <2>2, <2>3 DEF Hook
<1>2. ASSUME NEW q \in Replies, Answer(q) PROVE IInv'
  BY <1>2, CheckKeepsIInv, ApplyKeepsIInv DEF Answer
<1>3. CASE Abort
  BY <1>3, AbortKeepsIInv
<1>4. CASE Sweep
  BY <1>4, SweepKeepsIInv
<1>5. CASE UNCHANGED vars
  BY <1>5, QuietKeepsIInv DEF vars, IInv, TypeOK
<1> QED BY <1>1, <1>2, <1>3, <1>4, <1>5 DEF Next

(* The invariant that the other theorems rest on.                          *)
THEOREM Invariance == Spec => []IInv
BY InitIInv, NextIInv, PTL DEF Spec

(* Every variable keeps its type, for any calls, people and faults.        *)
THEOREM TypeCorrect == Spec => []TypeOK
<1>1. IInv => TypeOK
  BY DEF IInv
<1> QED BY <1>1, Invariance, PTL

(* apply_confirmation_decision, the sweep and the hook's timeout never     *)
(* turn an accepted answer into another.                                   *)
THEOREM AnswersKept == Spec => []AnswerKept
<1>1. IInv => AnswerKept
  BY DEF IInv
<1> QED BY <1>1, Invariance, PTL

-----------------------------------------------------------------------------
(* The refinement.                                                         *)

LEMMA AnswerCases ==
  ASSUME IInv, NEW c \in Calls
  PROVE  /\ AcceptedAnswer(c) \in {"none", "approved", "rejected"}
         /\ \A d \in Decisions : Accepted(c, d) => AcceptedAnswer(c) = d
         /\ AcceptedAnswer(c) = "none"
              <=> \A q \in Replies : target[q] = c => reply[q] \notin Decisions
<1>1. ~(Accepted(c, "approved") /\ Accepted(c, "rejected"))
  BY DEF Accepted, IInv, OneAccepted, Decisions
<1> QED BY <1>1 DEF AcceptedAnswer, Accepted, Decisions

LEMMA AnswerUnchanged ==
  ASSUME reply' = reply, target' = target, NEW c
  PROVE  AcceptedAnswer(c)' = AcceptedAnswer(c)
BY DEF AcceptedAnswer, Accepted

\* What a step does to one gate, in the terms of this module.
GateStep(c) ==
  \/ AcceptedAnswer(c) = "none" /\ AcceptedAnswer(c)' \in Decisions
       /\ GateOf(c)' = GateOf(c)
  \/ GateOf(c) = "open" /\ AcceptedAnswer(c) = "approved" /\ GateOf(c)' = "passed"
       /\ AcceptedAnswer(c)' = AcceptedAnswer(c)
  \/ GateOf(c) = "open" /\ GateOf(c)' = "shut"
       /\ AcceptedAnswer(c)' = AcceptedAnswer(c)
  \/ GateOf(c)' = GateOf(c) /\ AcceptedAnswer(c)' = AcceptedAnswer(c)

LEMMA HookGateStep ==
  ASSUME IInv, NEW b \in Calls, Hook(b) \/ Raises(b), NEW c \in Sensitive
  PROVE  GateStep(c)
<1>1. AcceptedAnswer(c)' = AcceptedAnswer(c)
  BY HookKeepsReplies, AnswerUnchanged
<1>2. CASE call'[c] = call[c]
  BY <1>1, <1>2 DEF GateStep, GateOf
<1>3. CASE b = c /\ Poll(c) /\ row[c] = "approved"
  <2>1. call[c] = "polling" /\ call'[c] = "allowed"
    BY <1>3 DEF Poll, Move, IInv, TypeOK
  <2>2. AcceptedAnswer(c) = "approved"
    BY <1>3, AnswerCases DEF IInv, DecidedByClick, Decisions
  <2> QED BY <1>1, <2>1, <2>2 DEF GateStep, GateOf
<1>4. CASE b = c /\ ~(Poll(c) /\ row[c] = "approved")
  <2>1. call[c] \notin Over /\ call'[c] # "allowed"
    BY <1>4 DEF Hook, Raises, Skip, NoChannel, Ask, Send, SendFails, Poll, LastPoll,
                ExpireRead, ExpireWrite, Move, Over, Decisions, IInv, TypeOK
  <2> QED BY <1>1, <2>1 DEF GateStep, GateOf, Over
<1>5. CASE b # c
  <2>1. call'[c] = call[c]
    BY <1>5, GateAssumption
       DEF Hook, Raises, Skip, NoChannel, Ask, Send, SendFails, Poll, LastPoll,
           ExpireRead, ExpireWrite, Move, IInv, TypeOK
  <2> QED BY <1>2, <2>1
<1> QED BY <1>3, <1>4, <1>5

LEMMA ApplyGateStep ==
  ASSUME IInv, IInv', NEW q \in Replies, NEW d \in Decisions, Apply(q, d),
         NEW c \in Sensitive
  PROVE  GateStep(c)
<1>1. c \in Calls /\ GateOf(c)' = GateOf(c) /\ target' = target
  BY GateAssumption DEF Apply, GateOf
<1>2. CASE row[target[q]] = "pending" /\ target[q] = c
  <2>1. AcceptedAnswer(c) = "none"
    BY <1>1, <1>2, FirstAccepted, AnswerCases
  <2>2. reply'[q] = d
    BY <1>2 DEF Apply, IInv, TypeOK
  <2>3. Accepted(c, d)'
    BY <1>1, <1>2, <2>2 DEF Accepted
  <2>4. AcceptedAnswer(c)' \in Decisions
    BY <1>1, <2>3 DEF AcceptedAnswer, Accepted, Decisions
  <2> QED BY <1>1, <2>1, <2>4 DEF GateStep
<1>3. CASE ~(row[target[q]] = "pending" /\ target[q] = c)
  <2>1. reply[q] \notin Decisions
    BY DEF Apply, CanApply, Decisions
  <2>2. \A p \in Replies : target[p] = c =>
          reply'[p] = reply[p] \/ (p = q /\ reply'[p] = "conflict")
    <3>1. \/ target[q] # c /\ \E to : reply' = [reply EXCEPT ![q] = to]
          \/ reply' = [reply EXCEPT ![q] = "conflict"]
      BY <1>3 DEF Apply
    <3>2. /\ \A p \in Replies \ {q} : reply'[p] = reply[p]
          /\ target[q] # c \/ reply'[q] = "conflict"
      BY <3>1 DEF IInv, TypeOK
    <3> QED BY <3>2
  <2>3. \A e \in Decisions : Accepted(c, e)' <=> Accepted(c, e)
    BY <1>1, <2>1, <2>2 DEF Accepted, Decisions
  <2>4. AcceptedAnswer(c)' = AcceptedAnswer(c)
    BY <2>3 DEF AcceptedAnswer, Decisions
  <2> QED BY <1>1, <2>4 DEF GateStep
<1> QED BY <1>2, <1>3

LEMMA NextGateStep ==
  ASSUME IInv, IInv', [Next]_vars, NEW c \in Sensitive
  PROVE  GateStep(c)
<1>0. c \in Calls
  BY GateAssumption
<1>1. ASSUME NEW b \in Calls, Hook(b) \/ Raises(b) PROVE GateStep(c)
  BY <1>1, HookGateStep
<1>2. ASSUME NEW q \in Replies, NEW d \in Decisions, Apply(q, d) PROVE GateStep(c)
  BY <1>2, ApplyGateStep
<1>3. ASSUME NEW q \in Replies, Check(q) PROVE GateStep(c)
  <2>1. call' = call /\ target' = target /\ reply[q] \notin Decisions
    BY <1>3 DEF Check, Decisions
  <2>2. \A p \in Replies : reply'[p] = reply[p] \/ (p = q /\ reply'[p] \notin Decisions)
    <3>1. \E to \in {"checked", "conflict"} : reply' = [reply EXCEPT ![q] = to]
      BY <1>3 DEF Check
    <3>2. \A p \in Replies \ {q} : reply'[p] = reply[p]
      BY <3>1 DEF IInv, TypeOK
    <3>3. reply'[q] \in {"checked", "conflict"}
      BY <3>1 DEF IInv, TypeOK
    <3> QED BY <3>2, <3>3 DEF Decisions
  <2>3. \A e \in Decisions : Accepted(c, e)' <=> Accepted(c, e)
    BY <2>1, <2>2 DEF Accepted
  <2>4. AcceptedAnswer(c)' = AcceptedAnswer(c)
    BY <2>3 DEF AcceptedAnswer, Decisions
  <2> QED BY <2>1, <2>4 DEF GateStep, GateOf
<1>4. CASE Abort
  <2>1. AcceptedAnswer(c)' = AcceptedAnswer(c)
    BY <1>4, AnswerUnchanged DEF Abort
  <2>2. call'[c] = IF call[c] \in Over THEN call[c] ELSE "aborted"
    BY <1>0, <1>4 DEF Abort
  <2> QED BY <2>1, <2>2 DEF GateStep, GateOf, Over
<1>5. CASE Sweep \/ UNCHANGED vars
  <2>1. call' = call /\ AcceptedAnswer(c)' = AcceptedAnswer(c)
    BY <1>5, AnswerUnchanged DEF Sweep, vars
  <2> QED BY <2>1 DEF GateStep, GateOf
<1> QED BY <1>1, <1>2, <1>3, <1>4, <1>5 DEF Next, Answer

(* The hook, the two surfaces and the sweeper together keep HumanGate's    *)
(* promise to every sensitive call: it runs only on an approval that was   *)
(* accepted, one answer is accepted at most, and none is taken back.       *)
THEOREM Refinement == Spec => Implements
<1>1. Init => Human!Init
  BY GateAssumption
  DEF Init, Human!Init, AcceptedAnswer, Accepted, GateOf
<1>2. IInv /\ IInv' /\ [Next]_vars => Human!Next
  <2> SUFFICES ASSUME IInv, IInv', [Next]_vars, NEW c \in Sensitive, GateStep(c)
               PROVE  \/ Human!Accept(c) \/ Human!Pass(c)
                      \/ Human!GiveUp(c) \/ Human!Stay(c)
    BY NextGateStep DEF Human!Next
  <2> QED BY DEF GateStep, Decisions, Human!Accept, Human!Pass, Human!GiveUp,
                 Human!Stay, Human!Answers
<1>3. Human!Next => [Human!Next]_<<[c \in Sensitive |-> AcceptedAnswer(c)],
                                    [c \in Sensitive |-> GateOf(c)]>>
  OBVIOUS
<1> QED BY <1>1, <1>2, <1>3, Invariance, PTL DEF Spec, Implements, Human!Spec
-----------------------------------------------------------------------------
(* The circuit breaker.                                                    *)

\* A step on the breaker's own counters, whoever it is that calls or ends.
LEMMA OneMoreBounds ==
  ASSUME NEW n \in Failures
  PROVE  OneMore(n) \in Failures /\ (n = FailureThreshold => OneMore(n) = FailureThreshold)
  BY BreakerAssumption DEF OneMore, Failures

(* The count the breaker keeps is the streak of failures, and while it is  *)
(* not closed that streak is as long as the threshold.  In a half-open     *)
(* round every call that was sent is a probe.  The callers of a round and  *)
(* those of it that were lost come out of the probes it counted, in the    *)
(* round and after it.                                                     *)
BreakerInv ==
  /\ BreakerTypeOK
  /\ breaker.failures = streak
  /\ tries = IF breaker.state = "half_open" THEN breaker.probes ELSE 0
  /\ breaker.state # "closed" => streak = FailureThreshold
  /\ IsFiniteSet(probing)
  /\ Cardinality(probing) + lost <= HalfOpenMaxCalls
  /\ breaker.state = "half_open" => Cardinality(probing) + lost <= breaker.probes
  /\ \A c \in probing : request[c] # "none"

ClosedType ==
  Closed \in [state : {"closed", "open", "half_open"}, failures : Failures,
              probes : 0 .. HalfOpenMaxCalls]

LEMMA ClosedTyped == ClosedType
  BY BreakerAssumption DEF Closed, ClosedType, Failures

LEMMA BreakerInitInv == BreakerInit => BreakerInv
<1> SUFFICES ASSUME BreakerInit PROVE BreakerInv
  OBVIOUS
<1>1. IsFiniteSet({}) /\ Cardinality({}) = 0
  BY FS_EmptySet
<1>2. ClosedType
  BY ClosedTyped
<1>4. 0 \in 0 .. HalfOpenMaxCalls /\ 0 \in Failures
  BY BreakerAssumption DEF Failures
<1>3. BreakerTypeOK
  BY <1>2, <1>4 DEF BreakerInit, BreakerTypeOK, ClosedType
<1> QED
  BY <1>1, <1>3, BreakerAssumption DEF BreakerInit, BreakerInv, Closed

LEMMA CallInv ==
  ASSUME BreakerInv, NEW c \in Callers, Call(c)
  PROVE  BreakerInv'
<1> USE DEF BreakerInv, BreakerTypeOK, Sent
<1>1. CASE CallClosed(c)
  BY <1>1 DEF CallClosed
<1>2. CASE CallCooled(c)
  <2>1. IsFiniteSet(probing') /\ Cardinality(probing') = 1
    BY <1>2, FS_Singleton DEF CallCooled
  <2>2. 1 \in 0 .. HalfOpenMaxCalls /\ 0 \in 0 .. HalfOpenMaxCalls
    BY BreakerAssumption
  <2>3. tries' = 1
    BY <1>2 DEF CallCooled
  <2>4. BreakerTypeOK'
    BY <1>2, <2>2, <2>3 DEF CallCooled
  <2> QED
    BY <1>2, <2>1, <2>2, <2>3, <2>4 DEF CallCooled
<1>3. CASE CallHalfOpen(c)
  <2>1. c \notin probing
    BY <1>3 DEF CallHalfOpen
  <2>2. IsFiniteSet(probing') /\ Cardinality(probing') = Cardinality(probing) + 1
    BY <1>3, <2>1, FS_AddElement DEF CallHalfOpen
  <2>3. Cardinality(probing) \in Nat
    BY FS_CardinalityType
  <2>4. breaker.probes + 1 \in 0 .. HalfOpenMaxCalls /\ breaker.probes \in Nat
    BY <1>3, BreakerAssumption DEF CallHalfOpen
  <2>5. tries' = breaker.probes + 1 /\ breaker' = [breaker EXCEPT !.probes = @ + 1]
    BY <1>3 DEF CallHalfOpen
  <2>6. BreakerTypeOK'
    BY <1>3, <2>4, <2>5 DEF CallHalfOpen
  <2>7. breaker'.state = "half_open" /\ breaker'.probes = breaker.probes + 1
        /\ breaker'.failures = breaker.failures
    BY <1>3, <2>5 DEF CallHalfOpen
  <2>8. /\ Cardinality(probing') + lost <= HalfOpenMaxCalls
        /\ Cardinality(probing') + lost <= breaker.probes + 1
    BY <1>3, <2>2, <2>3, <2>4, BreakerAssumption DEF CallHalfOpen
  <2> QED
    BY <1>3, <2>2, <2>5, <2>6, <2>7, <2>8 DEF CallHalfOpen
<1> QED
  BY <1>1, <1>2, <1>3 DEF Call

\* A caller that ends leaves its round.
LEMMA EndedLeaves ==
  ASSUME BreakerInv, NEW c \in Callers, Ended(c)
  PROVE  /\ IsFiniteSet(probing') /\ Cardinality(probing) \in Nat /\ Cardinality(probing') \in Nat
         /\ Cardinality(probing') = Cardinality(probing) - (IF c \in probing THEN 1 ELSE 0)
         /\ probing' \subseteq Callers /\ service' \in {"up", "down"}
         /\ request' \in [Callers -> {"none", "up", "down"}]
         /\ \A o \in probing' : request'[o] # "none"
<1>1. IsFiniteSet(probing) /\ probing' = probing \ {c}
  BY DEF BreakerInv, Ended
<1>2. /\ Cardinality(probing) \in Nat
      /\ Cardinality(probing') = Cardinality(probing) - (IF c \in probing THEN 1 ELSE 0)
      /\ IsFiniteSet(probing') /\ Cardinality(probing') \in Nat
  BY <1>1, FS_CardinalityType, FS_RemoveElement
<1> QED
  BY <1>2 DEF BreakerInv, BreakerTypeOK, Ended

LEMMA EndsInv ==
  ASSUME BreakerInv, NEW c \in Callers, Ends(c)
  PROVE  BreakerInv'
<1>1. Ended(c)
  BY DEF Ends, Succeeds, Fails, Unreported
<1>2. /\ IsFiniteSet(probing') /\ Cardinality(probing) \in Nat /\ Cardinality(probing') \in Nat
      /\ Cardinality(probing') = Cardinality(probing) - (IF c \in probing THEN 1 ELSE 0)
      /\ probing' \subseteq Callers /\ service' \in {"up", "down"}
      /\ request' \in [Callers -> {"none", "up", "down"}]
      /\ \A o \in probing' : request'[o] # "none"
  BY <1>1, EndedLeaves
<1>3. HalfOpenMaxCalls \in Nat /\ FailureThreshold \in Nat \ {0} /\ lost \in Nat
  BY BreakerAssumption DEF BreakerInv, BreakerTypeOK
<1>4. CASE Succeeds(c)
  <2>1. BreakerTypeOK'
    BY <1>2, <1>3, <1>4, ClosedTyped DEF Succeeds, RecordSuccess, ClosedType, BreakerInv, BreakerTypeOK, Failures
  <2> QED
    BY <1>2, <1>3, <1>4, <2>1 DEF Succeeds, RecordSuccess, Closed, BreakerInv
<1>5. CASE Fails(c)
  <2>1. OneMore(streak) \in Failures /\ (streak = FailureThreshold => OneMore(streak) = FailureThreshold)
    BY OneMoreBounds DEF BreakerInv, BreakerTypeOK
  <2>2. OneMore(streak) >= FailureThreshold => OneMore(streak) = FailureThreshold
    BY <1>3, <2>1 DEF Failures
  <2>3. /\ breaker' \in [state : {"closed", "open", "half_open"}, failures : Failures,
                         probes : 0 .. HalfOpenMaxCalls]
        /\ breaker'.failures = OneMore(streak)
        /\ breaker'.state # "half_open"
        /\ breaker'.state # "closed" => OneMore(streak) = FailureThreshold
    BY <1>5, <2>1, <2>2 DEF Fails, RecordFailure, BreakerInv, BreakerTypeOK
  <2>4. tries' = 0 /\ 0 \in 0 .. HalfOpenMaxCalls /\ cooled' = FALSE /\ lost' = lost
    BY <1>3, <1>5 DEF Fails
  <2>5. streak' \in Failures
    BY <1>5, <2>1 DEF Fails
  <2>6. BreakerTypeOK'
    BY <1>2, <2>3, <2>4, <2>5 DEF BreakerInv, BreakerTypeOK
  <2> QED
    BY <1>2, <1>3, <1>5, <2>3, <2>4, <2>6 DEF Fails, BreakerInv
<1>6. CASE Unreported(c)
  <2>1. lost' \in 0 .. HalfOpenMaxCalls
    BY <1>2, <1>3, <1>6 DEF Unreported, BreakerInv
  <2>2. BreakerTypeOK'
    BY <1>2, <1>6, <2>1 DEF Unreported, BreakerInv, BreakerTypeOK
  <2>3. /\ Cardinality(probing') + lost' = Cardinality(probing) + lost
        /\ UNCHANGED <<breaker, streak, tries>>
    BY <1>2, <1>3, <1>6 DEF Unreported
  <2> QED
    BY <1>2, <2>2, <2>3 DEF BreakerInv
<1> QED
  BY <1>4, <1>5, <1>6 DEF Ends

LEMMA BreakerNextInv == BreakerInv /\ [BreakerNext]_breakerVars => BreakerInv'
<1> SUFFICES ASSUME BreakerInv, [BreakerNext]_breakerVars PROVE BreakerInv'
  OBVIOUS
<1>1. CASE Reset
  <2>1. 0 \in Failures
    BY BreakerAssumption DEF Failures
  <2>2. BreakerTypeOK'
    BY <1>1, <2>1, ClosedTyped, BreakerAssumption
    DEF ClosedType, Reset, BreakerInv, BreakerTypeOK
  <2>3. breaker'.failures = 0 /\ breaker'.state = "closed" /\ streak' = 0 /\ tries' = 0
    BY <1>1 DEF Reset, Closed
  <2> QED
    BY <1>1, <2>2, <2>3 DEF Reset, BreakerInv
<1>2. CASE Cool
  BY <1>2 DEF Cool, BreakerInv, BreakerTypeOK
<1>3. CASE Turns
  BY <1>3 DEF Turns, BreakerInv, BreakerTypeOK
<1>4. CASE \E c \in Callers : Call(c) \/ Ends(c)
  BY <1>4, CallInv, EndsInv
<1>5. CASE UNCHANGED breakerVars
  BY <1>5 DEF breakerVars, BreakerInv, BreakerTypeOK
<1> QED
  BY <1>1, <1>2, <1>3, <1>4, <1>5 DEF BreakerNext

(* The breaker's state and its callers keep their types.                   *)
THEOREM BreakerTypeCorrect == BreakerSpec => []BreakerTypeOK
<1>1. BreakerInv => BreakerTypeOK
  BY DEF BreakerInv
<1> QED
  BY <1>1, BreakerInitInv, BreakerNextInv, PTL DEF BreakerSpec

(* The breaker refuses calls only after FailureThreshold failures in a row *)
(* and lets no more than HalfOpenMaxCalls of a round through, in whatever  *)
(* order the answers of old calls and of probes come in, for any number of *)
(* callers.                                                                *)
THEOREM RefusesJustlyHolds == BreakerSpec => []RefusesJustly
<1>1. BreakerInv => RefusesJustly
  <2> SUFFICES ASSUME BreakerInv PROVE RefusesJustly
    OBVIOUS
  <2>1. Cardinality(probing) \in Nat /\ lost \in Nat
    BY FS_CardinalityType, BreakerAssumption DEF BreakerInv, BreakerTypeOK
  <2> QED
    BY <2>1, BreakerAssumption
       DEF BreakerInv, BreakerTypeOK, RefusesJustly, RefusalsEarned, ProbesLimited
<1> QED
  BY <1>1, BreakerInitInv, BreakerNextInv, PTL DEF BreakerSpec
=============================================================================
