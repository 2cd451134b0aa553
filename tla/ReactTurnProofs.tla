--------------------------- MODULE ReactTurnProofs --------------------------
EXTENDS ReactTurnProps, LibraryProofs

Given == {"answer", "final", "done"}

Loops == [it : Nat, parts : SUBSET Nat, checks : SUBSET Nat,
          pending : BOOLEAN, checked : BOOLEAN, conts : Nat]
Jobs == [running : SUBSET Nat, finished : SUBSET Nat]
Answers == [kind : {"none", "inline", "finish", "summary"}, text : SUBSET Nat, cut : BOOLEAN]

(* What a turn in phase p has in hand: the loop's variables l, its tasks k *)
(* and its answer a.                                                       *)
Sound(t, p, l, k, a) ==
  /\ l \in [it : Iterations(t), parts : SUBSET Iterations(t),
            checks : SUBSET Iterations(t), pending : BOOLEAN,
            checked : BOOLEAN, conts : 0 .. MaxContinuations]
  /\ k \in [running : SUBSET Iterations(t), finished : SUBSET Iterations(t)]
  /\ a \in [kind : {"none", "inline", "finish", "summary"},
            text : SUBSET Iterations(t), cut : BOOLEAN]
  \* another iteration follows the wait for background tasks
  /\ p = "join" => l.it < Last(t)
  /\ p \notin Given => a = NoAnswer
  /\ p \notin InLoop \cup Given => l = FreshLoop
  \* no task outlives the loop, and none is started in json mode
  /\ p \notin InLoop \/ Mode[t] = "json" => k = NoTasks
  /\ a.kind \in {"inline", "finish"} /\ a.cut => l.it = Last(t)
  \* what was written to the checklist is no part of an answer once it is consumed
  /\ ~l.pending => l.parts \cap l.checks = {}
  /\ p \in InLoop => \A i \in l.checks : i < l.it \/ (i = l.it /\ p = "join")
  /\ a.kind = "inline" /\ l.it < Last(t) => a.text \cap l.checks = {}

TurnsSound ==
  /\ phase \in [Turns -> InLoop \cup Given \cup {"idle", "closing", "over"}]
  /\ loop \in [Turns -> Loops] /\ tasks \in [Turns -> Jobs] /\ answer \in [Turns -> Answers]
  /\ queues \in Turns \cup {NoTurn}
  /\ queues # NoTurn => phase[queues] \notin {"idle", "over"}
  \* an abandoned loop is at work, and its queue is not the broker's any more
  /\ abandoned \subseteq Turns
  /\ \A t \in abandoned : queues # t /\ phase[t] # "idle"
  /\ \A t \in Turns : Sound(t, phase[t], loop[t], tasks[t], answer[t])

(* Where a message that was accepted for turn t may be.                    *)
MessageSound(m) ==
  /\ at[m] \in {"unsent", "refused"} => owner[m] = NoTurn /\ m \notin late
  /\ at[m] = "dropped" => m \in recalled
  /\ m \in recalled => at[m] \in {"queued", "dropped"}
  /\ \A t \in Turns : owner[m] = t =>
       /\ at[m] = "queued" /\ phase[t] = "done" => m \in late
       /\ at[m] = "drained" => phase[t] # "model"
       /\ at[m] = "drained" /\ phase[t] \in Given =>
            loop[t].it = Last(t) \/ answer[t].kind = "summary"

InboxSound ==
  /\ at \in [Messages -> {"unsent", "refused", "queued", "drained", "seen", "returned", "dropped"}]
  /\ owner \in [Messages -> Turns \cup {NoTurn}]
  /\ recalled \subseteq Messages /\ late \subseteq Messages
  /\ \A m \in Messages : MessageSound(m)

(* No call was run more often than it was asked for.                       *)
CountsSound ==
  /\ counts \in [Turns -> [Calls -> Nat]] /\ ran \in [Turns -> [Calls -> Nat]]
  /\ \A t \in Turns, c \in Calls :
       /\ ran[t][c] <= counts[t][c] /\ ran[t][c] < BlockAt
       /\ SumOver(ran[t], SameEndpoint(c)) < EndpointBlockAt

Inv == TurnsSound /\ InboxSound /\ CountsSound

-----------------------------------------------------------------------------
(* The loop, its tasks and its answer.                                     *)

LEMMA LimitsTyped ==
  ASSUME NEW t \in Turns
  PROVE  /\ Last(t) \in Nat \ {0} /\ Iterations(t) \subseteq Nat
         /\ 1 \in Iterations(t) /\ MaxContinuations \in Nat
<1>1. MaxIterations[t] \in Nat \ {0} /\ MaxContinuations \in Nat
  BY ReactAssumption
<1> QED
  BY <1>1 DEF Last, Iterations

LEMMA FreshSound ==
  ASSUME NEW t \in Turns, NEW p \in {"idle", "begin", "closing", "over"}
  PROVE  Sound(t, p, FreshLoop, NoTasks, NoAnswer)
<1>1. 0 \in 0 .. MaxContinuations
  BY LimitsTyped
<1> QED
  BY <1>1, LimitsTyped DEF Sound, FreshLoop, NoTasks, NoAnswer, Given, InLoop

(* A step of turn t leaves the other turns alone.                          *)
Alone(t) ==
  /\ phase' = [phase EXCEPT ![t] = phase'[t]]
  /\ loop' = [loop EXCEPT ![t] = loop'[t]]
  /\ tasks' = [tasks EXCEPT ![t] = tasks'[t]]
  /\ answer' = [answer EXCEPT ![t] = answer'[t]]

LEMMA OneTurn ==
  ASSUME TurnsSound, NEW t \in Turns, Alone(t),
         phase'[t] \in InLoop \cup Given \cup {"closing", "over"},
         Sound(t, phase'[t], loop'[t], tasks'[t], answer'[t]),
         \/ UNCHANGED served /\ phase'[t] # "over"
         \/ queues' = t /\ abandoned' = abandoned /\ t \notin abandoned /\ phase'[t] # "over"
         \/ queues' = NoTurn /\ abandoned' \subseteq abandoned
         \/ queues' = queues /\ queues # t /\ abandoned' = abandoned \ {t}
  PROVE  TurnsSound'
<1>1. Iterations(t) \subseteq Nat /\ MaxContinuations \in Nat
  BY LimitsTyped
<1>2. loop'[t] \in Loops /\ tasks'[t] \in Jobs /\ answer'[t] \in Answers
  BY <1>1 DEF Sound, Loops, Jobs, Answers
<1>3. /\ phase' \in [Turns -> InLoop \cup Given \cup {"idle", "closing", "over"}]
      /\ loop' \in [Turns -> Loops] /\ tasks' \in [Turns -> Jobs]
      /\ answer' \in [Turns -> Answers]
  BY <1>2 DEF TurnsSound, Alone
<1>4. ASSUME NEW o \in Turns, o # t
      PROVE  /\ phase'[o] = phase[o] /\ loop'[o] = loop[o]
             /\ tasks'[o] = tasks[o] /\ answer'[o] = answer[o]
  BY <1>4 DEF TurnsSound, Alone
<1>5. \A o \in Turns : Sound(o, phase'[o], loop'[o], tasks'[o], answer'[o])
  BY <1>4 DEF TurnsSound
<1>6. phase'[t] # "idle"
  BY DEF InLoop, Given
<1>7. queues' \in Turns \cup {NoTurn}
      /\ (queues' # NoTurn => phase'[queues'] \notin {"idle", "over"})
  BY <1>4, <1>6 DEF TurnsSound, served
<1>8. abandoned' \subseteq Turns
      /\ (\A o \in abandoned' : queues' # o /\ phase'[o] # "idle")
  BY <1>4, <1>6, ReactAssumption DEF TurnsSound, served
<1> QED
  BY <1>3, <1>5, <1>7, <1>8 DEF TurnsSound

(* Loop variables a turn may go on or end with.                            *)
LoopSound(t, l) ==
  /\ l \in [it : Iterations(t), parts : SUBSET Iterations(t),
            checks : SUBSET Iterations(t), pending : BOOLEAN,
            checked : BOOLEAN, conts : 0 .. MaxContinuations]
  /\ ~l.pending => l.parts \cap l.checks = {}
  /\ \A i \in l.checks : i <= l.it

LEMMA SoundParts ==
  ASSUME TurnsSound, NEW t \in Turns
  PROVE  /\ Sound(t, phase[t], loop[t], tasks[t], answer[t])
         /\ phase[t] \in InLoop => LoopSound(t, loop[t]) /\ answer[t] = NoAnswer
<1>1. Sound(t, phase[t], loop[t], tasks[t], answer[t])
  BY DEF TurnsSound
<1>2. ASSUME phase[t] \in InLoop PROVE LoopSound(t, loop[t]) /\ answer[t] = NoAnswer
  <2>1. Iterations(t) \subseteq Nat
    BY LimitsTyped
  <2> QED
    BY <1>1, <1>2, <2>1 DEF Sound, LoopSound, Given, InLoop
<1> QED
  BY <1>1, <1>2

LEMMA ReturnsSound ==
  ASSUME TurnsSound, NEW t \in Turns, phase[t] \in InLoop,
         NEW kind \in {"inline", "finish", "summary"}, NEW text \in SUBSET Iterations(t),
         NEW l, LoopSound(t, l), Returns(t, kind, text, l),
         kind \in {"inline", "finish"} /\ HasTasks(t) => l.it = Last(t),
         kind = "inline" /\ l.it < Last(t) => text \cap l.checks = {}
  PROVE  /\ TurnsSound' /\ Alone(t) /\ phase'[t] = "answer" /\ loop'[t] = l
         /\ answer'[t].kind = kind
<1>1. /\ phase'[t] = "answer" /\ loop'[t] = l /\ tasks'[t] = NoTasks
      /\ answer'[t] = [kind |-> kind, text |-> text, cut |-> HasTasks(t)]
      /\ UNCHANGED served /\ Alone(t)
  BY DEF TurnsSound, Returns, Alone
<1>2. HasTasks(t) \in BOOLEAN
  BY DEF HasTasks
<1>3. answer'[t] \in [kind : {"none", "inline", "finish", "summary"},
                      text : SUBSET Iterations(t), cut : BOOLEAN]
  BY <1>1, <1>2
<1>4. NoTasks \in [running : SUBSET Iterations(t), finished : SUBSET Iterations(t)]
  BY DEF NoTasks
<1>5. answer'[t].kind = kind /\ answer'[t].text = text /\ answer'[t].cut = HasTasks(t)
  BY <1>1
<1>6. Sound(t, "answer", l, NoTasks, answer'[t])
  BY <1>3, <1>4, <1>5 DEF Sound, LoopSound, Given, InLoop
<1> QED
  BY <1>1, <1>5, <1>6, OneTurn DEF Given

LEMMA GoesOnSound ==
  ASSUME TurnsSound, NEW t \in Turns, phase[t] \in InLoop,
         NEW l, LoopSound(t, l), l.it < Last(t), GoesOn(t, l)
  PROVE  /\ TurnsSound' /\ Alone(t) /\ phase'[t] = "begin"
         /\ answer'[t] = answer[t]
<1> DEFINE n == [l EXCEPT !.it = @ + 1]
<1>1. /\ phase'[t] = "begin" /\ loop'[t] = n /\ tasks'[t] = tasks[t]
      /\ answer'[t] = answer[t] /\ UNCHANGED served /\ Alone(t)
  BY DEF TurnsSound, GoesOn, Alone
<1>2. Sound(t, phase[t], loop[t], tasks[t], answer[t]) /\ answer[t] = NoAnswer
  BY SoundParts
<1>3. /\ n \in [it : Iterations(t), parts : SUBSET Iterations(t),
                checks : SUBSET Iterations(t), pending : BOOLEAN,
                checked : BOOLEAN, conts : 0 .. MaxContinuations]
      /\ n.it = l.it + 1 /\ n.parts = l.parts /\ n.checks = l.checks /\ n.pending = l.pending
  <2>1. l.it \in Iterations(t)
    BY DEF LoopSound
  <2>2. l.it + 1 \in Iterations(t)
    BY <2>1, LimitsTyped DEF Iterations
  <2> QED
    BY <2>2 DEF LoopSound
<1>4. \A i \in l.checks : i < l.it + 1
  BY LimitsTyped DEF LoopSound
<1>5. Sound(t, "begin", n, tasks[t], answer[t])
  <2> HIDE DEF n
  <2>1. NoAnswer.kind = "none" /\ NoAnswer.cut = FALSE
    BY DEF NoAnswer
  <2> QED
    BY <1>2, <1>3, <1>4, <2>1 DEF Sound, LoopSound, Given, InLoop
<1> QED
  BY <1>1, <1>5, OneTurn DEF InLoop

LEMMA AwaitSound ==
  ASSUME TurnsSound, NEW t \in Turns, phase[t] \in InLoop,
         NEW l, LoopSound(t, l), l.it < Last(t), AwaitTasks(t, l)
  PROVE  /\ TurnsSound' /\ Alone(t) /\ phase'[t] = "join"
         /\ answer'[t] = answer[t]
<1>1. /\ phase'[t] = "join" /\ loop'[t] = l /\ tasks'[t] = tasks[t]
      /\ answer'[t] = answer[t] /\ UNCHANGED served /\ Alone(t)
  BY DEF TurnsSound, AwaitTasks, Alone
<1>2. Sound(t, phase[t], loop[t], tasks[t], answer[t]) /\ answer[t] = NoAnswer
  BY SoundParts
<1>3. \A i \in l.checks : i < l.it \/ i = l.it
  BY LimitsTyped DEF LoopSound
<1>4. Sound(t, "join", l, tasks[t], answer[t])
  <2>1. NoAnswer.kind = "none" /\ NoAnswer.cut = FALSE
    BY DEF NoAnswer
  <2> QED
    BY <1>2, <1>3, <2>1 DEF Sound, LoopSound, Given, InLoop
<1> QED
  BY <1>1, <1>4, OneTurn DEF InLoop

\* What a step does to the phase and the answer, as far as messages care.
Outcome(t, may) ==
  /\ TurnsSound' /\ Alone(t)
  /\ phase'[t] \notin {"model", "done"}
  /\ phase'[t] \in Given => may

LEMMA TextSound ==
  ASSUME TurnsSound, NEW t \in Turns, Text(t)
  PROVE  Outcome(t, loop'[t].it = Last(t) \/ Waiting(t) = {})
<1> DEFINE it == loop[t].it
           l == IF loop[t].pending THEN [loop[t] EXCEPT !.checks = @ \cup {it}] ELSE loop[t]
           whole == l.parts \cup {it}
           stitched == [l EXCEPT !.parts = {}]
           waits == Mode[t] = "native" /\ Waits(t)
<1>1. phase[t] = "model" /\ phase[t] \in InLoop
  BY DEF Text, InLoop
<1>2. /\ Sound(t, phase[t], loop[t], tasks[t], answer[t])
      /\ LoopSound(t, loop[t]) /\ answer[t] = NoAnswer
  BY <1>1, SoundParts
<1>3. it \in Iterations(t) /\ it \in Nat /\ it <= Last(t) /\ it \notin loop[t].checks
  BY <1>1, <1>2, LimitsTyped DEF Sound, LoopSound, Iterations
<1>4. /\ LoopSound(t, l) /\ l.it = it /\ l.pending = loop[t].pending
      /\ l.parts = loop[t].parts /\ l.conts = loop[t].conts
      /\ ~l.pending => l.checks = loop[t].checks
  BY <1>2, <1>3 DEF LoopSound
<1> HIDE DEF l
<1>5. /\ LoopSound(t, stitched) /\ stitched.it = it /\ stitched.parts = {}
      /\ stitched.checks = l.checks /\ stitched.pending = l.pending
  BY <1>4 DEF LoopSound
<1>6. whole \in SUBSET Iterations(t)
  BY <1>3, <1>4 DEF LoopSound
<1>7. More(t) <=> it < Last(t)
  BY DEF More
<1>8. CASE Interrupted(t) /\ GoesOn(t, l)
  BY <1>1, <1>4, <1>7, <1>8, GoesOnSound DEF Interrupted, Outcome, Given
<1>9. CASE /\ ~Interrupted(t) /\ Mode[t] = "native" /\ More(t) /\ l.conts < MaxContinuations
           /\ \E parts \in {l.parts, whole} :
                GoesOn(t, [l EXCEPT !.conts = @ + 1, !.parts = parts])
  <2>1. PICK parts \in {l.parts, whole} :
               GoesOn(t, [l EXCEPT !.conts = @ + 1, !.parts = parts])
    BY <1>9
  <2> DEFINE n == [l EXCEPT !.conts = @ + 1, !.parts = parts]
  <2>2. parts \in SUBSET Iterations(t) /\ (~l.pending => parts \cap l.checks = {})
    BY <1>3, <1>4, <1>6 DEF LoopSound
  <2>3. l.conts + 1 \in 0 .. MaxContinuations
    BY <1>4, <1>9, LimitsTyped DEF LoopSound
  <2>4. LoopSound(t, n) /\ n.it = it
    BY <1>4, <2>2, <2>3 DEF LoopSound
  <2> QED
    BY <1>1, <1>7, <1>9, <2>1, <2>4, GoesOnSound DEF Outcome, Given
<1>10. CASE ~Interrupted(t) /\ waits /\ AwaitTasks(t, stitched)
  BY <1>1, <1>5, <1>7, <1>10, AwaitSound DEF Waits, Outcome, Given
<1>11. CASE /\ ~Interrupted(t) /\ ~waits /\ (~l.checked /\ it < Last(t) - 1)
            /\ GoesOn(t, [stitched EXCEPT !.checked = TRUE, !.pending = TRUE])
  <2> DEFINE n == [stitched EXCEPT !.checked = TRUE, !.pending = TRUE]
  <2>1. LoopSound(t, n) /\ n.it = it
    BY <1>5 DEF LoopSound
  <2>2. it < Last(t)
    BY <1>3, <1>11, LimitsTyped
  <2> QED
    BY <1>1, <1>11, <2>1, <2>2, GoesOnSound DEF Outcome, Given
<1>12. CASE /\ ~Interrupted(t) /\ ~waits /\ Consumes(t)
            /\ GoesOn(t, [stitched EXCEPT !.pending = FALSE])
  <2> DEFINE n == [stitched EXCEPT !.pending = FALSE]
  <2>1. LoopSound(t, n) /\ n.it = it
    BY <1>5 DEF LoopSound
  <2> QED
    BY <1>1, <1>7, <1>12, <2>1, GoesOnSound DEF Consumes, Outcome, Given
<1>13. CASE /\ ~Interrupted(t) /\ ~waits /\ ~Consumes(t)
            /\ Returns(t, "inline", whole, [stitched EXCEPT !.pending = FALSE])
  <2> DEFINE n == [stitched EXCEPT !.pending = FALSE]
  <2>1. LoopSound(t, n) /\ n.it = it /\ n.checks = l.checks
    BY <1>5 DEF LoopSound
  <2>2. it < Last(t) => whole \cap n.checks = {}
    BY <1>3, <1>4, <1>7, <1>13, <2>1 DEF Consumes, LoopSound
  <2>3. HasTasks(t) => it = Last(t)
    <3>1. CASE Mode[t] = "native"
      BY <1>3, <1>7, <1>13, <3>1, LimitsTyped DEF Waits
    <3>2. CASE Mode[t] = "json"
      BY <1>2, <3>2 DEF Sound, NoTasks, HasTasks
    <3> QED
      BY <3>1, <3>2, ReactAssumption
  <2>4. Waiting(t) = {} \/ it = Last(t)
    BY <1>3, <1>7, <1>13, LimitsTyped DEF Interrupted
  <2> HIDE DEF n, whole
  <2> QED
    BY <1>1, <1>6, <1>13, <2>1, <2>2, <2>3, <2>4, ReturnsSound DEF Outcome, Given, n
<1> QED
  BY <1>8, <1>9, <1>10, <1>11, <1>12, <1>13 DEF Text, l

LEMMA FinishSound ==
  ASSUME TurnsSound, NEW t \in Turns, Finish(t)
  PROVE  Outcome(t, Drain(t, "drained") /\ (loop'[t].it = Last(t) \/ Waiting(t) = {}))
<1> DEFINE it == loop[t].it
           n == [loop[t] EXCEPT !.checked = TRUE, !.pending = TRUE]
<1>1. phase[t] = "model" /\ phase[t] \in InLoop
  BY DEF Finish, InLoop
<1>2. LoopSound(t, loop[t]) /\ it <= Last(t) /\ it \in Nat /\ (More(t) <=> it < Last(t))
  BY <1>1, SoundParts, LimitsTyped DEF LoopSound, Iterations, More
<1>3. CASE Waits(t) /\ AwaitTasks(t, loop[t])
  BY <1>1, <1>2, <1>3, AwaitSound DEF Waits, Outcome, Given
<1>4. CASE ~Waits(t) /\ it < Last(t) - 1 /\ GoesOn(t, n)
  <2>1. LoopSound(t, n) /\ n.it = it
    BY <1>2 DEF LoopSound
  <2>2. it < Last(t)
    BY <1>2, <1>4, LimitsTyped
  <2> QED
    BY <1>1, <1>4, <2>1, <2>2, GoesOnSound DEF Outcome, Given
<1>5. CASE ~Waits(t) /\ Drain(t, "drained") /\ Interrupted(t) /\ GoesOn(t, loop[t])
  BY <1>1, <1>2, <1>5, GoesOnSound DEF Interrupted, Outcome, Given
<1>6. CASE /\ ~Waits(t) /\ Drain(t, "drained") /\ ~Interrupted(t)
           /\ Returns(t, "finish", {}, loop[t])
  <2>1. HasTasks(t) => it = Last(t)
    BY <1>2, <1>6, LimitsTyped DEF Waits
  <2>2. Waiting(t) = {} \/ it = Last(t)
    BY <1>2, <1>6, LimitsTyped DEF Interrupted
  <2> QED
    BY <1>1, <1>2, <1>6, <2>1, <2>2, ReturnsSound DEF Outcome
<1> QED
  BY <1>3, <1>4, <1>5, <1>6 DEF Finish

LEMMA ToolsReturnSound ==
  ASSUME TurnsSound, NEW t \in Turns, ToolsReturn(t)
  PROVE  Outcome(t, answer'[t].kind = "summary")
<1>1. phase[t] \in InLoop /\ LoopSound(t, loop[t])
  BY SoundParts DEF ToolsReturn, InLoop
<1>2. CASE loop[t].it < Last(t) /\ GoesOn(t, loop[t])
  BY <1>1, <1>2, GoesOnSound DEF Outcome, Given
<1>3. CASE Returns(t, "summary", {}, loop[t])
  BY <1>1, <1>3, ReturnsSound DEF Outcome
<1> QED
  BY <1>2, <1>3 DEF ToolsReturn

LEMMA BudgetSound ==
  ASSUME TurnsSound, NEW t \in Turns, OutOfBudget(t)
  PROVE  Outcome(t, answer'[t].kind = "summary")
<1>1. phase[t] \in InLoop /\ LoopSound(t, loop[t])
  BY SoundParts DEF OutOfBudget, InLoop
<1> QED
  BY <1>1, ReturnsSound DEF OutOfBudget, Outcome

LEMMA GarbledSound ==
  ASSUME TurnsSound, NEW t \in Turns, Garbled(t)
  PROVE  Outcome(t, FALSE)
<1>1. phase[t] \in InLoop /\ LoopSound(t, loop[t])
  BY SoundParts DEF Garbled, InLoop
<1> QED
  BY <1>1, GoesOnSound DEF Garbled, Outcome, Given

LEMMA JoinedSound ==
  ASSUME TurnsSound, NEW t \in Turns, Joined(t)
  PROVE  Outcome(t, FALSE)
<1> DEFINE n == [loop[t] EXCEPT !.it = @ + 1]
<1>1. /\ phase'[t] = "begin" /\ loop'[t] = n /\ tasks'[t] = NoTasks
      /\ answer'[t] = answer[t] /\ UNCHANGED served /\ Alone(t)
  BY DEF TurnsSound, Joined, Alone
<1>2. /\ phase[t] = "join" /\ phase[t] \in InLoop
      /\ Sound(t, phase[t], loop[t], tasks[t], answer[t])
      /\ LoopSound(t, loop[t]) /\ answer[t] = NoAnswer
  BY SoundParts DEF Joined, InLoop
<1>3. loop[t].it \in Iterations(t) /\ loop[t].it < Last(t)
  BY <1>2 DEF Sound
<1>4. loop[t].it + 1 \in Iterations(t)
  BY <1>3, LimitsTyped DEF Iterations
<1>5. /\ LoopSound(t, loop[t]) /\ n.it = loop[t].it + 1 /\ n.parts = loop[t].parts
      /\ n.checks = loop[t].checks /\ n.pending = loop[t].pending
      /\ n \in [it : Iterations(t), parts : SUBSET Iterations(t),
                checks : SUBSET Iterations(t), pending : BOOLEAN,
                checked : BOOLEAN, conts : 0 .. MaxContinuations]
  BY <1>2, <1>4 DEF LoopSound
<1>6. \A i \in loop[t].checks : i < loop[t].it + 1
  BY <1>2, <1>3, LimitsTyped DEF LoopSound
<1>7. Sound(t, "begin", n, NoTasks, answer[t])
  <2> HIDE DEF n
  <2>1. /\ NoAnswer.kind = "none" /\ NoAnswer.cut = FALSE
        /\ NoTasks \in [running : SUBSET Iterations(t), finished : SUBSET Iterations(t)]
    BY DEF NoAnswer, NoTasks
  <2> QED
    BY <1>2, <1>5, <1>6, <2>1 DEF Sound, LoopSound, Given, InLoop
<1> QED
  BY <1>1, <1>7, OneTurn DEF Outcome, Given, InLoop

LEMMA AskSound ==
  ASSUME TurnsSound, NEW t \in Turns, Ask(t)
  PROVE  TurnsSound' /\ Alone(t) /\ phase'[t] = "model"
<1> DEFINE k == [tasks[t] EXCEPT !.finished = {}]
<1>1. /\ phase'[t] = "model" /\ loop'[t] = loop[t] /\ tasks'[t] = k
      /\ answer'[t] = answer[t] /\ UNCHANGED served /\ Alone(t)
  BY DEF TurnsSound, Ask, Alone
<1>2. /\ phase[t] = "begin" /\ Sound(t, "begin", loop[t], tasks[t], answer[t])
  BY SoundParts DEF Ask
<1>3. k \in [running : SUBSET Iterations(t), finished : SUBSET Iterations(t)]
      /\ (tasks[t] = NoTasks => k = NoTasks)
  BY <1>2 DEF Sound, NoTasks
<1>4. Sound(t, "model", loop[t], k, answer[t])
  <2> HIDE DEF k
  <2> QED BY <1>2, <1>3 DEF Sound, Given, InLoop
<1> QED
  BY <1>1, <1>4, OneTurn DEF InLoop

LEMMA TaskEndsSound ==
  ASSUME TurnsSound, NEW t \in Turns, NEW i \in Iterations(t), TaskEnds(t, i)
  PROVE  TurnsSound' /\ Alone(t)
<1> DEFINE k == [running |-> tasks[t].running \ {i}, finished |-> tasks[t].finished \cup {i}]
<1>1. /\ phase'[t] = phase[t] /\ loop'[t] = loop[t] /\ tasks'[t] = k
      /\ answer'[t] = answer[t] /\ UNCHANGED served /\ Alone(t)
  BY DEF TurnsSound, TaskEnds, Alone
<1>2. Sound(t, phase[t], loop[t], tasks[t], answer[t]) /\ tasks[t] # NoTasks
  BY SoundParts DEF TaskEnds, NoTasks
<1>3. k \in [running : SUBSET Iterations(t), finished : SUBSET Iterations(t)]
  BY <1>2 DEF Sound
<1>4. Sound(t, phase[t], loop[t], k, answer[t]) /\ phase[t] \in InLoop
  <2> HIDE DEF k
  <2> QED BY <1>2, <1>3 DEF Sound
<1>5. phase[t] \notin {"idle", "over"}
  BY <1>4 DEF InLoop
<1> QED
  BY <1>1, <1>4, <1>5, OneTurn

LEMMA UseToolsSound ==
  ASSUME TurnsSound, NEW t \in Turns, NEW batch \in Batches, UseTools(t, batch)
  PROVE  TurnsSound' /\ Alone(t) /\ phase'[t] = "tools"
<1>1. /\ phase'[t] = "tools" /\ loop'[t] = loop[t] /\ answer'[t] = answer[t]
      /\ UNCHANGED served /\ Alone(t)
  BY DEF TurnsSound, UseTools, Alone
<1>2. phase[t] = "model" /\ Sound(t, "model", loop[t], tasks[t], answer[t])
  BY SoundParts DEF UseTools
<1>3. \/ tasks'[t] = tasks[t]
      \/ /\ tasks'[t] = [tasks[t] EXCEPT !.running = @ \cup {loop[t].it}]
         /\ Mode[t] # "json"
  <2>1. ASSUME NEW k \in Executed(t, batch), batch[k] \in Background, Mode[t] = "json"
        PROVE  FALSE
    <3>1. Len(batch) = 1 /\ batch[1] \notin Background /\ batch \in Seq(Calls)
      BY <2>1, ReactAssumption DEF UseTools
    <3>2. k \in DOMAIN batch
      BY <2>1 DEF Executed
    <3> QED
      BY <2>1, <3>1, <3>2
  <2> QED
    BY <2>1 DEF UseTools, TurnsSound
<1>4. /\ tasks'[t] \in [running : SUBSET Iterations(t), finished : SUBSET Iterations(t)]
      /\ Mode[t] = "json" => tasks'[t] = tasks[t]
  BY <1>2, <1>3 DEF Sound
<1>5. Sound(t, "tools", loop[t], tasks'[t], answer[t])
  BY <1>2, <1>4 DEF Sound, Given, InLoop
<1> QED
  BY <1>1, <1>5, OneTurn DEF InLoop

\* The endpoint around the loop.
LEMMA StreamSound ==
  ASSUME TurnsSound, NEW t \in Turns, StreamAnswer(t) \/ FinalDrain(t)
  PROVE  /\ TurnsSound' /\ Alone(t) /\ phase'[t] \in Given
         /\ phase'[t] = "final" \/ FinalDrain(t)
         /\ loop'[t] = loop[t] /\ answer'[t] = answer[t]
<1>1. /\ phase[t] \in Given /\ phase'[t] \in Given /\ phase'[t] # "idle"
      /\ loop'[t] = loop[t] /\ tasks'[t] = tasks[t] /\ answer'[t] = answer[t]
      /\ UNCHANGED served /\ Alone(t) /\ (phase'[t] = "final" \/ FinalDrain(t))
  BY DEF TurnsSound, StreamAnswer, FinalDrain, Alone, Given
<1>2. Sound(t, phase'[t], loop[t], tasks[t], answer[t])
  BY <1>1, SoundParts DEF Sound, Given, InLoop
<1> QED
  BY <1>1, <1>2, OneTurn DEF Given

LEMMA ForgottenSound ==
  ASSUME TurnsSound, NEW t \in Turns, Forgotten(t),
         NEW p \in {"closing", "over"}, phase' = [phase EXCEPT ![t] = p],
         \/ Unregister /\ abandoned' \subseteq abandoned
         \/ t \in abandoned /\ UNCHANGED queues /\ abandoned' = abandoned \ {t}
  PROVE  TurnsSound' /\ Alone(t) /\ phase'[t] = p
<1>1. /\ phase'[t] = p /\ loop'[t] = FreshLoop /\ tasks'[t] = NoTasks
      /\ answer'[t] = NoAnswer /\ Alone(t)
  BY DEF TurnsSound, Forgotten, Alone
<1>2. \/ queues' = NoTurn /\ abandoned' \subseteq abandoned
      \/ queues' = queues /\ queues # t /\ abandoned' = abandoned \ {t}
  BY DEF TurnsSound, Unregister
<1> QED
  BY <1>1, <1>2, FreshSound, OneTurn

LEMMA StartSound ==
  ASSUME TurnsSound, NEW t \in Turns, Start(t)
  PROVE  TurnsSound' /\ Alone(t) /\ phase'[t] = "begin"
<1>1. /\ phase'[t] = "begin" /\ loop'[t] = loop[t] /\ tasks'[t] = tasks[t]
      /\ answer'[t] = answer[t] /\ Alone(t)
      /\ queues' = t /\ abandoned' = abandoned /\ t \notin abandoned
  BY DEF TurnsSound, Start, Alone
<1>2. loop[t] = FreshLoop /\ tasks[t] = NoTasks /\ answer[t] = NoAnswer
  BY SoundParts DEF Start, Sound, Given, InLoop
<1> QED
  BY <1>1, <1>2, FreshSound, OneTurn DEF InLoop

-----------------------------------------------------------------------------
(* The inbox, while turn t steps.                                          *)

InboxTyped ==
  /\ at \in [Messages -> {"unsent", "refused", "queued", "drained", "seen", "returned", "dropped"}]
  /\ owner \in [Messages -> Turns \cup {NoTurn}]
  /\ recalled \subseteq Messages /\ late \subseteq Messages

\* What holds of the messages of a turn that does not step goes on to hold.
LEMMA OthersMessages ==
  ASSUME TurnsSound, NEW t \in Turns, Alone(t), InboxTyped, NEW m \in Messages, MessageSound(m),
         owner'[m] = owner[m], owner[m] # t, at'[m] = at[m],
         m \in late => m \in late', recalled' = recalled,
         at[m] \in {"unsent", "refused"} => m \notin late'
  PROVE  MessageSound(m)'
<1>1. \A o \in Turns : o # t => phase'[o] = phase[o] /\ loop'[o] = loop[o] /\ answer'[o] = answer[o]
  BY DEF TurnsSound, Alone
<1> QED
  BY <1>1 DEF MessageSound

\* ... and of turn t, whose message m is now at where.
LEMMA OwnMessage ==
  ASSUME TurnsSound, NEW t \in Turns, InboxTyped, NEW m \in Messages, MessageSound(m),
         owner[m] = t, owner' = owner, late' = late, recalled' = recalled,
         at'[m] \in {"queued", "drained", "seen", "returned", "dropped"},
         at'[m] = "dropped" => m \in recalled,
         m \in recalled => at'[m] \in {"queued", "dropped"},
         at'[m] = "queued" /\ phase'[t] = "done" => m \in late,
         at'[m] = "drained" => phase'[t] # "model",
         at'[m] = "drained" /\ phase'[t] \in Given =>
           loop'[t].it = Last(t) \/ answer'[t].kind = "summary"
  PROVE  MessageSound(m)'
BY DEF MessageSound

LEMMA OwnedIsSent ==
  ASSUME InboxSound, NEW m \in Messages, owner[m] \in Turns
  PROVE  at[m] \in {"queued", "drained", "seen", "returned", "dropped"}
BY ReactAssumption DEF InboxSound, MessageSound

LEMMA UnchangedInbox ==
  ASSUME TurnsSound, InboxSound, NEW t \in Turns, Alone(t), UNCHANGED inbox,
         phase'[t] \notin {"model", "done"},
         phase'[t] \in Given =>
           \/ answer'[t].kind = "summary" \/ loop'[t].it = Last(t)
           \/ phase[t] = "model"
           \/ phase[t] \in Given /\ loop'[t] = loop[t] /\ answer'[t] = answer[t]
  PROVE  InboxSound'
<1>1. InboxTyped /\ InboxTyped'
  BY DEF InboxSound, InboxTyped, inbox
<1>2. ASSUME NEW m \in Messages PROVE MessageSound(m)'
  <2>1. MessageSound(m) /\ at'[m] = at[m] /\ owner' = owner /\ late' = late /\ recalled' = recalled
    BY DEF InboxSound, inbox
  <2>2. CASE owner[m] # t
    BY <1>1, <2>1, <2>2, OthersMessages DEF MessageSound
  <2>3. CASE owner[m] = t
    <3>1. at[m] \in {"queued", "drained", "seen", "returned", "dropped"}
      BY <2>3, OwnedIsSent
    <3>2. at[m] = "drained" /\ phase'[t] \in Given =>
            loop'[t].it = Last(t) \/ answer'[t].kind = "summary"
      BY <2>1, <2>3 DEF MessageSound
    <3> QED
      BY <1>1, <2>1, <2>3, <3>1, <3>2, OwnMessage DEF MessageSound
  <2> QED
    BY <2>2, <2>3
<1> QED
  BY <1>1, <1>2 DEF InboxSound, InboxTyped

LEMMA ReadInbox ==
  ASSUME TurnsSound, InboxSound, NEW t \in Turns, Alone(t), Reads(t),
         phase'[t] # "done"
  PROVE  InboxSound'
<1>1. InboxTyped /\ InboxTyped' /\ owner' = owner /\ late' = late /\ recalled' = recalled
  BY DEF InboxSound, InboxTyped, Reads
<1>2. ASSUME NEW m \in Messages PROVE MessageSound(m)'
  <2>1. MessageSound(m)
    BY DEF InboxSound
  <2>2. at'[m] = IF at[m] = "drained" /\ owner[m] = t THEN "seen" ELSE at[m]
    BY DEF Reads
  <2>3. CASE owner[m] # t
    BY <1>1, <2>1, <2>2, <2>3, OthersMessages DEF MessageSound
  <2>4. CASE owner[m] = t
    <3>1. at[m] \in {"queued", "drained", "seen", "returned", "dropped"}
      BY <2>4, OwnedIsSent
    <3> QED
      BY <1>1, <2>1, <2>2, <2>4, <3>1, OwnMessage DEF MessageSound
  <2> QED
    BY <2>3, <2>4
<1> QED
  BY <1>1, <1>2 DEF InboxSound, InboxTyped

LEMMA DrainedInbox ==
  ASSUME TurnsSound, InboxSound, NEW t \in Turns, Alone(t),
         NEW where \in {"drained", "returned"}, Drain(t, where),
         phase'[t] # "model",
         phase'[t] \in Given =>
           \/ answer'[t].kind = "summary" \/ loop'[t].it = Last(t)
           \/ phase[t] = "model" /\ Waiting(t) = {}
           \/ /\ phase[t] \in Given /\ loop'[t] = loop[t] /\ answer'[t] = answer[t]
              /\ where = "returned"
  PROVE  InboxSound'
<1>1. /\ owner' = owner /\ late' = late /\ recalled' = recalled
      /\ \A m \in Messages : at'[m] = IF m \in Waiting(t) THEN where
                                      ELSE IF m \in Queued(t) THEN "dropped" ELSE at[m]
  BY DEF Drain
<1>2. InboxTyped /\ InboxTyped'
  BY DEF InboxSound, InboxTyped, Drain
<1>3. ASSUME NEW m \in Messages PROVE MessageSound(m)'
  <2>1. MessageSound(m)
    BY DEF InboxSound
  <2>2. CASE owner[m] # t
    <3>1. at'[m] = at[m]
      BY <1>1, <2>2 DEF Waiting, Queued
    <3> QED
      BY <1>1, <1>2, <2>1, <2>2, <3>1, OthersMessages DEF MessageSound
  <2>3. CASE owner[m] = t
    <3>1. at[m] \in {"queued", "drained", "seen", "returned", "dropped"}
      BY <2>3, OwnedIsSent
    <3>2. at'[m] = IF at[m] = "queued" THEN IF m \in recalled THEN "dropped" ELSE where
                   ELSE at[m]
      BY <1>1, <2>3 DEF Waiting, Queued
    <3>3. at[m] = "queued" /\ m \notin recalled => Waiting(t) # {}
      BY <2>3 DEF Waiting, Queued
    <3>4. at'[m] = "drained" /\ phase'[t] \in Given =>
            loop'[t].it = Last(t) \/ answer'[t].kind = "summary"
      BY <2>1, <2>3, <3>2, <3>3 DEF MessageSound
    <3> QED
      BY <1>1, <1>2, <2>1, <2>3, <3>1, <3>2, <3>4, OwnMessage DEF MessageSound
  <2> QED
    BY <2>2, <2>3
<1> QED
  BY <1>1, <1>2, <1>3 DEF InboxSound, InboxTyped

\* The user's side.
LEMMA InjectInbox ==
  ASSUME TurnsSound, InboxSound, NEW m \in Messages, Inject(m)
  PROVE  InboxSound'
<1>1. /\ phase' = phase /\ loop' = loop /\ answer' = answer
      /\ recalled' = recalled /\ at[m] = "unsent" /\ owner[m] = NoTurn
      /\ m \notin late /\ m \notin recalled
  BY DEF Inject, InboxSound, MessageSound
<1>2. InboxTyped /\ InboxTyped'
  BY DEF InboxSound, InboxTyped, Inject, TurnsSound
<1>3. ASSUME NEW o \in Messages, o # m PROVE MessageSound(o)'
  <2>1. /\ MessageSound(o) /\ at'[o] = at[o] /\ owner'[o] = owner[o]
        /\ o \in late <=> o \in late'
    BY <1>3 DEF InboxSound, Inject
  <2> QED
    BY <1>1, <2>1 DEF MessageSound
<1>4. MessageSound(m)'
  <2>1. CASE queues # NoTurn
    <3>1. /\ at'[m] = "queued" /\ owner'[m] = queues /\ queues \in Turns
          /\ phase[queues] = "done" => m \in late'
      BY <2>1 DEF Inject, InboxSound, TurnsSound
    <3> QED
      BY <1>1, <3>1 DEF MessageSound
  <2>2. CASE queues = NoTurn
    <3>1. at'[m] = "refused" /\ owner' = owner /\ late' = late
      BY <2>2 DEF Inject, InboxSound
    <3> QED
      BY <1>1, <3>1, ReactAssumption DEF MessageSound
  <2> QED
    BY <2>1, <2>2
<1> QED
  BY <1>2, <1>3, <1>4 DEF InboxSound, InboxTyped

LEMMA RecallInbox ==
  ASSUME TurnsSound, InboxSound, NEW m \in Messages, Recall(m)
  PROVE  InboxSound'
<1>1. /\ phase' = phase /\ loop' = loop /\ answer' = answer /\ at' = at
      /\ owner' = owner /\ late' = late /\ recalled' = recalled \cup {m} /\ at[m] = "queued"
  BY DEF Recall, Waiting, Queued
<1>2. \A o \in Messages : MessageSound(o)'
  BY <1>1 DEF InboxSound, MessageSound
<1> QED
  BY <1>1, <1>2 DEF InboxSound
-----------------------------------------------------------------------------
(* What is counted and what is run.                                        *)

LEMMA AmongFinite ==
  ASSUME NEW batch \in Seq(Calls), NEW k \in DOMAIN batch, NEW c
  PROVE  /\ IsFiniteSet({i \in 1 .. k : batch[i] = c}) /\ Among(batch, k, c) \in Nat
         /\ IsFiniteSet({i \in 1 .. Len(batch) : batch[i] = c})
         /\ Among(batch, k, c) <= Among(batch, Len(batch), c)
<1>1. IsFiniteSet(1 .. Len(batch)) /\ k \in 1 .. Len(batch) /\ Len(batch) \in Nat
  BY FS_Interval
<1>2. /\ {i \in 1 .. k : batch[i] = c} \subseteq {i \in 1 .. Len(batch) : batch[i] = c}
      /\ {i \in 1 .. Len(batch) : batch[i] = c} \subseteq 1 .. Len(batch)
  BY <1>1
<1>3. IsFiniteSet({i \in 1 .. Len(batch) : batch[i] = c})
  BY <1>1, <1>2, FS_Subset
<1> QED
  BY <1>2, <1>3, FS_Subset, FS_CardinalityType DEF Among

RanNow(t, batch, c) == {k \in Executed(t, batch) : batch[k] = c}

(* Those of a batch's calls of c that run are among those asked for up to  *)
(* the last that runs.                                                     *)
LEMMA RanAmong ==
  ASSUME NEW t \in Turns, NEW batch \in Seq(Calls), NEW c, NEW k \in DOMAIN batch,
         \A i \in RanNow(t, batch, c) : i <= k
  PROVE  /\ IsFiniteSet(RanNow(t, batch, c)) /\ Cardinality(RanNow(t, batch, c)) \in Nat
         /\ Cardinality(RanNow(t, batch, c)) <= Among(batch, k, c)
<1>1. RanNow(t, batch, c) \subseteq {i \in 1 .. k : batch[i] = c}
  BY DEF RanNow, Executed
<1>2. /\ IsFiniteSet({i \in 1 .. k : batch[i] = c})
      /\ Cardinality({i \in 1 .. k : batch[i] = c}) = Among(batch, k, c)
  BY AmongFinite DEF Among
<1>3. /\ IsFiniteSet(RanNow(t, batch, c))
      /\ Cardinality(RanNow(t, batch, c)) <= Cardinality({i \in 1 .. k : batch[i] = c})
  BY <1>1, <1>2, FS_Subset
<1> QED
  BY <1>2, <1>3, FS_CardinalityType

(* What one batch adds to the counters of turn t.                          *)
LEMMA UseToolsCounts ==
  ASSUME CountsSound, NEW t \in Turns, NEW batch \in Batches, UseTools(t, batch)
  PROVE  CountsSound'
<1> DEFINE asked == [c \in Calls |-> counts[t][c] + Among(batch, Len(batch), c)]
           run == [c \in Calls |-> ran[t][c] + Cardinality(RanNow(t, batch, c))]
           E(c) == SameEndpoint(c)
<1>1. batch \in Seq(Calls) /\ Len(batch) \in Nat /\ DOMAIN batch = 1 .. Len(batch)
  BY ReactAssumption
<1>2. /\ counts' = [counts EXCEPT ![t] = asked] /\ ran' = [ran EXCEPT ![t] = run]
  BY DEF UseTools, RanNow
<1>3. \A c \in Calls : counts[t][c] \in Nat /\ ran[t][c] \in Nat /\ ran[t][c] <= counts[t][c]
  BY DEF CountsSound
<1>4. ASSUME NEW c \in Calls
      PROVE  /\ Among(batch, Len(batch), c) \in Nat
             /\ Cardinality(RanNow(t, batch, c)) \in Nat
             /\ Cardinality(RanNow(t, batch, c)) <= Among(batch, Len(batch), c)
  <2>1. CASE Len(batch) = 0
    <3>1. RanNow(t, batch, c) = {} /\ {i \in 1 .. Len(batch) : batch[i] = c} = {}
      BY <1>1, <2>1 DEF RanNow, Executed
    <3> QED
      BY <3>1, FS_EmptySet DEF Among
  <2>2. CASE Len(batch) # 0
    <3>1. Len(batch) \in DOMAIN batch /\ \A i \in RanNow(t, batch, c) : i <= Len(batch)
      BY <1>1, <2>2 DEF RanNow, Executed
    <3> QED
      BY <1>1, <3>1, AmongFinite, RanAmong
  <2> QED
    BY <2>1, <2>2
<1>5. /\ asked \in [Calls -> Nat] /\ run \in [Calls -> Nat]
      /\ \A c \in Calls : run[c] <= asked[c]
  BY <1>3, <1>4
<1>6. ASSUME NEW k \in DOMAIN batch
      PROVE  /\ batch[k] \in Calls
             /\ \A c \in Calls : counts[t][c] + Among(batch, k, c) \in Nat
  <2>1. batch[k] \in Calls
    BY <1>1
  <2>2. ASSUME NEW c \in Calls PROVE counts[t][c] + Among(batch, k, c) \in Nat
    <3>1. Among(batch, k, c) \in Nat
      BY <1>1, AmongFinite
    <3> QED
      BY <1>3, <3>1
  <2> QED
    BY <2>1, <2>2
\* the last call of c that ran was judged with all those before it
<1>7. ASSUME NEW c \in Calls PROVE run[c] < BlockAt
  <2>1. CASE RanNow(t, batch, c) = {}
    <3>1. Cardinality(RanNow(t, batch, c)) = 0
      BY <2>1, FS_EmptySet
    <3>2. ran[t][c] < BlockAt
      BY DEF CountsSound
    <3> QED
      BY <1>3, <3>1, <3>2
  <2>2. CASE RanNow(t, batch, c) # {}
    <3>1. RanNow(t, batch, c) \in SUBSET (1 .. Len(batch))
      BY <1>1 DEF RanNow, Executed
    <3>2. PICK k \in RanNow(t, batch, c) : \A i \in RanNow(t, batch, c) : i <= k
      BY <1>1, <2>2, <3>1, LastPosition
    <3>3. k \in DOMAIN batch /\ batch[k] = c /\ ~Refuses(t, batch, k)
      BY <3>2 DEF RanNow, Executed
    <3>4. ~(counts[t][c] + Among(batch, k, c) >= BlockAt)
      BY <3>3 DEF Refuses
    <3>5. Cardinality(RanNow(t, batch, c)) <= Among(batch, k, c) /\ Among(batch, k, c) \in Nat
      BY <1>1, <3>2, <3>3, RanAmong, AmongFinite
    <3>6. BlockAt \in Nat
      BY ReactAssumption
    <3> QED
      BY <1>3, <1>4, <3>4, <3>5, <3>6
  <2> QED
    BY <2>1, <2>2
<1>8. ASSUME NEW c \in Calls PROVE SumOver(run, E(c)) < EndpointBlockAt
  <2> DEFINE T == {k \in Executed(t, batch) : batch[k] \in E(c)}
  <2>1. E(c) \subseteq Calls /\ IsFiniteSet(E(c))
    BY ReactAssumption, FS_Subset DEF SameEndpoint
  <2>2. EndpointBlockAt \in Nat
    BY ReactAssumption
  <2>3. CASE T = {}
    <3>1. \A o \in E(c) : RanNow(t, batch, o) = {}
      BY <2>3 DEF RanNow
    <3>2. ASSUME NEW o \in E(c) PROVE run[o] = ran[t][o]
      <4>1. Cardinality(RanNow(t, batch, o)) = 0
        BY <3>1, FS_EmptySet
      <4> QED
        BY <1>3, <2>1, <4>1
    <3> HIDE DEF run, T
    <3> QED
      BY <2>1, <3>2, SumOverSame DEF CountsSound
  <2>4. CASE T # {}
    <3>1. T \in SUBSET (1 .. Len(batch))
      BY <1>1 DEF Executed
    <3>2. PICK k \in T : \A i \in T : i <= k
      <4> HIDE DEF T
      <4> QED BY <1>1, <2>4, <3>1, LastPosition
    <3>3. k \in DOMAIN batch /\ batch[k] \in E(c) /\ ~Refuses(t, batch, k)
      BY <3>2 DEF Executed
    <3> DEFINE total == [o \in Calls |-> counts[t][o] + Among(batch, k, o)]
    <3>4. SameEndpoint(batch[k]) = E(c)
      BY <3>3 DEF SameEndpoint
    <3>5. ~(SumOver(total, E(c)) >= EndpointBlockAt)
      BY <3>3, <3>4 DEF Refuses
    <3>6. ASSUME NEW o \in E(c)
          PROVE  run[o] \in Int /\ total[o] \in Int /\ run[o] <= total[o]
      <4>1. \A i \in RanNow(t, batch, o) : i <= k
        BY <3>2 DEF RanNow
      <4>2. Cardinality(RanNow(t, batch, o)) <= Among(batch, k, o) /\ Among(batch, k, o) \in Nat
        BY <1>1, <3>3, <4>1, RanAmong, AmongFinite
      <4>3. /\ o \in Calls /\ ran[t][o] \in Nat /\ counts[t][o] \in Nat
            /\ ran[t][o] <= counts[t][o] /\ Cardinality(RanNow(t, batch, o)) \in Nat
        BY <1>3, <1>4, <2>1
      <4>4. /\ run[o] = ran[t][o] + Cardinality(RanNow(t, batch, o))
            /\ total[o] = counts[t][o] + Among(batch, k, o)
        BY <4>3
      <4> HIDE DEF run, total
      <4> QED
        BY <4>2, <4>3, <4>4
    <3> HIDE DEF run, total
    <3>7. SumOver(run, E(c)) <= SumOver(total, E(c))
      BY <2>1, <3>6, SumOverMonotone
    <3>8. SumOver(run, E(c)) \in Int /\ SumOver(total, E(c)) \in Int
      BY <2>1, <3>6, SumOverInt
    <3> QED
      BY <2>2, <3>5, <3>7, <3>8
  <2> QED
    BY <2>3, <2>4
<1> HIDE DEF asked, run
<1>9. counts' \in [Turns -> [Calls -> Nat]] /\ ran' \in [Turns -> [Calls -> Nat]]
  BY <1>2, <1>5 DEF CountsSound
<1>10. ASSUME NEW o \in Turns, NEW c \in Calls
       PROVE  /\ ran'[o][c] <= counts'[o][c] /\ ran'[o][c] < BlockAt
              /\ SumOver(ran'[o], SameEndpoint(c)) < EndpointBlockAt
  <2>1. CASE o = t
    <3>1. ran'[o] = run /\ counts'[o] = asked
      BY <1>2, <2>1 DEF CountsSound
    <3> QED
      BY <1>5, <1>7, <1>8, <3>1
  <2>2. CASE o # t
    BY <1>2, <2>2 DEF CountsSound
  <2> QED
    BY <2>1, <2>2
<1> QED
  BY <1>9, <1>10 DEF CountsSound

\* A turn that has called nothing is within its limits.
NoCallsSound ==
  /\ NoCalls \in [Calls -> Nat]
  /\ \A c \in Calls : /\ NoCalls[c] <= NoCalls[c] /\ NoCalls[c] < BlockAt
                       /\ SumOver(NoCalls, SameEndpoint(c)) < EndpointBlockAt

LEMMA NoCallsAreSound == NoCallsSound
<1>1. NoCalls \in [Calls -> Nat] /\ \A c \in Calls : NoCalls[c] = 0
  BY DEF NoCalls
<1>2. ASSUME NEW c \in Calls PROVE SumOver(NoCalls, SameEndpoint(c)) = 0
  <2>1. SameEndpoint(c) \subseteq Calls /\ IsFiniteSet(SameEndpoint(c))
    BY ReactAssumption, FS_Subset DEF SameEndpoint
  <2> QED
    BY <1>1, <2>1, SumOverZero
<1>3. BlockAt \in Nat \ {0} /\ EndpointBlockAt \in Nat \ {0}
  BY ReactAssumption
<1> QED
  BY <1>1, <1>2, <1>3 DEF NoCallsSound

LEMMA ForgottenCounts ==
  ASSUME CountsSound, NEW t \in Turns, Forgotten(t)
  PROVE  CountsSound'
<1>1. counts' = [counts EXCEPT ![t] = NoCalls] /\ ran' = [ran EXCEPT ![t] = NoCalls]
  BY DEF Forgotten
<1>2. NoCallsSound
  BY NoCallsAreSound
<1>3. counts' \in [Turns -> [Calls -> Nat]] /\ ran' \in [Turns -> [Calls -> Nat]]
  BY <1>1, <1>2 DEF CountsSound, NoCallsSound
<1>4. ASSUME NEW o \in Turns, NEW c \in Calls
      PROVE  /\ ran'[o][c] <= counts'[o][c] /\ ran'[o][c] < BlockAt
             /\ SumOver(ran'[o], SameEndpoint(c)) < EndpointBlockAt
  <2>1. CASE o = t
    <3>1. ran'[o] = NoCalls /\ counts'[o] = NoCalls
      BY <1>1, <2>1 DEF CountsSound
    <3> QED
      BY <1>2, <3>1 DEF NoCallsSound
  <2>2. CASE o # t
    BY <1>1, <2>2 DEF CountsSound
  <2> QED
    BY <2>1, <2>2
<1> QED
  BY <1>3, <1>4 DEF CountsSound
LEMMA KeptCounts ==
  ASSUME CountsSound, UNCHANGED counters
  PROVE  CountsSound'
BY DEF CountsSound, counters

-----------------------------------------------------------------------------
(* Every step preserves the invariant.                                     *)

LEMMA InitInv ==
  ASSUME Init
  PROVE  Inv
<1>1. TurnsSound
  <2>1. /\ phase \in [Turns -> {"idle", "over"}] /\ loop = [t \in Turns |-> FreshLoop]
        /\ tasks = [t \in Turns |-> NoTasks] /\ answer = [t \in Turns |-> NoAnswer]
        /\ queues = NoTurn /\ abandoned = {}
    BY DEF Init
  <2>2. FreshLoop \in Loops /\ NoTasks \in Jobs /\ NoAnswer \in Answers
    BY DEF FreshLoop, Loops, NoTasks, Jobs, NoAnswer, Answers
  <2>3. \A t \in Turns : Sound(t, phase[t], loop[t], tasks[t], answer[t])
    BY <2>1, FreshSound
  <2> QED
    BY <2>1, <2>2, <2>3 DEF TurnsSound
<1>2. InboxSound
  BY ReactAssumption DEF Init, InboxSound, MessageSound
<1>3. CountsSound
  BY NoCallsAreSound DEF Init, CountsSound, NoCallsSound
<1> QED
  BY <1>1, <1>2, <1>3 DEF Inv

\* What an Outcome says of the phase, as UnchangedInbox and DrainedInbox ask.
LEMMA OutcomeKept ==
  ASSUME TurnsSound, InboxSound, NEW t \in Turns, NEW may,
         Outcome(t, may), UNCHANGED inbox,
         may => \/ answer'[t].kind = "summary" \/ loop'[t].it = Last(t)
                \/ phase[t] = "model"
  PROVE  InboxSound'
BY UnchangedInbox DEF Outcome

LEMMA OutcomeDrained ==
  ASSUME TurnsSound, InboxSound, NEW t \in Turns, NEW may,
         Outcome(t, may), Drain(t, "drained"),
         may => \/ answer'[t].kind = "summary" \/ loop'[t].it = Last(t)
                \/ phase[t] = "model" /\ Waiting(t) = {}
  PROVE  InboxSound'
BY DrainedInbox DEF Outcome

LEMMA StepInv ==
  ASSUME Inv, NEW t \in Turns, Step(t)
  PROVE  Inv'
<1> USE DEF Inv
<1>1. CASE Ask(t)
  BY <1>1, AskSound, ReadInbox, KeptCounts DEF Ask
<1>2. CASE OutOfBudget(t)
  <2>1. Outcome(t, answer'[t].kind = "summary") /\ UNCHANGED counters /\ UNCHANGED inbox
    BY <1>2, BudgetSound DEF OutOfBudget, counters, inbox
  <2>2. InboxSound'
    BY <2>1, OutcomeKept
  <2> QED
    BY <2>1, <2>2, KeptCounts DEF Outcome
<1>3. CASE ToolsReturn(t)
  <2>1. Outcome(t, answer'[t].kind = "summary")
    BY <1>3, ToolsReturnSound
  <2>2. InboxSound'
    BY <1>3, <2>1, OutcomeKept, OutcomeDrained DEF ToolsReturn
  <2> QED
    BY <1>3, <2>1, <2>2, KeptCounts DEF ToolsReturn, Outcome
<1>4. CASE Joined(t)
  BY <1>4, JoinedSound, OutcomeKept, KeptCounts DEF Joined, Outcome
<1>5. CASE Garbled(t)
  BY <1>5, GarbledSound, OutcomeKept, KeptCounts DEF Garbled, Outcome
<1>6. CASE Text(t)
  <2>1. Outcome(t, loop'[t].it = Last(t) \/ Waiting(t) = {})
    BY <1>6, TextSound
  <2>2. phase[t] = "model" /\ Drain(t, "drained") /\ UNCHANGED counters
    BY <1>6 DEF Text
  <2>3. InboxSound'
    BY <2>1, <2>2, OutcomeDrained
  <2> QED
    BY <2>1, <2>2, <2>3, KeptCounts DEF Outcome
<1>7. CASE Finish(t)
  <2>1. Outcome(t, Drain(t, "drained") /\ (loop'[t].it = Last(t) \/ Waiting(t) = {}))
    BY <1>7, FinishSound
  <2>2. phase[t] = "model" /\ UNCHANGED counters
    BY <1>7 DEF Finish
  <2>3. Drain(t, "drained") \/ UNCHANGED inbox
    BY <1>7 DEF Finish
  <2>4. InboxSound'
    BY <2>1, <2>2, <2>3, OutcomeDrained, OutcomeKept
  <2> QED
    BY <2>1, <2>2, <2>4, KeptCounts DEF Outcome
<1>8. CASE \E batch \in Batches : UseTools(t, batch)
  <2>1. PICK batch \in Batches : UseTools(t, batch)
    BY <1>8
  <2>2. TurnsSound' /\ Alone(t) /\ phase'[t] = "tools"
    BY <2>1, UseToolsSound
  <2>3. InboxSound'
    BY <2>1, <2>2, UnchangedInbox, DrainedInbox DEF UseTools, Given
  <2> QED
    BY <2>1, <2>2, <2>3, UseToolsCounts
<1>9. CASE StreamAnswer(t)
  <2>1. /\ TurnsSound' /\ Alone(t) /\ phase'[t] = "final" /\ phase[t] \in Given
        /\ loop'[t] = loop[t] /\ answer'[t] = answer[t] /\ UNCHANGED counters
    BY <1>9, StreamSound DEF StreamAnswer, Given, TurnsSound
  <2>2. InboxSound'
    BY <1>9, <2>1, ReadInbox, UnchangedInbox DEF StreamAnswer
  <2> QED
    BY <2>1, <2>2, KeptCounts
<1>10. CASE FinalDrain(t)
  <2>1. /\ TurnsSound' /\ Alone(t) /\ phase'[t] = "done" /\ phase[t] \in Given
        /\ loop'[t] = loop[t] /\ answer'[t] = answer[t] /\ UNCHANGED counters
    BY <1>10, StreamSound DEF FinalDrain, Given, TurnsSound
  <2>2. InboxSound'
    BY <1>10, <2>1, DrainedInbox DEF FinalDrain
  <2> QED
    BY <2>1, <2>2, KeptCounts
<1>11. CASE UnregisterDone(t) \/ Close(t) \/ Breaks(t) \/ Unread(t)
  <2>1. PICK p \in {"closing", "over"} :
               /\ phase' = [phase EXCEPT ![t] = p] /\ Forgotten(t)
               /\ \/ Unregister /\ abandoned' \subseteq abandoned
                  \/ t \in abandoned /\ UNCHANGED queues /\ abandoned' = abandoned \ {t}
    BY <1>11 DEF UnregisterDone, Close, Breaks, Unread, Over
  <2>2. TurnsSound' /\ Alone(t) /\ phase'[t] = p
    BY <2>1, ForgottenSound
  <2>3. InboxSound'
    BY <2>1, <2>2, UnchangedInbox DEF Forgotten, Given
  <2> QED
    BY <2>1, <2>2, <2>3, ForgottenCounts
<1> QED
  BY <1>1, <1>2, <1>3, <1>4, <1>5, <1>6, <1>7, <1>8, <1>9, <1>10, <1>11
     DEF Step

LEMMA NextInv ==
  ASSUME Inv, [Next]_vars
  PROVE  Inv'
<1>1. ASSUME NEW t \in Turns, Start(t) PROVE Inv'
  <2>1. TurnsSound' /\ Alone(t) /\ phase'[t] = "begin"
    BY <1>1, StartSound DEF Inv
  <2> QED
    BY <1>1, <2>1, UnchangedInbox, KeptCounts DEF Inv, Start, Given
<1>2. ASSUME NEW t \in Turns, NEW i \in Iterations(t), TaskEnds(t, i) PROVE Inv'
  <2>1. TurnsSound' /\ Alone(t)
    BY <1>2, TaskEndsSound DEF Inv
  <2>2. InboxSound'
    BY <1>2 DEF Inv, InboxSound, MessageSound, TaskEnds, inbox
  <2> QED
    BY <1>2, <2>1, <2>2, KeptCounts DEF Inv, TaskEnds
<1>3. ASSUME NEW m \in Messages, Inject(m) \/ Recall(m) PROVE Inv'
  <2>1. TurnsSound'
    BY <1>3 DEF Inv, TurnsSound, Inject, Recall, served
  <2> QED
    BY <1>3, <2>1, InjectInbox, RecallInbox, KeptCounts DEF Inv, Inject, Recall
<1>4. ASSUME NEW t \in Turns, Abandon(t) PROVE Inv'
  <2>1. /\ abandoned' = abandoned \cup {t} /\ queues' = NoTurn /\ phase[t] # "idle"
        /\ UNCHANGED <<phase, loop, tasks, answer>> /\ UNCHANGED counters /\ UNCHANGED inbox
    BY <1>4 DEF Abandon, Unregister, InLoop
  <2>2. TurnsSound'
    BY <2>1, ReactAssumption DEF Inv, TurnsSound
  <2>3. InboxSound'
    BY <2>1 DEF Inv, InboxSound, MessageSound, inbox
  <2> QED
    BY <2>1, <2>2, <2>3, KeptCounts DEF Inv
<1>5. CASE UNCHANGED vars
  BY <1>5 DEF Inv, TurnsSound, InboxSound, MessageSound, CountsSound, vars, counters, inbox,
              served
<1> QED
  BY <1>1, <1>2, <1>3, <1>4, <1>5, StepInv DEF Next

LEMMA Invariant == Spec => []Inv
BY InitInv, NextInv, PTL DEF Spec

-----------------------------------------------------------------------------
(* The loop of every turn, its counters and the broker keep their types,   *)
(* the iteration within max_iterations and the continuations within their  *)
(* limit.                                                                  *)
THEOREM TypeCorrect == Spec => []TypeOK
<1>1. ASSUME Inv PROVE TypeOK
  <2>1. ASSUME NEW t \in Turns
        PROVE  /\ loop[t] \in [it : Iterations(t), parts : SUBSET Iterations(t),
                                checks : SUBSET Iterations(t), pending : BOOLEAN,
                                checked : BOOLEAN, conts : 0 .. MaxContinuations]
               /\ tasks[t] \in [running : SUBSET Iterations(t),
                                 finished : SUBSET Iterations(t)]
               /\ answer[t] \in [kind : {"none", "inline", "finish", "summary"},
                                  text : SUBSET Iterations(t), cut : BOOLEAN]
    BY <1>1 DEF Inv, TurnsSound, Sound
  <2>2. phase \in [Turns -> InLoop \cup {"idle", "answer", "final", "done", "closing", "over"}]
    BY <1>1 DEF Inv, TurnsSound, Given
  <2> QED
    BY <1>1, <2>1, <2>2 DEF Inv, TurnsSound, InboxSound, CountsSound, TypeOK
<1> QED
  BY <1>1, Invariant, PTL

(* A recalled message reaches neither the model nor the answer.            *)
THEOREM RecallHoldsAlways == Spec => []RecallHolds
<1>1. Inv => RecallHolds
  BY DEF Inv, InboxSound, MessageSound, RecallHolds
<1> QED
  BY <1>1, Invariant, PTL

(* An accepted message is read, returned or recalled by the answer, but    *)
(* for the three cases named there; none is accepted for a turn that is    *)
(* over.                                                                   *)
THEOREM InterruptsAnsweredAlways == Spec => []InterruptsAnswered
<1>1. ASSUME Inv, NEW t \in Turns, NEW m \in Messages \ late, Answered(t), owner[m] = t
      PROVE  \/ at[m] \in {"seen", "returned"}
             \/ at[m] = "dropped" /\ m \in recalled
             \/ at[m] = "drained" /\ (loop[t].it = Last(t) \/ answer[t].kind = "summary")
  <2>1. /\ at[m] \in {"queued", "drained", "seen", "returned", "dropped"}
        /\ MessageSound(m) /\ phase[t] = "done"
    BY <1>1, OwnedIsSent DEF Inv, InboxSound, Answered
  <2> QED
    BY <1>1, <2>1 DEF MessageSound, Given
<1>2. Inv => InterruptsAnswered
  BY <1>1 DEF InterruptsAnswered, Inv, TurnsSound
<1> QED
  BY <1>2, Invariant, PTL

(* The reply to the checklist is no part of the answer.                    *)
THEOREM VerificationInternalAlways == Spec => []VerificationInternal
<1>1. Inv => VerificationInternal
  BY DEF Inv, TurnsSound, Sound, VerificationInternal
<1> QED
  BY <1>1, Invariant, PTL

(* No background task is cancelled silently before the last iteration, and *)
(* none outlives the loop.                                                 *)
THEOREM AnswerAwaitsTasksAlways == Spec => []AnswerAwaitsTasks
<1>1. Inv => AnswerAwaitsTasks
  BY DEF Inv, TurnsSound, Sound, AnswerAwaitsTasks, HasTasks, NoTasks
<1> QED
  BY <1>1, Invariant, PTL

(* No call and no endpoint beyond its threshold, and the type of the state.*)
THEOREM WithinLimitsAlways == Spec => []WithinLimits
<1>1. ASSUME Inv PROVE TypeOK
  <2>1. phase \in [Turns -> InLoop \cup {"idle", "answer", "final", "done", "closing", "over"}]
    BY <1>1 DEF Inv, TurnsSound, Given
  <2> QED
    BY <1>1, <2>1 DEF Inv, TurnsSound, Sound, InboxSound, CountsSound, TypeOK
<1>2. Inv => WithinLimits
  BY <1>1 DEF Inv, CountsSound, WithinLimits
<1> QED
  BY <1>2, Invariant, PTL
=============================================================================
