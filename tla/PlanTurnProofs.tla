----------------------------- MODULE PlanTurnProofs -----------------------------
(***************************************************************************)
(* What a planned turn promises, for every number of steps, slots, rounds  *)
(* and messages, every set of goals and every fault.                       *)
(***************************************************************************)
EXTENDS PlanTurnProps, TLAPS, WellFoundedInduction

\* A step's status follows from where its task is.
StepShape ==
  \A s \in Steps :
    /\ task[s] \in {"queued", "running"} => status[s] = "running"
    /\ task[s] \in {"checking", "retrying", "citing"} => status[s] = "completed"
    /\ task[s] = "finished" => status[s] \in {"completed", "failed"}
    /\ s \notin plan => status[s] = "none" /\ task[s] = "none"

\* What has been collected is over, well or badly.
SettledOver ==
  \A s \in settled : status[s] \in {"completed", "failed"} /\ task[s] \notin Active

\* What is at work or has completed stands on final results.
Founded ==
  \A s \in plan : task[s] \in Active \/ status[s] = "completed" =>
    \A d \in deps[s] : status[d] = "completed" /\ task[d] \notin Active

\* A completed step whose task is over has been collected.
Collected ==
  \A s \in plan : status[s] = "completed" /\ task[s] \notin Active => s \in settled

\* A set of steps stands on its like.
Closed(done, d) == \A s \in done : d[s] \subseteq done

\* So does what is carried, what the file holds and what an executor that has
\* outlived its turn has collected.
KeptClosed ==
  Closed(carry, deps) /\ Closed(file.done, file.deps) /\ Closed(ghost.done, ghost.deps)

\* Between executions nothing completed is missing from what is carried.
RoundStart ==
  /\ phase = "idle" => plan = {}
  /\ phase = "planning" => Completed \subseteq carry

Files == [goal : Goals \cup {"none"}, done : SUBSET Steps,
          deps : [Steps -> SUBSET Steps]]
Ghosts == [goal : Goals \cup {"none"}, done : SUBSET Steps,
           left : SUBSET Steps, deps : [Steps -> SUBSET Steps]]

Inv1 == TypeOK /\ StepShape /\ SettledOver /\ Founded
Inv2 == Collected /\ KeptClosed /\ RoundStart /\ CheckpointCurrent
IInv == Inv1 /\ Inv2
-----------------------------------------------------------------------------
LEMMA EmptyTyped == NoFile \in Files /\ NoGhost \in Ghosts
BY DEF NoFile, NoGhost, NoDeps, Files, Ghosts

\* What is recorded of a set of steps is of its type, and closed if the set is.
LEMMA Recorded ==
  ASSUME NEW g \in Goals \cup {"none"}, NEW done \in SUBSET Steps,
         NEW d \in [Steps -> SUBSET Steps]
  PROVE  /\ Record(g, done, d) \in Files
         /\ Record(g, done, d).goal = g /\ Record(g, done, d).done = done
         /\ Closed(done, d) => Closed(done, Record(g, done, d).deps)
<1>1. [s \in Steps |-> IF s \in done THEN d[s] ELSE {}] \in [Steps -> SUBSET Steps]
  OBVIOUS
<1> QED
  BY <1>1 DEF Record, Files, Closed

\* A save writes what it is given, or fails and says so.
LEMMA SaveFacts ==
  ASSUME IInv, NEW f \in Files, Closed(f.done, f.deps), Saves(f)
  PROVE  /\ file' \in Files /\ Closed(file'.done, file'.deps)
         /\ file' = f \/ spoiled'
         /\ faults' \in 0 .. MaxFaults /\ spoiled' \in BOOLEAN
<1>1. /\ file \in Files /\ Closed(file.done, file.deps) /\ faults \in 0 .. MaxFaults
  BY DEF IInv, Inv1, TypeOK, Inv2, KeptClosed, Files
<1>2. NoFile \in Files /\ Closed(NoFile.done, NoFile.deps)
  BY EmptyTyped DEF NoFile, Closed
<1>3. CASE file' = f /\ spoiled' = FALSE /\ UNCHANGED faults
  BY <1>1, <1>3
<1>4. CASE GoesWrong("disk") /\ file' \in {file, NoFile} /\ spoiled' = TRUE
  BY <1>1, <1>2, <1>4, PlanAssumption DEF GoesWrong
<1> QED
  BY <1>3, <1>4 DEF Saves

LEMMA InitInv == Init => IInv
<1> SUFFICES ASSUME Init PROVE IInv
  OBVIOUS
<1>1. TypeOK
  <2>1. /\ phase \in {"idle"} /\ goal \in Goals
        /\ carry \subseteq Steps /\ plan \subseteq Steps /\ settled \subseteq plan
        /\ stop \in BOOLEAN /\ injected \in BOOLEAN /\ spoiled \in BOOLEAN
    BY DEF Init
  <2>2. injects \in 0 .. MaxInjects /\ replans \in Nat /\ faults \in 0 .. MaxFaults
    BY PlanAssumption DEF Init
  <2>3. file \in Files /\ ghost \in Ghosts
    BY EmptyTyped DEF Init
  <2>4. deps \in [Steps -> SUBSET Steps]
    BY DEF Init, NoDeps
  <2>5. /\ status \in [Steps -> Terminal \cup {"none", "pending", "running"}]
        /\ task \in [Steps -> Active \cup {"none"}]
    BY DEF Init
  <2> QED
    BY <2>1, <2>2, <2>3, <2>4, <2>5 DEF TypeOK, Files, Ghosts
<1>2. StepShape /\ SettledOver /\ Founded
  BY DEF Init, StepShape, SettledOver, Founded
<1>3. Inv2
  BY DEF Init, Inv2, Collected, KeptClosed, Closed, RoundStart, CheckpointCurrent,
         Completed, NoFile, NoGhost
<1> QED
  BY <1>1, <1>2, <1>3 DEF IInv, Inv1

(* The steps of a task: they touch nothing that is final.                  *)
LEMMA StepInv ==
  ASSUME IInv, NEW s \in plan, NEW from, NEW to, NEW st, Step(s, from, to, st),
         from \in Active \ {"finished"},
         \/ to \in {"queued", "running"} /\ st = "running"
         \/ to \in {"checking", "retrying", "citing"} /\ st = "completed"
         \/ to = "finished" /\ st \in {"completed", "failed"}
  PROVE  IInv'
<1>1. /\ phase = "executing" /\ s \in Steps /\ task[s] = from
      /\ UNCHANGED <<phase, goal, carry, injected, injects, replans>>
      /\ UNCHANGED <<plan, deps, settled, stop, file, ghost, faults, spoiled>>
  BY DEF Step, turnVars, planVars, IInv, Inv1, TypeOK
<1>2. task[s] \in Active /\ to \in Active
  BY <1>1 DEF Active, Executing
<1>3. /\ task' = [task EXCEPT ![s] = to] /\ task' \in [Steps -> Active \cup {"none"}]
      /\ status' = [status EXCEPT ![s] = st]
      /\ status' \in [Steps -> Terminal \cup {"none", "pending", "running"}]
  BY <1>2 DEF Step, IInv, Inv1, TypeOK, Terminal
<1>4. /\ task'[s] = to /\ status'[s] = st
      /\ \A t \in Steps : t # s => task'[t] = task[t] /\ status'[t] = status[t]
  BY <1>3 DEF IInv, Inv1, TypeOK
<1>5. TypeOK'
  BY <1>1, <1>3 DEF IInv, Inv1, TypeOK
<1>6. StepShape'
  BY <1>1, <1>4 DEF IInv, Inv1, StepShape
<1>7. s \notin settled /\ settled \subseteq Steps
  BY <1>2 DEF IInv, Inv1, SettledOver, TypeOK
<1>8. SettledOver'
  BY <1>1, <1>4, <1>7 DEF IInv, Inv1, SettledOver
<1>9. Founded'
  <2> SUFFICES ASSUME NEW t \in plan, task'[t] \in Active \/ status'[t] = "completed",
                      NEW d \in deps[t]
               PROVE  status'[d] = "completed" /\ task'[d] \notin Active
    BY <1>1 DEF Founded
  <2>1. t \in Steps /\ d \in Steps
    BY DEF IInv, Inv1, TypeOK
  <2>2. task[t] \in Active \/ status[t] = "completed"
    BY <1>2, <1>4, <2>1
  <2>3. status[d] = "completed" /\ task[d] \notin Active
    BY <2>2 DEF IInv, Inv1, Founded
  <2> QED
    BY <1>2, <1>4, <2>1, <2>3
<1>10. KeptClosed' /\ RoundStart'
  BY <1>1 DEF IInv, Inv2, KeptClosed, Closed, RoundStart
<1>11. CheckpointCurrent' /\ Collected'
  <2>1. plan \subseteq Steps
    BY DEF IInv, Inv1, TypeOK
  <2> QED
    BY <1>1, <1>2, <1>4, <1>7, <2>1 DEF IInv, Inv2, CheckpointCurrent, Collected
<1> QED
  BY <1>5, <1>6, <1>8, <1>9, <1>10, <1>11 DEF IInv, Inv1, Inv2

LEMMA ProceedInv == ASSUME IInv, NEW s \in plan, Proceed(s) PROVE IInv'
<1>1. CASE Begin(s)
  BY <1>1, StepInv DEF Begin, Active, Executing
<1>2. CASE Answers(s)
  BY <1>2, StepInv DEF Answers, Active, Executing
<1>3. CASE AnswersToVerify(s)
  BY <1>3, StepInv DEF AnswersToVerify, Active, Executing
<1>4. CASE Passes(s)
  BY <1>4, StepInv DEF Passes, Active, Executing
<1>5. CASE Refused(s)
  BY <1>5, StepInv DEF Refused, Active, Executing
<1>6. CASE Fails(s)
  BY <1>6, StepInv DEF Fails, Active, Executing
<1>7. CASE Cites(s)
  BY <1>7, StepInv DEF Cites, Active, Executing
<1>8. CASE Cited(s)
  BY <1>8, StepInv DEF Cited, Active, Executing
<1> QED
  BY <1>1, <1>2, <1>3, <1>4, <1>5, <1>6, <1>7, <1>8 DEF Proceed
-----------------------------------------------------------------------------
(* The end of a turn, whatever the file and an executor are left with.     *)
LEMMA OverInv ==
  ASSUME IInv, Over, file' \in {NoFile, file}, faults' \in 0 .. MaxFaults,
         ghost' \in Ghosts, Closed(ghost'.done, ghost'.deps)
  PROVE  IInv'
<1>1. /\ phase' = "idle" /\ carry' = {} /\ plan' = {} /\ settled' = {}
      /\ deps' = NoDeps /\ spoiled' = FALSE
      /\ status' = [s \in Steps |-> "none"] /\ task' = [s \in Steps |-> "none"]
      /\ injected' = FALSE /\ injects' = 0 /\ replans' = 0 /\ stop' = FALSE
      /\ UNCHANGED goal
  BY DEF Over
<1>2. file' \in Files /\ Closed(file'.done, file'.deps)
  BY EmptyTyped DEF IInv, Inv1, TypeOK, Inv2, KeptClosed, Files, NoFile, Closed
<1>3. TypeOK'
  <2>1. goal' \in Goals /\ injects' \in 0 .. MaxInjects /\ replans' \in Nat
    BY <1>1, PlanAssumption DEF IInv, Inv1, TypeOK
  <2>2. deps' \in [Steps -> SUBSET Steps]
    BY <1>1 DEF NoDeps
  <2>3. /\ status' \in [Steps -> Terminal \cup {"none", "pending", "running"}]
        /\ task' \in [Steps -> Active \cup {"none"}]
    BY <1>1
  <2> QED
    BY <1>1, <1>2, <2>1, <2>2, <2>3 DEF TypeOK, Files, Ghosts
<1>4. StepShape' /\ SettledOver' /\ Founded'
  BY <1>1 DEF StepShape, SettledOver, Founded
<1>5. KeptClosed'
  BY <1>1, <1>2 DEF KeptClosed, Closed
<1>6. Collected' /\ RoundStart' /\ CheckpointCurrent'
  BY <1>1 DEF Collected, RoundStart, CheckpointCurrent
<1> QED
  BY <1>3, <1>4, <1>5, <1>6 DEF IInv, Inv1, Inv2

LEMMA TurnOverInv == ASSUME IInv, Answer \/ Drop \/ Crash PROVE IInv'
<1>1. /\ faults \in 0 .. MaxFaults /\ ghost \in Ghosts
      /\ Closed(ghost.done, ghost.deps)
  BY DEF IInv, Inv1, TypeOK, Inv2, KeptClosed, Ghosts
<1>2. NoGhost \in Ghosts /\ Closed(NoGhost.done, NoGhost.deps)
  BY EmptyTyped DEF NoGhost, Closed
<1>3. /\ Over /\ file' \in {NoFile, file} /\ ghost' \in {NoGhost, ghost}
      /\ faults' = faults \/ GoesWrong("disk")
  BY DEF Answer, Drop, Crash
<1>4. faults' \in 0 .. MaxFaults
  BY <1>1, <1>3, PlanAssumption DEF GoesWrong
<1>5. ghost' \in Ghosts /\ Closed(ghost'.done, ghost'.deps)
  BY <1>1, <1>2, <1>3
<1> QED
  BY <1>3, <1>4, <1>5, OverInv

\* What an abandoned executor has collected stands on its like.
LEMMA CollectedClosed == IInv => Closed(settled \cap Completed, deps)
<1> SUFFICES ASSUME IInv, NEW s \in settled \cap Completed, NEW e \in deps[s]
             PROVE  e \in settled \cap Completed
  BY DEF Closed
<1>1. s \in plan /\ s \in Steps /\ e \in Steps
  BY DEF Completed, IInv, Inv1, TypeOK
<1>2. status[e] = "completed" /\ task[e] \notin Active
  BY <1>1 DEF IInv, Inv1, Founded, Completed
<1>3. e \in plan
  BY <1>1, <1>2 DEF IInv, Inv1, StepShape
<1> QED
  BY <1>2, <1>3 DEF IInv, Inv2, Collected, Completed

LEMMA LastingFacts ==
  ASSUME NEW g \in Ghosts, Closed(g.done, g.deps)
  PROVE  Lasting(g) \in Ghosts /\ Closed(Lasting(g).done, Lasting(g).deps)
<1>1. NoGhost \in Ghosts /\ Closed(NoGhost.done, NoGhost.deps)
  BY EmptyTyped DEF NoGhost, Closed
<1> QED
  BY <1>1 DEF Lasting

LEMMA AbandonInv == ASSUME IInv, Abandon PROVE IInv'
<1> DEFINE left == {s \in plan \ settled : \/ status[s] \in {"running", "completed"}
                                           \/ status[s] = "pending" /\ ~stop}
           g == [goal |-> goal, done |-> settled \cap Completed, left |-> left,
                 deps |-> deps]
<1>1. Over /\ UNCHANGED file /\ ghost' = Lasting(g) /\ faults' = faults + 1
      /\ faults < MaxFaults
  BY DEF Abandon, GoesWrong
<1>2. faults' \in 0 .. MaxFaults
  BY <1>1, PlanAssumption DEF IInv, Inv1, TypeOK
<1>3. left \subseteq Steps /\ settled \cap Completed \subseteq Steps
      /\ goal \in Goals /\ deps \in [Steps -> SUBSET Steps]
  BY DEF IInv, Inv1, TypeOK
<1> HIDE DEF left
<1>4. g \in Ghosts /\ Closed(g.done, g.deps)
  BY <1>3, CollectedClosed DEF Ghosts
<1> HIDE DEF g
<1>5. ghost' \in Ghosts /\ Closed(ghost'.done, ghost'.deps)
  BY <1>1, <1>4, LastingFacts
<1> QED
  BY <1>1, <1>2, <1>5, OverInv

LEMMA GhostInv == ASSUME IInv, GhostCollects PROVE IInv'
<1>1. PICK s \in CanCollect(ghost), completed \in BOOLEAN :
        LET done == ghost.done \cup (IF completed THEN {s} ELSE {})
        IN  /\ \E early \in SUBSET (CanCollect(ghost) \ {s}) :
                 LET f == Record(ghost.goal, done \cup early, ghost.deps)
                 IN  \/ file' = f /\ UNCHANGED faults
                     \/ GoesWrong("disk") /\ file' \in {file, NoFile}
            /\ spoiled' = (phase # "idle")
            /\ ghost' = Lasting([ghost EXCEPT !.done = done, !.left = @ \ {s}])
            /\ UNCHANGED <<turnVars, planVars, status, task, settled, stop>>
  BY DEF GhostCollects
<1> DEFINE done == ghost.done \cup (IF completed THEN {s} ELSE {})
<1>2. PICK early \in SUBSET (CanCollect(ghost) \ {s}) :
        LET f == Record(ghost.goal, done \cup early, ghost.deps)
        IN  \/ file' = f /\ UNCHANGED faults
            \/ GoesWrong("disk") /\ file' \in {file, NoFile}
  BY <1>1
<1>3. /\ UNCHANGED <<phase, goal, carry, injected, injects, replans, plan, deps>>
      /\ UNCHANGED <<status, task, settled, stop>> /\ spoiled' = (phase # "idle")
      /\ ghost' = Lasting([ghost EXCEPT !.done = done, !.left = @ \ {s}])
  BY <1>1 DEF turnVars, planVars
<1>4. /\ ghost \in Ghosts /\ Closed(ghost.done, ghost.deps)
      /\ file \in Files /\ Closed(file.done, file.deps) /\ faults \in 0 .. MaxFaults
  BY DEF IInv, Inv1, TypeOK, Inv2, KeptClosed, Ghosts, Files
<1>5. /\ CanCollect(ghost) \subseteq Steps
      /\ \A t \in CanCollect(ghost) : ghost.deps[t] \subseteq ghost.done
  BY <1>4 DEF CanCollect, Ghosts
<1>6. /\ done \subseteq Steps /\ done \cup early \subseteq Steps
      /\ Closed(done, ghost.deps) /\ Closed(done \cup early, ghost.deps)
  BY <1>4, <1>5 DEF Closed, Ghosts
<1> HIDE DEF done
<1>7. ghost' \in Ghosts /\ Closed(ghost'.done, ghost'.deps)
  <2> DEFINE g == [ghost EXCEPT !.done = done, !.left = @ \ {s}]
  <2>1. g \in Ghosts /\ g.done = done /\ g.deps = ghost.deps
    BY <1>4, <1>6 DEF Ghosts
  <2> HIDE DEF g
  <2> QED
    BY <1>3, <1>6, <2>1, LastingFacts DEF g
<1>8. /\ file' \in Files /\ Closed(file'.done, file'.deps)
      /\ faults' \in 0 .. MaxFaults
  <2> DEFINE f == Record(ghost.goal, done \cup early, ghost.deps)
  <2>1. f \in Files /\ Closed(f.done, f.deps)
    BY <1>4, <1>6, Recorded DEF Ghosts
  <2>2. NoFile \in Files /\ Closed(NoFile.done, NoFile.deps)
    BY EmptyTyped DEF NoFile, Closed
  <2>3. CASE file' = f /\ UNCHANGED faults
    BY <1>4, <2>1, <2>3
  <2>4. CASE GoesWrong("disk") /\ file' \in {file, NoFile}
    BY <1>4, <2>2, <2>4, PlanAssumption DEF GoesWrong
  <2> HIDE DEF f
  <2> QED
    BY <1>2, <2>3, <2>4 DEF f
<1>9. TypeOK'
  BY <1>3, <1>7, <1>8 DEF IInv, Inv1, TypeOK, Files, Ghosts
<1>10. StepShape' /\ SettledOver' /\ Founded' /\ Collected' /\ RoundStart'
  BY <1>3 DEF IInv, Inv1, Inv2, StepShape, SettledOver, Founded, Collected,
              RoundStart, Completed
<1>11. KeptClosed'
  BY <1>3, <1>7, <1>8 DEF IInv, Inv2, KeptClosed, Closed
<1>12. CheckpointCurrent'
  BY <1>3 DEF CheckpointCurrent
<1> QED
  BY <1>9, <1>10, <1>11, <1>12 DEF IInv, Inv1, Inv2

LEMMA RequestInv == ASSUME IInv, NEW g \in Goals, Request(g) PROVE IInv'
<1>1. /\ phase = "idle" /\ phase' = "planning" /\ goal' = g
      /\ deps' = [s \in Steps |-> IF s \in carry' THEN file.deps[s] ELSE {}]
      /\ UNCHANGED <<injected, injects, replans, plan, status, task>>
      /\ UNCHANGED <<settled, stop, file, ghost, faults, spoiled>>
  BY DEF Request
<1>2. carry' \in {{}, file.done}
  BY DEF Request, Loadable
<1>3. /\ TypeOK /\ file \in Files /\ plan = {}
  BY <1>1 DEF IInv, Inv1, Inv2, RoundStart, TypeOK, Files
<1>4. TypeOK'
  <2>1. carry' \subseteq Steps
    BY <1>2, <1>3 DEF Files
  <2>2. deps' \in [Steps -> SUBSET Steps]
    BY <1>1, <1>3 DEF Files
  <2> QED
    BY <1>1, <1>3, <2>1, <2>2 DEF TypeOK
<1>5. StepShape' /\ SettledOver' /\ Founded'
  BY <1>1, <1>3 DEF IInv, Inv1, StepShape, SettledOver, Founded
<1>6. Closed(carry', deps')
  BY <1>1, <1>2, <1>3 DEF IInv, Inv2, KeptClosed, Closed, Files
<1>7. KeptClosed'
  BY <1>1, <1>6 DEF IInv, Inv2, KeptClosed
<1>8. Collected' /\ RoundStart' /\ CheckpointCurrent'
  BY <1>1, <1>3 DEF Collected, RoundStart, CheckpointCurrent, Completed
<1> QED
  BY <1>4, <1>5, <1>7, <1>8 DEF IInv, Inv1, Inv2

\* A plan's steps are built on what is carried over and on earlier ones.
LEMMA PlanningFacts ==
  ASSUME IInv, Planning
  PROVE  /\ phase = "planning" /\ phase' = "executing"
         /\ \E new \in SUBSET (Steps \ carry) : \E d \in [new -> SUBSET Steps] :
              /\ Plan(new, d)
              /\ \A s \in new : d[s] \subseteq carry \cup {n \in new : n < s}
<1>1. phase = "planning" /\ phase' = "executing" /\ carry \subseteq Steps
  BY DEF Planning, IInv, Inv1, TypeOK
<1>2. PICK new \in SUBSET (Steps \ carry) : \E edges \in SUBSET Edges(new) :
        Plan(new, [s \in new |-> {t \in carry \cup new : <<t, s>> \in edges}])
  BY DEF Planning
<1>3. PICK edges \in SUBSET Edges(new) :
        Plan(new, [s \in new |-> {t \in carry \cup new : <<t, s>> \in edges}])
  BY <1>2
<1> DEFINE d == [s \in new |-> {t \in carry \cup new : <<t, s>> \in edges}]
<1>4. d \in [new -> SUBSET Steps]
  BY <1>1
<1>5. ASSUME NEW s \in new, NEW t \in d[s] PROVE t \in carry \cup {n \in new : n < s}
  <2>1. t \in carry \cup new /\ <<t, s>> \in Edges(new)
    BY <1>5
  <2> QED
    BY <2>1 DEF Edges
<1>6. Plan(new, d)
  BY <1>3
<1> HIDE DEF d
<1> QED
  BY <1>1, <1>4, <1>5, <1>6

LEMMA PlanInv ==
  ASSUME IInv, NEW new \in SUBSET (Steps \ carry), NEW d \in [new -> SUBSET Steps],
         Plan(new, d), phase' = "executing"
  PROVE  IInv'
<1>1. /\ plan' = carry \cup new /\ settled' = carry /\ stop' = FALSE
      /\ Saves(Record(goal, carry, deps))
      /\ UNCHANGED <<goal, carry, injected, injects, replans, ghost>>
      /\ task' = [s \in Steps |-> "none"]
  BY DEF Plan, Seeded
<1>2. TypeOK /\ carry \subseteq Steps
  BY DEF IInv, Inv1, TypeOK
<1>3. /\ \A s \in new : deps'[s] = d[s]
      /\ \A s \in Steps \ new : deps'[s] = deps[s]
      /\ deps' \in [Steps -> SUBSET Steps]
  BY <1>2 DEF Plan, TypeOK
<1>4. /\ \A s \in new : status'[s] = "pending"
      /\ \A s \in carry : status'[s] = "completed"
      /\ \A s \in Steps \ plan' : status'[s] = "none"
      /\ status' \in [Steps -> Terminal \cup {"none", "pending", "running"}]
  BY <1>1, <1>2 DEF Plan, Terminal
<1>13. /\ file' \in Files /\ Closed(file'.done, file'.deps)
       /\ (file'.goal = goal /\ file'.done = carry) \/ spoiled'
       /\ faults' \in 0 .. MaxFaults /\ spoiled' \in BOOLEAN
  <2> DEFINE f == Record(goal, carry, deps)
  <2>1. f \in Files /\ f.goal = goal /\ f.done = carry /\ Closed(f.done, f.deps)
    BY <1>2, Recorded DEF TypeOK, IInv, Inv2, KeptClosed
  <2> HIDE DEF f
  <2> QED
    BY <1>1, <2>1, SaveFacts DEF f
<1>5. TypeOK'
  <2>1. task' \in [Steps -> Active \cup {"none"}]
    BY <1>1
  <2> QED
    BY <1>1, <1>2, <1>3, <1>4, <1>13, <2>1 DEF TypeOK, Files
<1>6. \A s \in Steps : task'[s] = "none"
  BY <1>1
<1>7. StepShape'
  BY <1>4, <1>6 DEF StepShape
<1>8. SettledOver'
  BY <1>1, <1>2, <1>4, <1>6 DEF SettledOver, Active, Executing
<1>9. \A s \in carry : deps'[s] \subseteq carry
  BY <1>2, <1>3 DEF IInv, Inv2, KeptClosed, Closed
<1>10. Founded'
  <2> SUFFICES ASSUME NEW t \in plan', task'[t] \in Active \/ status'[t] = "completed",
                      NEW e \in deps'[t]
               PROVE  status'[e] = "completed" /\ task'[e] \notin Active
    BY DEF Founded
  <2>1. t \in carry
    BY <1>1, <1>2, <1>4, <1>6 DEF Active, Executing
  <2> QED
    BY <1>2, <1>4, <1>6, <1>9, <2>1 DEF Active, Executing
<1>11. KeptClosed' /\ RoundStart' /\ Collected'
  BY <1>1, <1>2, <1>4, <1>9, <1>13
     DEF IInv, Inv2, KeptClosed, Closed, RoundStart, Collected
<1>12. CheckpointCurrent'
  BY <1>1, <1>13 DEF CheckpointCurrent
<1> QED
  BY <1>5, <1>7, <1>8, <1>10, <1>11, <1>12 DEF IInv, Inv1, Inv2

\* Completed steps stand on completed steps.
LEMMA CompletedClosed == IInv => \A s \in Completed : deps[s] \subseteq Completed
<1> SUFFICES ASSUME IInv, NEW s \in Completed, NEW e \in deps[s]
             PROVE  e \in Completed
  OBVIOUS
<1>1. s \in Steps /\ e \in Steps
  BY DEF Completed, IInv, Inv1, TypeOK
<1>2. status[e] = "completed"
  BY DEF IInv, Inv1, Founded, Completed
<1> QED
  BY <1>1, <1>2 DEF IInv, Inv1, StepShape, Completed

LEMMA AnalyzeInv ==
  ASSUME IInv, NEW achieved \in BOOLEAN, NEW unreachable \in BOOLEAN,
         Analyze(achieved, unreachable)
  PROVE  IInv'
<1>1. /\ phase = "analyzing" /\ phase' \in {"planning", "answering"}
      /\ carry' = Completed
      /\ UNCHANGED <<plan, deps, status, task, settled, stop, goal, injects>>
      /\ UNCHANGED <<file, ghost, faults, spoiled>>
  BY DEF Analyze, Carryover, planVars
<1>2. injected' \in BOOLEAN /\ replans' \in Nat
  BY DEF Analyze, Counted, IInv, Inv1, TypeOK
<1>3. Completed \subseteq plan /\ plan \subseteq Steps
  BY DEF Completed, IInv, Inv1, TypeOK
<1>4. TypeOK'
  BY <1>1, <1>2, <1>3 DEF IInv, Inv1, TypeOK
<1>5. StepShape' /\ SettledOver' /\ Founded'
  BY <1>1 DEF IInv, Inv1, StepShape, SettledOver, Founded
<1>6. \A s \in Completed : deps[s] \subseteq Completed
  BY CompletedClosed
<1>7. KeptClosed' /\ Collected'
  BY <1>1, <1>6 DEF IInv, Inv2, KeptClosed, Closed, Collected
<1>8. RoundStart' /\ CheckpointCurrent'
  BY <1>1 DEF RoundStart, CheckpointCurrent, Completed
<1> QED
  BY <1>4, <1>5, <1>7, <1>8 DEF IInv, Inv1, Inv2

LEMMA InjectInv == ASSUME IInv, Inject PROVE IInv'
<1>1. /\ stop' \in BOOLEAN /\ injected' = TRUE /\ injects' \in 0 .. MaxInjects
      /\ UNCHANGED <<phase, goal, carry, replans, plan, deps, status, task, settled>>
      /\ UNCHANGED <<file, ghost, faults, spoiled>>
  BY PlanAssumption DEF Inject, planVars, IInv, Inv1, TypeOK
<1>2. TypeOK'
  BY <1>1 DEF IInv, Inv1, TypeOK
<1>3. StepShape' /\ SettledOver' /\ Founded'
  BY <1>1 DEF IInv, Inv1, StepShape, SettledOver, Founded
<1>4. Collected' /\ KeptClosed' /\ RoundStart' /\ CheckpointCurrent'
  BY <1>1 DEF IInv, Inv2, Collected, KeptClosed, Closed, RoundStart,
              CheckpointCurrent, Completed
<1> QED
  BY <1>2, <1>3, <1>4 DEF IInv, Inv1, Inv2
-----------------------------------------------------------------------------
(* The executor's loop.                                                    *)

\* A cascade takes in every pending step that a failure or it itself reaches.
LEMMA CascadeClosed ==
  ASSUME NEW pend, NEW failed, NEW s \in pend,
         deps[s] \cap (failed \cup Cascade(pend, failed)) # {}
  PROVE  s \in Cascade(pend, failed)
<1> DEFINE Reached(C) == \A t \in pend : deps[t] \cap (failed \cup C) # {} => t \in C
<1>1. Cascade(pend, failed) = {t \in pend : \A C \in SUBSET pend : Reached(C) => t \in C}
  BY DEF Cascade
<1>2. SUFFICES ASSUME NEW C \in SUBSET pend, Reached(C) PROVE s \in C
  BY <1>1
<1>3. Cascade(pend, failed) \subseteq C
  BY <1>1, <1>2
<1> QED
  BY <1>2, <1>3

\* What a round does, step by step.
LEMMA RoundFacts ==
  ASSUME IInv, Round
  PROVE  /\ phase = "executing" /\ phase' \in {"executing", "analyzing"}
         /\ UNCHANGED <<goal, carry, injected, injects, replans, plan, deps>>
         /\ UNCHANGED <<stop, ghost>>
         /\ status' \in [Steps -> Terminal \cup {"none", "pending", "running"}]
         /\ task' \in [Steps -> Active \cup {"none"}]
         /\ settled \subseteq settled' /\ settled' \subseteq plan
         /\ \/ Saves(Snapshot)
            \/ UNCHANGED <<file, faults, spoiled>> /\ settled' = settled
         /\ \A s \in plan : task[s] = "finished" => s \in settled'
         /\ \A s \in Steps :
              \/ task[s] # "finished" /\ task'[s] = task[s] /\ status'[s] = status[s]
              \/ task[s] = "finished" /\ task'[s] = "none" /\ status'[s] = status[s]
              \/ /\ s \in plan /\ status[s] = "pending"
                 /\ task'[s] = task[s] /\ status'[s] \in {"skipped", "failed"}
              \/ /\ s \in plan /\ status[s] = "pending"
                 /\ task'[s] = "queued" /\ status'[s] = "running"
                 /\ \A d \in deps[s] :
                      status[d] = "completed" /\ task[d] \in {"finished", "none"}
         /\ \A s \in settled' \ settled :
              \/ task[s] = "finished"
              \/ status[s] = "pending" /\ status'[s] = "failed"
<1> DEFINE done    == {s \in plan : task[s] = "finished"}
           reaped  == settled \cup done
           skipped == IF stop THEN Pending ELSE {}
           failed  == {s \in reaped : status[s] = "failed"}
           cascade == Cascade(Pending \ skipped, failed)
           left    == Pending \ (skipped \cup cascade)
           ready   == Ready(left, reaped \cup cascade)
           running == {s \in plan : task[s] \in Active \ {"finished"}} \cup ready
           stuck   == IF running = {} THEN left ELSE {}
<1>1. /\ phase = "executing"
      /\ status' = [s \in Steps |-> CASE s \in skipped -> "skipped"
                                      [] s \in cascade \cup stuck -> "failed"
                                      [] s \in ready -> "running"
                                      [] OTHER -> status[s]]
      /\ task' = [s \in Steps |-> CASE s \in ready -> "queued"
                                    [] s \in done -> "none"
                                    [] OTHER -> task[s]]
      /\ settled' = reaped \cup cascade \cup stuck
      /\ IF done \cup skipped \cup cascade \cup stuck = {}
         THEN UNCHANGED <<file, faults, spoiled>>
         ELSE Saves(Snapshot)
      /\ phase' = IF running = {} THEN "analyzing" ELSE "executing"
      /\ UNCHANGED <<goal, carry, injected, injects, replans, plan, deps>>
      /\ UNCHANGED <<stop, ghost>>
  BY DEF Round, planVars
<1>2. /\ skipped \subseteq Pending /\ cascade \subseteq Pending \ skipped
      /\ ready \subseteq left /\ stuck \subseteq left
      /\ Pending \subseteq plan /\ plan \subseteq Steps
      /\ \A s \in Pending : status[s] = "pending" /\ s \in plan
      /\ ready # {} => stuck = {}
  BY DEF Pending, Cascade, Ready, IInv, Inv1, TypeOK
<1>3. \A s \in done : s \notin Pending
  BY DEF IInv, Inv1, StepShape, TypeOK, Pending
<1>4. \A s \in ready : \A d \in deps[s] :
        status[d] = "completed" /\ task[d] \in {"finished", "none"}
  <2> SUFFICES ASSUME NEW s \in ready, NEW d \in deps[s]
               PROVE  status[d] = "completed" /\ task[d] \in {"finished", "none"}
    OBVIOUS
  <2>1. d \in reaped \cup cascade /\ s \in left
    BY DEF Ready
  <2>2. s \in Pending \ skipped /\ s \notin cascade
    BY <2>1
  <2> HIDE DEF done, skipped, left, ready, running, stuck
  <2>3. deps[s] \cap (failed \cup cascade) = {}
    BY <2>2, CascadeClosed
  <2> HIDE DEF cascade
  <2>4. d \in reaped /\ status[d] # "failed"
    BY <2>1, <2>3
  <2> QED
    BY <2>4 DEF done, IInv, Inv1, TypeOK, StepShape, SettledOver, Active, Executing
<1> HIDE DEF cascade, ready
<1>5. /\ status' \in [Steps -> Terminal \cup {"none", "pending", "running"}]
      /\ task' \in [Steps -> Active \cup {"none"}]
  BY <1>1 DEF Terminal, Active, IInv, Inv1, TypeOK
<1>6. settled \subseteq settled' /\ settled' \subseteq plan
  BY <1>1, <1>2 DEF IInv, Inv1, TypeOK
<1>7. /\ \/ Saves(Snapshot)
         \/ UNCHANGED <<file, faults, spoiled>> /\ settled' = settled
      /\ \A s \in plan : task[s] = "finished" => s \in settled'
  <2> HIDE DEF cascade, left, ready, running, stuck
  <2> QED
    BY <1>1
<1>8. ASSUME NEW s \in Steps
      PROVE  \/ task[s] # "finished" /\ task'[s] = task[s] /\ status'[s] = status[s]
             \/ task[s] = "finished" /\ task'[s] = "none" /\ status'[s] = status[s]
             \/ /\ s \in plan /\ status[s] = "pending"
                /\ task'[s] = task[s] /\ status'[s] \in {"skipped", "failed"}
             \/ /\ s \in plan /\ status[s] = "pending"
                /\ task'[s] = "queued" /\ status'[s] = "running"
                /\ \A d \in deps[s] :
                     status[d] = "completed" /\ task[d] \in {"finished", "none"}
  <2>1. CASE s \in skipped \cup cascade \cup stuck
    <3>1. s \notin ready /\ s \notin done /\ s \in plan /\ status[s] = "pending"
      BY <1>2, <1>3, <2>1
    <3> QED
      BY <1>1, <2>1, <3>1
  <2>2. CASE s \in ready
    <3>1. /\ s \notin skipped \cup cascade \cup stuck \cup done
          /\ s \in plan /\ status[s] = "pending"
      BY <1>2, <1>3, <2>2
    <3> HIDE DEF done, skipped, left, running, stuck
    <3>2. task'[s] = "queued" /\ status'[s] = "running"
      BY <1>1, <2>2, <3>1
    <3> QED
      BY <1>4, <2>2, <3>1, <3>2
  <2>3. CASE s \in done
    BY <1>1, <1>2, <1>3, <2>3
  <2>4. CASE s \notin skipped \cup cascade \cup stuck \cup ready \cup done
    <3>1. task[s] # "finished"
      BY <2>4 DEF IInv, Inv1, StepShape
    <3> QED
      BY <1>1, <2>4, <3>1
  <2> QED
    BY <2>1, <2>2, <2>3, <2>4
<1>9. ASSUME NEW s \in settled' \ settled
      PROVE  task[s] = "finished" \/ (status[s] = "pending" /\ status'[s] = "failed")
  <2>1. CASE s \in done
    BY <2>1
  <2>2. CASE s \in cascade \cup stuck
    <3>1. s \notin skipped \cup ready /\ s \in Steps /\ status[s] = "pending"
      BY <1>2, <2>2
    <3> HIDE DEF done, skipped, left, running, stuck
    <3>2. status'[s] = "failed"
      BY <1>1, <2>2, <3>1
    <3> QED
      BY <3>1, <3>2
  <2> QED
    BY <1>1, <2>1, <2>2
<1>10. phase' \in {"executing", "analyzing"}
  BY <1>1
<1> HIDE DEF done, reaped, skipped, failed, left, running, stuck
<1> QED
  BY <1>1, <1>5, <1>6, <1>7, <1>8, <1>9, <1>10

LEMMA RoundInv == ASSUME IInv, Round PROVE IInv'
<1>1. /\ phase = "executing" /\ phase' \in {"executing", "analyzing"}
      /\ UNCHANGED <<goal, carry, injected, injects, replans, plan, deps>>
      /\ UNCHANGED <<stop, ghost>>
      /\ status' \in [Steps -> Terminal \cup {"none", "pending", "running"}]
      /\ task' \in [Steps -> Active \cup {"none"}]
      /\ settled \subseteq settled' /\ settled' \subseteq plan
      /\ \/ Saves(Snapshot)
         \/ UNCHANGED <<file, faults, spoiled>> /\ settled' = settled
      /\ \A s \in plan : task[s] = "finished" => s \in settled'
  BY RoundFacts
<1>2. ASSUME NEW s \in Steps
      PROVE  \/ task[s] # "finished" /\ task'[s] = task[s] /\ status'[s] = status[s]
             \/ task[s] = "finished" /\ task'[s] = "none" /\ status'[s] = status[s]
             \/ /\ s \in plan /\ status[s] = "pending"
                /\ task'[s] = task[s] /\ status'[s] \in {"skipped", "failed"}
             \/ /\ s \in plan /\ status[s] = "pending"
                /\ task'[s] = "queued" /\ status'[s] = "running"
                /\ \A d \in deps[s] :
                     status[d] = "completed" /\ task[d] \in {"finished", "none"}
  BY RoundFacts
<1>3. \A s \in settled' \ settled :
        task[s] = "finished" \/ (status[s] = "pending" /\ status'[s] = "failed")
  BY RoundFacts
<1>4. TypeOK /\ plan \subseteq Steps
  BY DEF IInv, Inv1, TypeOK
<1>5. /\ Snapshot \in Files /\ Closed(Snapshot.done, Snapshot.deps)
      /\ Snapshot.goal = goal /\ Snapshot.done = Completed
  <2>1. Completed \in SUBSET Steps /\ Closed(Completed, deps)
    BY <1>4, CompletedClosed DEF Completed, Closed
  <2> QED
    BY <1>4, <2>1, Recorded DEF Snapshot, TypeOK
<1>14. /\ file' \in Files /\ Closed(file'.done, file'.deps)
       /\ faults' \in 0 .. MaxFaults /\ spoiled' \in BOOLEAN
       /\ \/ file' = Snapshot \/ spoiled'
          \/ UNCHANGED <<file, spoiled>> /\ settled' = settled
  <2>1. CASE Saves(Snapshot)
    BY <1>5, <2>1, SaveFacts
  <2>2. CASE UNCHANGED <<file, faults, spoiled>> /\ settled' = settled
    BY <1>4, <2>2 DEF IInv, Inv2, KeptClosed, TypeOK, Files
  <2> QED
    BY <1>1, <2>1, <2>2
<1>6. TypeOK'
  BY <1>1, <1>4, <1>14 DEF TypeOK, Files
<1>7. \A s \in Steps : status[s] = "pending" => task[s] = "none"
  BY <1>4 DEF IInv, Inv1, StepShape, TypeOK, Active, Executing
<1>8. StepShape'
  <2> SUFFICES ASSUME NEW s \in Steps
               PROVE  /\ task'[s] \in {"queued", "running"} => status'[s] = "running"
                      /\ task'[s] \in {"checking", "retrying", "citing"} =>
                           status'[s] = "completed"
                      /\ task'[s] = "finished" => status'[s] \in {"completed", "failed"}
                      /\ s \notin plan => status'[s] = "none" /\ task'[s] = "none"
    BY <1>1 DEF StepShape
  <2> QED
    BY <1>2, <1>7 DEF IInv, Inv1, StepShape
<1>9. ASSUME NEW s \in Steps, status[s] = "completed",
             task[s] \notin Active \/ task[s] = "finished"
      PROVE  status'[s] = "completed" /\ task'[s] \notin Active
  BY <1>2, <1>9 DEF Active, Executing
<1>10. SettledOver'
  <2> SUFFICES ASSUME NEW s \in settled'
               PROVE  status'[s] \in {"completed", "failed"} /\ task'[s] \notin Active
    BY DEF SettledOver
  <2>1. s \in Steps
    BY <1>1, <1>4
  <2>2. CASE s \in settled
    <3>1. status[s] \in {"completed", "failed"} /\ task[s] \notin Active
      BY <2>2 DEF IInv, Inv1, SettledOver
    <3> QED
      BY <1>2, <2>1, <3>1 DEF Active, Executing
  <2>3. CASE task[s] = "finished"
    <3>1. status[s] \in {"completed", "failed"}
      BY <2>1, <2>3 DEF IInv, Inv1, StepShape
    <3> QED
      BY <1>2, <2>1, <2>3, <3>1 DEF Active, Executing
  <2>4. CASE status[s] = "pending" /\ status'[s] = "failed"
    BY <1>2, <1>7, <2>1, <2>4 DEF Active, Executing
  <2> QED
    BY <1>3, <2>2, <2>3, <2>4
<1>11. Founded'
  <2> SUFFICES ASSUME NEW t \in plan, task'[t] \in Active \/ status'[t] = "completed",
                      NEW d \in deps[t]
               PROVE  status'[d] = "completed" /\ task'[d] \notin Active
    BY <1>1 DEF Founded
  <2>1. t \in Steps /\ d \in Steps
    BY <1>4 DEF TypeOK
  <2>2. \/ status[d] = "completed" /\ task[d] \in {"finished", "none"}
        \/ task[t] \in Active
        \/ status[t] = "completed"
    BY <1>2, <1>7, <2>1 DEF Active, Executing
  <2>3. status[d] = "completed" /\ (task[d] \notin Active \/ task[d] = "finished")
    BY <2>2 DEF IInv, Inv1, Founded, Active, Executing
  <2> QED
    BY <1>9, <2>1, <2>3
<1>12. KeptClosed' /\ RoundStart'
  BY <1>1, <1>14 DEF IInv, Inv2, KeptClosed, RoundStart
<1>15. Collected'
  BY <1>1, <1>2, <1>4 DEF IInv, Inv2, Collected, Active, Executing
<1>13. CheckpointCurrent'
  <2>1. \A s \in settled' : status'[s] = "completed" => status[s] = "completed" /\ s \in plan
    BY <1>1, <1>2, <1>4
  <2>2. CASE file' = Snapshot
    BY <1>1, <1>5, <2>1, <2>2 DEF CheckpointCurrent, Completed
  <2>3. CASE UNCHANGED <<file, spoiled>> /\ settled' = settled
    BY <1>1, <2>1, <2>3 DEF IInv, Inv2, CheckpointCurrent
  <2>4. CASE spoiled'
    BY <2>4 DEF CheckpointCurrent
  <2> QED
    BY <1>14, <2>2, <2>3, <2>4
<1> QED
  BY <1>6, <1>8, <1>10, <1>11, <1>12, <1>13, <1>15 DEF IInv, Inv1, Inv2
-----------------------------------------------------------------------------
LEMMA NextInv == IInv /\ [Next]_vars => IInv'
<1> SUFFICES ASSUME IInv, [Next]_vars PROVE IInv'
  OBVIOUS
<1>1. ASSUME NEW g \in Goals, Request(g) PROVE IInv'
  BY <1>1, RequestInv
<1>2. CASE Planning
  BY <1>2, PlanInv, PlanningFacts
<1>3. CASE Round
  BY <1>3, RoundInv
<1>4. CASE Analysis
  BY <1>4, AnalyzeInv DEF Analysis
<1>5. CASE Answer \/ Drop \/ Crash
  BY <1>5, TurnOverInv
<1>6. ASSUME NEW s \in plan, Proceed(s) PROVE IInv'
  BY <1>6, ProceedInv
<1>7. CASE Inject
  BY <1>7, InjectInv
<1>8. CASE Abandon
  BY <1>8, AbandonInv
<1>9. CASE GhostCollects
  BY <1>9, GhostInv
<1>10. CASE UNCHANGED vars
  BY <1>10 DEF vars, turnVars, planVars, IInv, Inv1, Inv2, TypeOK, StepShape,
               SettledOver, Founded, Collected, KeptClosed, Closed, RoundStart,
               CheckpointCurrent, Completed
<1> QED
  BY <1>1, <1>2, <1>3, <1>4, <1>5, <1>6, <1>7, <1>8, <1>9, <1>10 DEF Next, Work

THEOREM Invariance == Spec => []IInv
<1> QED
  BY InitInv, NextInv, PTL DEF Spec

(* Every variable keeps its type, for every number of steps and slots.     *)
THEOREM TypeCorrect == Spec => []TypeOK
<1>1. IInv => TypeOK
  BY DEF IInv, Inv1
<1> QED
  BY <1>1, Invariance, PTL

(* No step works on a result that is not final, whatever fails, is         *)
(* verified, retried, injected, dropped or abandoned.                      *)
THEOREM FinalInputs == Spec => []BuiltOnFinished
<1>1. IInv => BuiltOnFinished
  BY DEF BuiltOnFinished, IInv, Inv1, Founded
<1> QED
  BY <1>1, Invariance, PTL

(* What survives a round or a turn is closed under dependencies, even when *)
(* an executor that outlived an earlier turn has written the file.         *)
THEOREM NothingHalfBuilt == Spec => []CarriedClosed
<1>1. IInv => CarriedClosed
  BY CompletedClosed DEF IInv, Inv2, KeptClosed, Closed, CarriedClosed
<1> QED
  BY <1>1, Invariance, PTL

(* While a plan executes, no crash loses a step that was reported, unless  *)
(* the last save failed or an abandoned executor has saved since.          *)
THEOREM CrashesLoseLittle == Spec => []CheckpointCurrent
<1>1. IInv => CheckpointCurrent
  BY DEF IInv, Inv2
<1> QED
  BY <1>1, Invariance, PTL

(* However a turn replans, what has completed and been collected stays in  *)
(* the plan, completed.                                                    *)
THEOREM ProgressSurvives == Spec => ProgressKept
<1> DEFINE Kept == \A s \in settled \cap Completed :
                     phase' # "idle" => status'[s] = "completed" /\ s \in plan'
<1>1. ASSUME IInv, [Next]_vars PROVE [Kept]_vars
  <2> SUFFICES ASSUME NEW s \in settled \cap Completed, phase' # "idle",
                      ~UNCHANGED vars
               PROVE  status'[s] = "completed" /\ s \in plan'
    OBVIOUS
  <2>1. s \in plan /\ s \in Steps /\ status[s] = "completed" /\ task[s] \notin Active
    BY <1>1 DEF Completed, IInv, Inv1, TypeOK, SettledOver
  <2>2. CASE \E g \in Goals : Request(g)
    BY <2>1, <2>2 DEF Request, planVars
  <2>3. CASE Planning
    <3>1. PICK new \in SUBSET (Steps \ carry) : \E d \in [new -> SUBSET Steps] : Plan(new, d)
      BY <1>1, <2>3, PlanningFacts
    <3>2. phase = "planning" /\ plan' = carry \cup new
      BY <2>3, <3>1 DEF Plan, Planning
    <3>3. s \in carry /\ s \notin new
      BY <1>1, <3>2 DEF IInv, Inv2, RoundStart
    <3>4. status'[s] = "completed"
      BY <2>1, <3>1, <3>3 DEF Plan
    <3> QED
      BY <3>2, <3>3, <3>4
  <2>4. CASE Round
    BY <1>1, <2>1, <2>4, RoundFacts
  <2>5. CASE Analysis \/ Inject \/ GhostCollects
    BY <2>1, <2>5 DEF Analysis, Analyze, Inject, GhostCollects, planVars
  <2>6. CASE Answer \/ Drop \/ Crash \/ Abandon
    BY <2>6 DEF Answer, Drop, Crash, Abandon, Over
  <2>7. ASSUME NEW t \in plan, Proceed(t) PROVE status'[s] = "completed" /\ s \in plan'
    <3>1. PICK from, to, st : Step(t, from, to, st) /\ from \in Active
      BY <2>7 DEF Proceed, Begin, Answers, AnswersToVerify, Passes, Refused, Fails,
                  Cites, Cited, Active, Executing
    <3>2. t # s /\ plan' = plan
      BY <2>1, <3>1 DEF Step, planVars
    <3>3. status'[s] = status[s]
      BY <1>1, <2>1, <3>1, <3>2 DEF Step, IInv, Inv1, TypeOK
    <3> QED
      BY <2>1, <3>2, <3>3
  <2> QED
    BY <1>1, <2>2, <2>3, <2>4, <2>5, <2>6, <2>7 DEF Next, Work
<1> QED
  BY <1>1, Invariance, PTL DEF Spec, ProgressKept
\* While a plan executes, a pending step depends on settled steps and on earlier
\* ones, and every step is pending, settled or at work, until a stop has emptied
\* what was pending.
PlanOrder ==
  phase = "executing" =>
    /\ \A s \in Pending : \A d \in deps[s] : d \in plan /\ (d < s \/ d \in settled)
    /\ Pending # {} => \A s \in plan : s \in Pending \cup settled \/ task[s] \in Active

\* What a round collects, skips, fails, launches and leaves.
Done == {s \in plan : task[s] = "finished"}
Skipped == IF stop THEN Pending ELSE {}
Doomed == Cascade(Pending \ Skipped, {s \in settled \cup Done : status[s] = "failed"})
Left == Pending \ (Skipped \cup Doomed)
Launched == Ready(Left, settled \cup Done \cup Doomed)
Unfinished == {s \in plan : task[s] \in Active \ {"finished"}}

(* A round that leaves pending steps behind has something running.         *)
LEMMA NoneStuck ==
  ASSUME IInv, PlanOrder, phase = "executing", Left # {}
  PROVE  Unfinished \cup Launched # {}
<1> SUFFICES ASSUME Unfinished = {}, Launched = {} PROVE FALSE
  OBVIOUS
<1>1. /\ Left \subseteq Pending /\ Pending \subseteq plan /\ plan \subseteq Nat
      /\ Skipped = {} /\ Doomed \subseteq Pending
  BY DEF Left, Skipped, Doomed, Cascade, Pending, IInv, Inv1, TypeOK, Steps
<1> DEFINE R == {ss \in Nat \X Nat : ss[1] < ss[2]}
<1>2. IsWellFoundedOn(R, Nat)
  BY NatLessThanWellFounded DEF OpToRel
<1>3. PICK s \in Left : \A t \in Left : ~(<<t, s>> \in R)
  <2> HIDE DEF R
  <2> QED BY <1>1, <1>2, WFMin
<1>4. \A t \in Left : ~(t < s)
  <2>1. \A t \in Left : <<t, s>> \in Nat \X Nat
    BY <1>1
  <2> QED
    BY <1>3, <2>1
<1>5. \A d \in deps[s] : d \in settled \cup Done \cup Doomed
  <2> SUFFICES ASSUME NEW d \in deps[s], d \notin settled PROVE d \in Done \cup Doomed
    OBVIOUS
  <2>1. d \in plan /\ d < s
    BY <1>1, <1>3 DEF PlanOrder
  <2>2. d \notin Left
    BY <1>4, <2>1
  <2>3. d \in Pending \/ task[d] \in Active
    BY <1>1, <2>1 DEF PlanOrder
  <2>4. CASE d \in Pending
    BY <1>1, <2>2, <2>4 DEF Left
  <2>5. CASE task[d] \in Active
    BY <2>1, <2>5 DEF Unfinished, Done
  <2> QED BY <2>3, <2>4, <2>5
<1>6. s \in Launched
  BY <1>3, <1>5 DEF Launched, Ready
<1> QED BY <1>6

(* So a round marks as failed only what its cascade takes in.              *)
LEMMA RoundMarks ==
  ASSUME IInv, PlanOrder, Round
  PROVE  /\ status' = [s \in Steps |-> CASE s \in Skipped -> "skipped"
                                         [] s \in Doomed -> "failed"
                                         [] s \in Launched -> "running"
                                         [] OTHER -> status[s]]
         /\ task' = [s \in Steps |-> CASE s \in Launched -> "queued"
                                       [] s \in Done -> "none"
                                       [] OTHER -> task[s]]
         /\ settled' = settled \cup Done \cup Doomed
         /\ UNCHANGED <<plan, deps>>
<1> DEFINE stuck == IF Unfinished \cup Launched = {} THEN Left ELSE {}
<1>1. /\ phase = "executing"
      /\ status' = [s \in Steps |-> CASE s \in Skipped -> "skipped"
                                      [] s \in Doomed \cup stuck -> "failed"
                                      [] s \in Launched -> "running"
                                      [] OTHER -> status[s]]
      /\ task' = [s \in Steps |-> CASE s \in Launched -> "queued"
                                    [] s \in Done -> "none"
                                    [] OTHER -> task[s]]
      /\ settled' = settled \cup Done \cup Doomed \cup stuck
      /\ UNCHANGED <<plan, deps>>
  BY DEF Round, Skipped, Doomed, Done, Left, Launched, Unfinished, planVars
<1>2. stuck = {}
  BY <1>1, NoneStuck
<1>3. Doomed \cup stuck = Doomed /\ settled \cup Done \cup Doomed \cup stuck = settled \cup Done \cup Doomed
  BY <1>2
<1> HIDE DEF stuck
<1> QED BY <1>1, <1>3

(* What a cascade takes in depends on a failure or on another it takes in: *)
(* without such a dependency, the set would be closed without the step.    *)
LEMMA CascadeCaused ==
  ASSUME NEW pend, NEW failed, NEW s \in Cascade(pend, failed)
  PROVE  deps[s] \cap (failed \cup Cascade(pend, failed)) # {}
<1> DEFINE C == Cascade(pend, failed)
           Reached(D) == \A t \in pend : deps[t] \cap (failed \cup D) # {} => t \in D
<1>1. C = {t \in pend : \A D \in SUBSET pend : Reached(D) => t \in D}
  BY DEF Cascade
<1>2. \A t \in pend : deps[t] \cap (failed \cup C) # {} => t \in C
  BY CascadeClosed
<1> HIDE DEF C
<1>3. SUFFICES ASSUME deps[s] \cap (failed \cup C) = {} PROVE FALSE
  BY DEF C
<1>4. C \ {s} \in SUBSET pend /\ Reached(C \ {s})
  BY <1>1, <1>2, <1>3
<1>5. s \in C
  BY DEF C
<1> QED
  BY <1>1, <1>4, <1>5

LEMMA PlanOrderStep == ASSUME IInv, PlanOrder, [Next]_vars PROVE PlanOrder'
<1>1. CASE UNCHANGED <<phase, plan, deps, status, task, settled>>
  BY <1>1 DEF PlanOrder, Pending
<1>2. CASE phase' # "executing"
  BY <1>2 DEF PlanOrder
<1>3. CASE Planning
  <2>1. PICK new \in SUBSET (Steps \ carry) : \E d \in [new -> SUBSET Steps] :
          Plan(new, d) /\ \A s \in new : d[s] \subseteq carry \cup {n \in new : n < s}
    BY <1>3, PlanningFacts
  <2>2. PICK d \in [new -> SUBSET Steps] :
          Plan(new, d) /\ \A s \in new : d[s] \subseteq carry \cup {n \in new : n < s}
    BY <2>1
  <2>3. carry \subseteq Steps
    BY DEF IInv, Inv1, TypeOK
  <2>4. /\ plan' = carry \cup new /\ settled' = carry
        /\ \A s \in new : deps'[s] = d[s] /\ status'[s] = "pending"
        /\ \A s \in carry : status'[s] = "completed"
        /\ \A s \in new : d[s] \subseteq carry \cup {n \in new : n < s}
    BY <2>2, <2>3 DEF Plan, Seeded
  <2>5. Pending' = new
    BY <2>3, <2>4 DEF Pending
  <2> QED
    BY <2>4, <2>5 DEF PlanOrder
<1>4. CASE Round
  <2>1. /\ settled' = settled \cup Done \cup Doomed
        /\ UNCHANGED <<plan, deps>> /\ phase = "executing"
        /\ \A s \in plan :
             /\ status'[s] = CASE s \in Skipped -> "skipped"
                               [] s \in Doomed -> "failed"
                               [] s \in Launched -> "running"
                               [] OTHER -> status[s]
             /\ task'[s] = CASE s \in Launched -> "queued"
                             [] s \in Done -> "none"
                             [] OTHER -> task[s]
    <3>1. phase = "executing"
      BY <1>4 DEF Round
    <3>2. plan \subseteq Steps
      BY DEF IInv, Inv1, TypeOK
    <3> QED BY <1>4, <3>1, <3>2, RoundMarks
  <2>2. Launched \subseteq Pending /\ Doomed \subseteq Pending
    BY DEF Launched, Ready, Left, Doomed, Cascade
  <2>3. Pending' \subseteq Pending /\ (Pending' # {} => Skipped = {})
    BY <2>1 DEF Pending, Skipped
  <2>4. \A s \in Pending' : \A d \in deps'[s] : d \in plan' /\ (d < s \/ d \in settled')
    BY <2>1, <2>3 DEF PlanOrder
  <2>5. ASSUME Pending' # {}, NEW s \in plan
        PROVE  s \in Pending' \cup settled' \/ task'[s] \in Active
    <3>1. s \in Pending \cup settled \/ task[s] \in Active
      BY <2>1, <2>3, <2>5 DEF PlanOrder
    <3>2. CASE s \in Launched
      BY <2>1, <3>2 DEF Active
    <3>3. CASE s \in Done
      BY <2>1, <3>3
    <3>4. CASE s \notin Launched \cup Done
      BY <2>1, <2>3, <2>5, <3>1, <3>4 DEF Pending
    <3> QED BY <3>2, <3>3, <3>4
  <2> QED
    BY <2>1, <2>4, <2>5 DEF PlanOrder
<1>5. ASSUME NEW t \in plan, Proceed(t) PROVE PlanOrder'
  <2>1. PICK from, to, st : /\ Step(t, from, to, st) /\ from \in Active /\ to \in Active
                            /\ from # "finished" /\ st # "pending"
    BY <1>5 DEF Proceed, Begin, Answers, AnswersToVerify, Passes, Refused, Fails,
                Cites, Cited, Active, Executing
  <2>2. status[t] # "pending"
    BY <1>5, <2>1 DEF TypeOK, Step, Active, Executing, IInv, Inv1, StepShape
  <2>3. /\ UNCHANGED <<phase, plan, deps, settled>>
        /\ \A s \in plan : s # t => status'[s] = status[s] /\ task'[s] = task[s]
        /\ t \in plan => status'[t] = st /\ task'[t] = to
    BY <2>1 DEF Step, turnVars, planVars, IInv, Inv1, TypeOK
  <2>4. Pending' = Pending
    BY <2>1, <2>2, <2>3 DEF Pending
  <2> QED
    BY <2>1, <2>3, <2>4 DEF PlanOrder
<1>6. CASE \E g \in Goals : Request(g)
  BY <1>2, <1>6 DEF Request
<1>7. CASE Analysis
  BY <1>2, <1>7 DEF Analysis, Analyze
<1>8. CASE Answer \/ Drop \/ Crash \/ Abandon
  BY <1>2, <1>8 DEF Answer, Drop, Crash, Abandon, Over
<1>9. CASE Inject \/ GhostCollects \/ UNCHANGED vars
  BY <1>1, <1>9 DEF Inject, GhostCollects, vars, turnVars, planVars
<1> QED
  BY <1>3, <1>4, <1>5, <1>6, <1>7, <1>8, <1>9 DEF Next, Work

(* A step fails without having run only because a step it depends on has   *)
(* failed: the deadlock branch of execute() is never taken.                *)
THEOREM FailuresHaveCauses == Spec => CascadesHaveCauses
<1> DEFINE Caused == \A s \in plan : status[s] = "pending" /\ status'[s] = "failed" =>
                       \E d \in deps[s] : status'[d] = "failed"
<1>1. ASSUME IInv, PlanOrder, [Next]_vars, NEW s \in plan, status[s] = "pending",
             status'[s] = "failed"
      PROVE  \E d \in deps[s] : status'[d] = "failed"
  <2>1. s \in Steps /\ task[s] \notin Active \ {"finished"}
    BY <1>1 DEF IInv, Inv1, TypeOK, StepShape, Active, Executing
  <2>2. Round
    <3>1. CASE Planning
      BY <1>1, <2>1, <3>1, PlanningFacts DEF Plan
    <3>2. ASSUME NEW t \in plan, Proceed(t) PROVE FALSE
      <4>1. PICK from, to, st : Step(t, from, to, st) /\ from \in Active \ {"finished"}
        BY <3>2 DEF Proceed, Begin, Answers, AnswersToVerify, Passes, Refused, Fails,
                    Cites, Cited, Active, Executing
      <4>2. t # s
        BY <2>1, <4>1 DEF Step
      <4> QED
        BY <1>1, <2>1, <4>1, <4>2 DEF Step, IInv, Inv1, TypeOK
    <3>3. CASE \E g \in Goals : Request(g)
      BY <1>1, <3>3 DEF Request
    <3>4. CASE Analysis \/ Inject \/ GhostCollects \/ UNCHANGED vars
      BY <1>1, <3>4 DEF Analysis, Analyze, Inject, GhostCollects, vars
    <3>5. CASE Answer \/ Drop \/ Crash \/ Abandon
      BY <1>1, <2>1, <3>5 DEF Answer, Drop, Crash, Abandon, Over
    <3> QED
      BY <1>1, <3>1, <3>2, <3>3, <3>4, <3>5 DEF Next, Work
  <2> DEFINE failed == {t \in settled \cup Done : status[t] = "failed"}
  <2>3. /\ s \in Doomed /\ Doomed \subseteq Pending /\ Skipped \cap Doomed = {}
        /\ Launched \subseteq Pending /\ Skipped \subseteq Pending
        /\ \A t \in Steps : status'[t] = CASE t \in Skipped -> "skipped"
                                           [] t \in Doomed -> "failed"
                                           [] t \in Launched -> "running"
                                           [] OTHER -> status[t]
    <3>1. \A t \in Steps : status'[t] = CASE t \in Skipped -> "skipped"
                                          [] t \in Doomed -> "failed"
                                          [] t \in Launched -> "running"
                                          [] OTHER -> status[t]
      BY <1>1, <2>2, RoundMarks
    <3>2. /\ Doomed \subseteq Pending /\ Skipped \cap Doomed = {}
          /\ Launched \subseteq Pending /\ Skipped \subseteq Pending
      BY DEF Doomed, Cascade, Skipped, Launched, Ready, Left
    <3> QED
      BY <1>1, <2>1, <3>1, <3>2
  <2>4. PICK d \in deps[s] : d \in failed \cup Doomed
    <3>1. Doomed = Cascade(Pending \ Skipped, failed)
      BY DEF Doomed
    <3> HIDE DEF failed
    <3>2. deps[s] \cap (failed \cup Doomed) # {}
      BY <2>3, <3>1, CascadeCaused
    <3> QED BY <3>2
  <2>5. d \in Steps
    BY <1>1, <2>1 DEF IInv, Inv1, TypeOK
  <2>6. d \in failed => d \notin Pending /\ status[d] = "failed"
    BY DEF Pending
  <2> HIDE DEF failed
  <2>7. CASE d \in Doomed
    <3>1. d \notin Skipped \cup Launched
      BY <2>3, <2>7 DEF Launched, Ready, Left
    <3>2. status'[d] = "failed"
      BY <2>3, <2>5, <2>7, <3>1
    <3> QED BY <2>4, <3>2
  <2>8. CASE d \in failed
    <3>1. d \notin Skipped \cup Doomed \cup Launched
      BY <2>3, <2>6, <2>8
    <3> QED BY <2>3, <2>4, <2>5, <2>6, <2>8, <3>1
  <2> QED BY <2>4, <2>7, <2>8
<1>2. IInv /\ PlanOrder /\ [Next]_vars => [Caused]_vars
  BY <1>1
<1>3. Init => PlanOrder
  BY DEF Init, PlanOrder
<1> QED
  BY <1>2, <1>3, PlanOrderStep, Invariance, PTL DEF Spec, CascadesHaveCauses
=============================================================================
