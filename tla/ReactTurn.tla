------------------------------ MODULE ReactTurn ------------------------------
(***************************************************************************)
(* Turns of one conversation answered by the ReAct loop (core/agent/       *)
(* react.py, _run_native and _run_json), the messages a user injects       *)
(* while they run (web/interrupt.py, the broker of a single process) and   *)
(* what react_endpoint of web/api/chat.py does around them.                *)
(*                                                                         *)
(* The model's reply and the length of its text are free.  So is whether a *)
(* plan is open, hence whether a reply is checked.  A text stands for the  *)
(* iteration it was written in; the background tasks one iteration starts  *)
(* count as one.                                                           *)
(***************************************************************************)
EXTENDS Integers, Sequences, FiniteSets, Sums

CONSTANTS
  Turns,           \* turns of the conversation
  Mode,            \* "native" function calling or "json" actions
  Conversations,   \* sets of turns a user may ask for
  Beside,          \* the turns each may be answered beside
  Finishing,       \* native turns that have the finish tool
  MaxIterations,   \* of each turn
  MaxContinuations, \* _MAX_CONTINUATIONS
  Calls,           \* tool calls, by name and arguments
  Endpoint,        \* tool, host and path of a call; calls without a URL differ
  Background,      \* calls that run in the background
  Batches,         \* the calls the model may ask for at once
  BlockAt,         \* _CYCLE_BLOCK_THRESHOLD
  EndpointBlockAt, \* _ENDPOINT_BLOCK_THRESHOLD
  Messages,        \* messages the user may inject
  NoTurn,
  Faults           \* "model": the model raises; "leave": the client goes;
                   \* "budget": the turn's token budget is used up

ASSUME ReactAssumption ==
  /\ Mode \in [Turns -> {"native", "json"}]
  /\ Conversations \subseteq SUBSET Turns
  /\ Beside \in [Turns -> SUBSET Turns]
  /\ Finishing \subseteq {t \in Turns : Mode[t] = "native"}
  /\ MaxIterations \in [Turns -> Nat \ {0}]
  /\ MaxContinuations \in Nat
  /\ IsFiniteSet(Calls) /\ Batches \subseteq Seq(Calls) /\ Background \subseteq Calls
  /\ BlockAt \in Nat \ {0} /\ EndpointBlockAt \in Nat \ {0}
  /\ NoTurn \notin Turns
  /\ Faults \subseteq {"model", "leave", "budget"}

VARIABLES
  phase,    \* where each turn is
  loop,     \* the loop's variables
  counts,   \* cycle_tracker
  ran,      \* how often each call was run
  tasks,    \* background tasks: iterations that started one
  answer,   \* how the loop ended, and the texts its answer is made of
  queues,   \* the turn whose queue the broker has for the conversation
  abandoned, \* turns whose loop goes on although their response was cancelled
  at,       \* where each injected message is
  owner,    \* the turn whose queue it was put in
  recalled, \* messages recalled while they waited in a queue
  late      \* messages put in a queue that is not drained any more

counters == <<counts, ran>>
inbox == <<at, owner, recalled, late>>
served == <<queues, abandoned>>
vars == <<phase, loop, counters, tasks, answer, served, inbox>>

Last(t) == MaxIterations[t]
Iterations(t) == 1 .. Last(t)
InLoop == {"begin", "model", "tools", "join"}

FreshLoop == [it |-> 1, parts |-> {}, checks |-> {}, pending |-> FALSE,
              checked |-> FALSE, conts |-> 0]
NoTasks == [running |-> {}, finished |-> {}]
NoCalls == [c \in Calls |-> 0]
NoAnswer == [kind |-> "none", text |-> {}, cut |-> FALSE]
HasTasks(t) == tasks[t].running \cup tasks[t].finished # {}

TypeOK ==
  /\ phase \in [Turns -> InLoop \cup {"idle", "answer", "final", "done", "closing", "over"}]
  /\ \A t \in Turns :
       /\ loop[t] \in [it : Iterations(t), parts : SUBSET Iterations(t),
                       checks : SUBSET Iterations(t), pending : BOOLEAN,
                       checked : BOOLEAN, conts : 0 .. MaxContinuations]
       /\ tasks[t] \in [running : SUBSET Iterations(t), finished : SUBSET Iterations(t)]
       /\ answer[t] \in [kind : {"none", "inline", "finish", "summary"},
                         text : SUBSET Iterations(t), cut : BOOLEAN]
  /\ counts \in [Turns -> [Calls -> Nat]] /\ ran \in [Turns -> [Calls -> Nat]]
  /\ queues \in Turns \cup {NoTurn} /\ abandoned \subseteq Turns
  /\ at \in [Messages -> {"unsent", "refused", "queued", "drained", "seen", "returned", "dropped"}]
  /\ owner \in [Messages -> Turns \cup {NoTurn}]
  /\ recalled \subseteq Messages /\ late \subseteq Messages

Init ==
  /\ \E asked \in Conversations :
       phase = [t \in Turns |-> IF t \in asked THEN "idle" ELSE "over"]
  /\ loop = [t \in Turns |-> FreshLoop]
  /\ counts = [t \in Turns |-> NoCalls] /\ ran = counts
  /\ tasks = [t \in Turns |-> NoTasks]
  /\ answer = [t \in Turns |-> NoAnswer]
  /\ queues = NoTurn /\ abandoned = {}
  /\ at = [m \in Messages |-> "unsent"]
  /\ owner = [m \in Messages |-> NoTurn]
  /\ recalled = {} /\ late = {}
-----------------------------------------------------------------------------
(* The interrupt queue.                                                    *)

Queued(t) == {m \in Messages : at[m] = "queued" /\ owner[m] = t}

\* Mutant of Waiting: what was recalled is drained all the same.
WaitingAll(t) == Queued(t)

Waiting(t) == Queued(t) \ recalled

\* drain: the queue is emptied; what was recalled is thrown away.
Drain(t, where) ==
  /\ at' = [m \in Messages |-> IF m \in Waiting(t) THEN where
                               ELSE IF m \in Queued(t) THEN "dropped" ELSE at[m]]
  /\ UNCHANGED <<owner, recalled, late>>

\* What is in the context is read with the next call of the model.
Reads(t) ==
  /\ at' = [m \in Messages |-> IF at[m] = "drained" /\ owner[m] = t THEN "seen" ELSE at[m]]
  /\ UNCHANGED <<owner, recalled, late>>

\* inject_message
Inject(m) ==
  /\ at[m] = "unsent"
  /\ \/ /\ queues # NoTurn
        /\ at' = [at EXCEPT ![m] = "queued"]
        /\ owner' = [owner EXCEPT ![m] = queues]
        /\ late' = IF phase[queues] \in {"done", "closing", "over"} THEN late \cup {m} ELSE late
     \/ /\ queues = NoTurn
        /\ at' = [at EXCEPT ![m] = "refused"]
        /\ UNCHANGED <<owner, late>>
  /\ UNCHANGED <<phase, loop, counters, tasks, answer, served, recalled>>

\* recall_inject: asked of whatever queue the conversation has by now.  The
\* id of a message that does not wait there is noted and never looked at.
Recall(m) ==
  /\ queues # NoTurn /\ m \in Waiting(queues)
  /\ recalled' = recalled \cup {m}
  /\ UNCHANGED <<phase, loop, counters, tasks, answer, served, at, owner, late>>
-----------------------------------------------------------------------------
(* The loop.                                                               *)

\* The request is taken up: its queue replaces the conversation's.
Start(t) ==
  /\ phase[t] = "idle"
  /\ phase' = [phase EXCEPT ![t] = "begin"]
  /\ queues' = t
  /\ {o \in Turns \ abandoned : phase[o] \notin {"idle", "closing", "over"}}
       \subseteq Beside[t]
  /\ UNCHANGED <<loop, counters, tasks, answer, abandoned, inbox>>

\* The loop returns; tasks still in the background are cancelled.
Returns(t, kind, text, l) ==
  /\ phase' = [phase EXCEPT ![t] = "answer"]
  /\ loop' = [loop EXCEPT ![t] = l]
  /\ answer' = [answer EXCEPT ![t] = [kind |-> kind, text |-> text, cut |-> HasTasks(t)]]
  /\ tasks' = [tasks EXCEPT ![t] = NoTasks]
  /\ UNCHANGED served

GoesOn(t, l) ==
  /\ phase' = [phase EXCEPT ![t] = "begin"]
  /\ loop' = [loop EXCEPT ![t] = [l EXCEPT !.it = @ + 1]]
  /\ UNCHANGED <<tasks, answer, served>>

\* The model is asked, with finished background tasks and what was injected.
Ask(t) ==
  /\ phase[t] = "begin"
  /\ phase' = [phase EXCEPT ![t] = "model"]
  /\ tasks' = [tasks EXCEPT ![t].finished = {}]
  /\ Reads(t)
  /\ UNCHANGED <<loop, counters, answer, served>>

OutOfBudget(t) ==
  /\ phase[t] = "begin" /\ "budget" \in Faults
  /\ Returns(t, "summary", {}, loop[t])
  /\ UNCHANGED <<counters, inbox>>

\* Calls of c among the first k of a batch.
Among(batch, k, c) == Cardinality({i \in 1 .. k : batch[i] = c})
SameEndpoint(c) == {o \in Calls : Endpoint[o] = Endpoint[c]}

\* _check_cycle: the k-th call is one too many, by itself or by its endpoint.
Refuses(t, batch, k) ==
  LET total == [c \in Calls |-> counts[t][c] + Among(batch, k, c)]
      c == batch[k]
  IN  \/ total[c] >= BlockAt
      \/ SumOver(total, SameEndpoint(c)) >= EndpointBlockAt

\* Mutant of Executed: a batch is judged by what was counted before it.
ExecutedUnjudged(t, batch) == {k \in DOMAIN batch : ~Refuses(t, <<batch[k]>>, 1)}

\* _execute_native_tool_calls runs what was not refused; a hook may still
\* deny a call, which is counted here as if it had run.
Executed(t, batch) == {k \in DOMAIN batch : ~Refuses(t, batch, k)}

\* The model asks for tools.  In json mode it asks for one, and the queue is
\* drained before it runs.
UseTools(t, batch) ==
  /\ phase[t] = "model"
  /\ Mode[t] = "json" => Len(batch) = 1 /\ batch[1] \notin Background
  /\ phase' = [phase EXCEPT ![t] = "tools"]
  /\ counts' = [counts EXCEPT ![t] = [c \in Calls |-> @[c] + Among(batch, Len(batch), c)]]
  /\ ran' = [ran EXCEPT ![t] =
       [c \in Calls |-> @[c] + Cardinality({k \in Executed(t, batch) : batch[k] = c})]]
  /\ tasks' = IF \E k \in Executed(t, batch) : batch[k] \in Background
              THEN [tasks EXCEPT ![t].running = @ \cup {loop[t].it}] ELSE tasks
  /\ IF Mode[t] = "json" THEN Drain(t, "drained") ELSE UNCHANGED inbox
  /\ UNCHANGED <<loop, answer, served>>

\* Every call is answered, by a result, an error or a timeout.
ToolsReturn(t) ==
  /\ phase[t] = "tools"
  /\ IF Mode[t] = "native" THEN Drain(t, "drained") ELSE UNCHANGED inbox
  /\ IF loop[t].it < Last(t) THEN GoesOn(t, loop[t]) ELSE Returns(t, "summary", {}, loop[t])
  /\ UNCHANGED counters

TaskEnds(t, i) ==
  /\ i \in tasks[t].running
  /\ tasks' = [tasks EXCEPT ![t] = [running |-> @.running \ {i}, finished |-> @.finished \cup {i}]]
  /\ UNCHANGED <<phase, loop, counters, answer, served, inbox>>

\* An end is put off until the background tasks have ended; those that take
\* too long are cancelled, and the model is told.
AwaitTasks(t, l) ==
  /\ phase' = [phase EXCEPT ![t] = "join"]
  /\ loop' = [loop EXCEPT ![t] = l]
  /\ UNCHANGED <<tasks, answer, served>>

Joined(t) ==
  /\ phase[t] = "join"
  /\ phase' = [phase EXCEPT ![t] = "begin"]
  /\ tasks' = [tasks EXCEPT ![t] = NoTasks]
  /\ loop' = [loop EXCEPT ![t].it = @ + 1]
  /\ UNCHANGED <<counters, answer, served, inbox>>

\* Mutant of Garbled: the iteration is not counted.
GarbledFree(t) ==
  /\ phase[t] = "model" /\ Mode[t] = "json"
  /\ phase' = [phase EXCEPT ![t] = "begin"]
  /\ UNCHANGED <<loop, counters, tasks, answer, served, inbox>>

\* A reply in json mode that cannot be parsed.
Garbled(t) ==
  /\ phase[t] = "model" /\ Mode[t] = "json" /\ loop[t].it < Last(t)
  /\ GoesOn(t, loop[t])
  /\ UNCHANGED <<counters, inbox>>

More(t) == loop[t].it < Last(t)

\* Mutants of the next three: what was injected is not answered, the answer
\* does not wait for background tasks, the checklist's reply is the answer.
InterruptedNever(t) == FALSE
WaitsNever(t) == FALSE
ConsumesNever(t) == FALSE

\* Messages came in: they are answered before the end.
Interrupted(t) == Waiting(t) # {} /\ More(t)

\* There are background tasks to wait for.
Waits(t) == HasTasks(t) /\ More(t)

\* The reply to the checklist is consumed.
Consumes(t) == loop[t].pending /\ More(t)

\* The reply is text: the end, as far as the model is concerned.
Text(t) ==
  LET it == loop[t].it
      l == IF loop[t].pending THEN [loop[t] EXCEPT !.checks = @ \cup {it}] ELSE loop[t]
      whole == l.parts \cup {it}
      stitched == [l EXCEPT !.parts = {}]
      native == Mode[t] = "native"
      waits == native /\ Waits(t)
      checks == ~l.checked /\ it < Last(t) - 1
  IN  /\ phase[t] = "model"
      /\ Drain(t, "drained") /\ UNCHANGED counters
      /\ \/ Interrupted(t) /\ GoesOn(t, l)
         \* the output limit, in a call or in the text
         \/ /\ ~Interrupted(t) /\ native /\ More(t) /\ l.conts < MaxContinuations
            /\ \E parts \in {l.parts, whole} :
                 GoesOn(t, [l EXCEPT !.conts = @ + 1, !.parts = parts])
         \/ ~Interrupted(t) /\ waits /\ AwaitTasks(t, stitched)
         \* the completion checklist
         \/ /\ ~Interrupted(t) /\ ~waits /\ checks
            /\ GoesOn(t, [stitched EXCEPT !.checked = TRUE, !.pending = TRUE])
         \/ /\ ~Interrupted(t) /\ ~waits /\ Consumes(t)
            /\ GoesOn(t, [stitched EXCEPT !.pending = FALSE])
         \/ /\ ~Interrupted(t) /\ ~waits /\ ~Consumes(t)
            /\ Returns(t, "inline", whole, [stitched EXCEPT !.pending = FALSE])

\* The model calls finish and nothing else.
Finish(t) ==
  /\ phase[t] = "model" /\ t \in Finishing
  /\ UNCHANGED counters
  /\ \/ Waits(t) /\ AwaitTasks(t, loop[t]) /\ UNCHANGED inbox
     \/ /\ ~Waits(t) /\ ~loop[t].checked /\ loop[t].it < Last(t) - 1
        /\ GoesOn(t, [loop[t] EXCEPT !.checked = TRUE, !.pending = TRUE])
        /\ UNCHANGED inbox
     \/ /\ ~Waits(t) /\ Drain(t, "drained")
        /\ IF Interrupted(t) THEN GoesOn(t, loop[t]) ELSE Returns(t, "finish", {}, loop[t])
-----------------------------------------------------------------------------
(* The endpoint.                                                           *)

\* stream_answer: a finished turn is asked for its answer, with all that was
\* drained; otherwise the answer or a summary of the trace is streamed.
StreamAnswer(t) ==
  /\ phase[t] = "answer" /\ t \notin abandoned
  /\ phase' = [phase EXCEPT ![t] = "final"]
  /\ IF answer[t].kind = "finish" THEN Reads(t) ELSE UNCHANGED inbox
  /\ UNCHANGED <<loop, counters, tasks, answer, served>>

\* What was not drained goes back to the user with the answer.
FinalDrain(t) ==
  /\ phase[t] = "final"
  /\ Drain(t, "returned")
  /\ phase' = [phase EXCEPT ![t] = "done"]
  /\ UNCHANGED <<loop, counters, tasks, answer, served>>

\* unregister: by the name of the conversation.
Unregister == queues' = NoTurn

\* What the loop kept goes with its result.
Forgotten(t) ==
  /\ loop' = [loop EXCEPT ![t] = FreshLoop]
  /\ counts' = [counts EXCEPT ![t] = NoCalls] /\ ran' = [ran EXCEPT ![t] = NoCalls]
  /\ tasks' = [tasks EXCEPT ![t] = NoTasks]
  /\ answer' = [answer EXCEPT ![t] = NoAnswer]
  /\ UNCHANGED inbox

\* After the answer; then suggestions are asked for.
UnregisterDone(t) ==
  /\ phase[t] = "done"
  /\ phase' = [phase EXCEPT ![t] = "closing"]
  /\ Unregister /\ UNCHANGED abandoned /\ Forgotten(t)

\* The finally clause, which a cancelled response has behind it.
Over(t) ==
  /\ phase' = [phase EXCEPT ![t] = "over"]
  /\ IF t \in abandoned THEN UNCHANGED queues ELSE Unregister
  /\ abandoned' = abandoned \ {t}
  /\ Forgotten(t)

Close(t) == phase[t] = "closing" /\ Over(t)

\* The model raises.  Or the client goes, when a poll cancels the loop with its
\* tasks, or when the loop has ended: the turn has no answer.
Breaks(t) ==
  /\ \/ "model" \in Faults /\ phase[t] = "model"
     \/ /\ "leave" \in Faults /\ t \notin abandoned
        /\ phase[t] \in InLoop \cup {"answer", "final", "done"}
  /\ Over(t)

\* The response is cancelled while the loop is at work.  The finally clause
\* cancels neither the loop nor its tools.
Abandon(t) ==
  /\ "leave" \in Faults /\ phase[t] \in InLoop /\ t \notin abandoned
  /\ abandoned' = abandoned \cup {t} /\ Unregister
  /\ UNCHANGED <<phase, loop, counters, tasks, answer, inbox>>

\* Nobody reads what it returns.
Unread(t) == phase[t] = "answer" /\ t \in abandoned /\ Over(t)
-----------------------------------------------------------------------------
Step(t) ==
  \/ Ask(t) \/ OutOfBudget(t) \/ ToolsReturn(t) \/ Joined(t)
  \/ Garbled(t) \/ Text(t) \/ Finish(t)
  \/ \E batch \in Batches : UseTools(t, batch)
  \/ StreamAnswer(t) \/ FinalDrain(t) \/ UnregisterDone(t) \/ Close(t)
  \/ Breaks(t) \/ Unread(t)

Next ==
  \/ \E t \in Turns :
       Start(t) \/ Step(t) \/ Abandon(t) \/ \E i \in Iterations(t) : TaskEnds(t, i)
  \/ \E m \in Messages : Inject(m) \/ Recall(m)

Spec == Init /\ [][Next]_vars

\* The model and every tool answer in the end, if only by a timeout.
FairSpec == Spec /\ \A t \in Turns : WF_vars(Step(t))
=============================================================================
