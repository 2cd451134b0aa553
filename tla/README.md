# A verification project for FIM One

FIM One is a multi-tenant platform for AI agents: a FastAPI server
(`src/src/fim_one`, about 190 000 lines of Python with its tests), a web
frontend and its documentation.  This project models the parts of the server
whose correctness depends on the order in which things happen, checks the models
with TLC on small instances and proves the most important properties with TLAPS
for every value of the constants.

Paths below are relative to `src/src/fim_one/`.

## 1. Inventory

### Components with state and concurrency

| Component | State it keeps | Operations | Interacts with | What is hard, and what must hold |
|---|---|---|---|---|
| Workflow engine, `core/workflow/engine.py`, `types.py`, `parser.py` | per run: node statuses, pending/completed/running sets, active edges, failure bookkeeping, an `asyncio.Semaphore`, the event queue | `execute_streaming`, the orchestrator loop, one task per node with retry and error strategy, cancellation and timeout | node executors, the run endpoints (through the event stream), the cancel endpoint (through an event) | interleaving of node tasks with skip cascades, branch decisions, failures, cancellation and stream closing.  Nodes run after their inputs; exactly the live paths run; slots are never lost; statuses are final; the verdict is justified; every run ends |
| Run life cycle, `web/api/workflows.py`, `core/workflow/rate_limiter.py`, `run_cleanup.py` | the row of each run (database); `_active_runs`, `_run_timestamps`, `_running_tasks` (per process) | interactive, trigger and batch endpoints, cancel, delete, clear, retention sweep, webhooks | engine, database, other server processes | read-then-write over several requests, a client that leaves at any point, a final write that fails, a process that dies.  Rows settle, slots are given back, webhooks tell the truth, deleted rows stay deleted |
| Human approval of nodes, `core/workflow/nodes.py` (`HumanInterventionExecutor`), approve and reject endpoints | an approval row per attempt | ask, poll, expire, approve, reject | engine (timeout, retry), run life cycle (cascade) | several deciders, two timeouts of the same length, retry with a new row.  No gate opens unapproved; one decision is accepted; an accepted one stands |
| Cron scheduler, `core/workflow/scheduler.py` | `last_scheduled_at` of each workflow (database); semaphore and background tasks (per process) | tick, dispatch, background run, stop | run life cycle's rows, engine, other processes | check and stamp in different transactions, a semaphore that is looked at before it is taken.  No fire runs twice, none is passed over, slots are not lost |
| Tool confirmation gate, `core/hooks/feishu_gate_hook.py`, `web/api/confirmations.py`, `web/api/channels.py`, `core/channels/expiry.py` | a `ConfirmationRequest` row per sensitive tool call | the pre-tool hook, inline and channel answers, sweeper | the ReAct loop, Feishu | answers on two surfaces, expiry by hook and by sweeper.  A gated tool runs only on an approval |
| Planned chat turns, `web/api/chat.py` (DAG endpoint), `core/planner/executor.py`, `checkpoint.py`, `planner.py`, `analyzer.py` | per turn: round, carried steps, plan with step statuses, step tasks, replan counter; a checkpoint file per conversation | plan, execute rounds of step tasks, verify, cascade failures, analyse, plan again, answer, resume | model calls, interrupt broker, file system | steps finish in any order, some fail or are still being verified; injected messages, dropped turns, torn files.  Steps build on final results, progress survives, every turn ends |
| ReAct loop, `core/agent/react.py` | per turn: iteration, continuation parts, verification flag, cycle tracker, background tasks, the message list | model call, parallel and background tool calls, checklist, finish signal, streamed answer | tools, hooks, interrupt broker, memory | texts, tool calls, injected messages and background results arrive in any order.  Internal replies stay internal, background work is waited for, repeats are refused, the turn ends |
| Interrupt broker, `web/interrupt.py` | a queue per conversation, recalled ids (memory or Redis) | register, inject, recall, drain, unregister | chat endpoint, ReAct loop | a message injected or recalled while the turn is ending; queues found by the conversation's name.  What was accepted is read or given back |
| Circuit breaker, `core/tool/connector/circuit_breaker.py`, `adapter.py` | state, failure count, opening time, probes per connector | check and acquire, success, failure, reset | connectors | answers of any age, probes that report nothing.  Calls are refused only when that was earned; few probes; recovery |
| Subscriptions, `web/api/webhooks.py`, `web/services/subscription_lifecycle.py`, `web/api/billing.py`, `db/models/billing.py` | subscription rows, the user's plan, the webhook ledger | five kinds of provider events, checkout, hourly sweep | payment provider, database | duplicated, reordered and failing deliveries racing the sweep.  Nothing is applied twice; what was paid for is kept; what is over is taken away |
| Knowledge bases, `web/api/knowledge_bases.py`, `rag/manager.py` | knowledge base row with two counters, document rows, files, vectors | upload, import, background ingest, retry, delete, edit chunks | vector store, disk, database | database, disk and store change in separate steps.  A ready document is stored, a deleted one is gone, counters agree |
| Model resilience, `core/model/rate_limit.py`, `retry.py`, `fallback.py` | token bucket, attempt counters | acquire, retry with backoff, fall back to another model | LLM providers | waiting under a lock; a retry after output was streamed |
| Authentication (`web/auth.py`, tickets, refresh tokens) | users, token versions | login, refresh, revoke | every endpoint | revocation against tokens in flight |
| Connectors, MCP, tools (`core/tool/`, `core/mcp/`) | per-call state, sessions | call, discover, reconnect | external services | timeouts of external calls |

### Components without state worth modelling

Prompt templates, planners' prompts, evaluation, document loaders, import and
export, i18n, migrations, the market place's CRUD endpoints, the frontend.  Each
is listed in `PROJECT.json` with the reason it is not modelled.

### How the modelled parts interact

    client -- POST run/trigger/batch --> WorkflowRun ---- drives ----> WorkflowEngine
    cron clock --> WorkflowScheduler --- drives --------------------------^  |
                                                          human node |
    people -- approve/reject --------------------------> ApprovalGate <-----+

    client -- POST chat/dag --> PlanTurn -- step agents --> (ReAct loop)
                                                                 | sensitive tool call
    people -- portal / Feishu ---------------------------> ConfirmationGate => HumanGate

    client -- POST chat/react, inject, recall --> ReactTurn (loop and broker)
                                                     | connector call
                                                     +--> CircuitBreaker
    payment provider -- webhooks --> Billing <-- hourly sweep
    client -- upload, retry, delete --> KnowledgeBase --> vector store

A parent sees a child through few values only, and each model keeps exactly
those: a run sees its engine as executing, a verdict, or aborted; the engine sees
a human node as an executor that needs no slot and may fail; the scheduler sees a
run as a task that takes a slot and settles; a turn sees a step's agent as an
answer, a refusal by the verifier, or a failure; the loop of `ReactTurn` sees a
tool as a call that ends, whether a hook or the breaker denied it or not.  The
engine and the scheduler share one module for `asyncio.Semaphore`.

## 2. Plan

Built, in this order (the most important behaviour first): `AsyncSemaphore` and
`WorkflowEngine`, with `DagRun`, which it implements; `WorkflowRun`; `ApprovalGate`; `WorkflowScheduler` (composes
`AsyncSemaphore` once per process); `HumanGate` and the two that implement it,
`ConfirmationGate` and `ApprovalGate`; `PlanTurn`; `Billing`; `KnowledgeBase`;
`ReactTurn` (the loop composed with the broker and its endpoint);
`CircuitBreaker`.  Every safety property that a run checks is proved as well.

What would come next:

1. `ReactTurn` composed with `ConfirmationGate` through the pre-tool hook, and the
   Redis broker (two processes, queues that expire).
2. `ToolCache` (one execution per key) and the chat gate of quotas.
3. One more abstract specification: a single ledger of paid periods, refined by
   `Billing`.
4. Proofs: the refinement of item 3 and the safety properties of the modules of items
   1 and 2.

## 3. Modules and the code

An action is the code between two suspension points of a coroutine (`await` of
something that is not ready), because the event loop runs one coroutine at a
time; or one transaction, because several processes share the database.  `map` in
`PROJECT.json` names the lines of every definition.  Each component has a module
of its own, a `...Props` module with what it promises and an `MC...` module with
small constants.  The `...Proofs` modules prove a component each, or several that
belong together: `WorkflowRunProofs` the run life cycle, the approval of nodes and
the scheduler, `ConfirmationGateProofs` the two guards of a tool call.  Where such
components have variables or operators of the same name, some carry a prefix (`Gate`,
`Scheduler`, `Breaker`).  Operators introduced as
"mutant of" stand for plausible errors in the operator that follows them; they
are used by no specification and serve to show that each property is sensitive
to the code.

**AsyncSemaphore.**  `asyncio.Semaphore` of CPython, external to the repository,
as the engine and the scheduler use it: a counter, a FIFO queue, and the set of
waiters that were woken and have not run (`granted`).  A record and operators on
it, so that several semaphores can be kept in one variable.  `Locked`,
`TakeSlot`, `JoinQueue`, `ResumeWaiter`, `ReleaseSlot`, `WakeNext` follow
`acquire` and `release`; `ForfeitSlot` and `DropWaiters` are what a cancelled
waiter does in `acquire`'s exception handler.  **Sums** has the sum of counts over a
set, which the counters of `KnowledgeBase` and the limits of `ReactTurn` need.

**WorkflowEngine.**  One `execute_streaming` call.  `orch` is where the
orchestrator coroutine stands (`top` of the loop, in `wait`, gathering cancelled
tasks, in the verdict); `pending`, `completed`, `running`, `activeEdges`,
`nodeStatus` and `tolerated` are the closure's variables under their own names;
`phase` and `attempt` belong to the node tasks; `sem` is the semaphore;
`cancelEvent`, `deadline`, `closed` are what the outside has done.

| Action | Code |
|---|---|
| `OrchStart`, `OrchPass`, `OrchLeave`, `OrchReap` | the loop body of `_orchestrator`: skip and launch every node that can be, wait, collect finished tasks |
| `OrchTimeout`, `OrchCancel`, `OrchStop` | its early exits: deadline, cancel event, a STOP_WORKFLOW failure |
| `OrchGathered`, `OrchVerdict`, `OrchAborted` | `gather` of the cancelled tasks, the run-level event, the `finally` blocks |
| `NodeEnter`, `NodeResume`, `Begin` | `_run_node`: through the semaphore, or past it for a human node |
| `NodeSucceed`, `NodeFail`, `NodeRetry`, `NodeWake`, `NodeUnwind` | `_run_node_inner` with retry, backoff, `_handle_node_failure` by strategy, and `CancelledError` |
| `SetCancel`, `DeadlinePasses`, `CloseStream` | the cancel endpoint, the clock, the consumer that closes the generator |

Executors are outcomes: completed with a set of active handles, or failed.  A
node whose retry settings do not parse crashes outside its try block
(`Misconfigured`).  The blueprint is a parameter with the assumptions that
`parse_blueprint` and `topological_sort` establish (`ParsedBlueprint`,
`TopologicallySorted`).  Variables, templates and event payloads are left out.

**DagRun** is the abstract promise about a run of a graph of nodes, whatever is
underneath (slots, queues, retries, timers): a node starts when everything it needs
is settled, is settled once, and the run ends once, as completed only with nothing
left over.  `ImplementsDagRun` instantiates it with the blueprint's edges as what a
node needs and with the engine's statuses and verdict; slots, tasks and retries are
stutters.

**WorkflowRun.**  Several runs, several server processes.  `stage` is where the
request handler of a run stands, `row` its database status, `final` the local
`final_status`, `slots`/`starts` the rate limiter, `handles` the keys of
`_running_tasks`, `hook` the webhook sent; `Requested` says which runs are asked
for together, the others have been refused before.  `Check` and `Acquire` and `Insert`
are separate because a suspension point lies between them; `Persist` overwrites
the row whatever it says; `CancelRead`/`CancelWrite` are the two transactions of
a cancel request that lands on a process without the run's handle; `Crash` clears
what a process keeps in memory and leaves the rows.  `unsaved`, `marked` are
history variables for the properties.

**ApprovalGate.**  One human node over its attempts, each with an approval row.
The executor's own expiry is a read and a write by primary key, two actions; the
engine's equally long timeout and a cancellation may strike anywhere; `Decide` is
the endpoints' conditional update; `DeleteRun` is the cascade.

**WorkflowScheduler.**  One instance per process.  Time is the number of fire
times of each workflow, `last` the stamp expressed in it; `recent` holds the workflows
that never ran and whose last fire is within two poll intervals.  `TickStart` reads
the table and the clock once and notes the fire for which each due workflow will be
dispatched (`due`); `Dispatch` looks at the semaphore and reads the clock
a second time (`stamp`); `Launch` commits the stamp and creates
the task, which takes its slot later (`RunEnter`).  `Cleanup` cancels what has
not ended at shutdown.  What becomes of a run's row is `WorkflowRun`'s matter; here a
run is what holds a slot.  `launched`, `raced` and `setback` are history: who launched
what, which workflows two processes had in hand at once, and whose stamp was replaced
by an older one.

**HumanGate** is the abstract promise about gates that wait for a person: at most
one answer is accepted, it is not taken back, and the work behind a gate goes on
only after an approval.  Two unrelated pieces of code keep it.  `ApprovalGate`
does for each attempt of a node in a run whose context has a database
(`KeepsHumanGate`); a node without one approves itself, as the code says, and has no
gate.  **ConfirmationGate** is the other: every parallel call of a turn with
its hook (routing by the agent's settings, card delivery, poll, last poll, expiry
in two steps), the fail-closed hook runner (`Raises`), the portal's look before
its conditional update (`Check`, `Apply`), Feishu clicks, the sweeper and an
aborted turn.  `Implements` instantiates `HumanGate` for each sensitive call with
a refinement mapping.

**PlanTurn.**  The rounds of the DAG endpoint: `Request` (with or without the
checkpoint), `Plan`, execution, `Analyze`, `Answer`.  `Round` is one iteration of
the executor's loop between two `asyncio.wait`: collect, save the checkpoint,
skip on the stop event, cascade failures, launch, or declare a deadlock.  `Begin`
to `Fails` are the step task behind its semaphore; a step that is verified is
`completed` while `checking`, `retrying` and `citing`, as in the code.  A refused
answer gets one retry that is verified again (`Refused`); wrong citations get one
that nobody verifies, and when it raises the answer stays as it was: `Cited` is the
end of that step in all three cases.  `Inject` is a user message found by a drain.
A turn ends early in three ways: `Drop`, when a poll of the client cancels the
executor or a phase raises; `Abandon`, when the response is cancelled while a plan is
executed, after which the executor goes on beside the turns to come (`ghost`,
`GhostCollects`) and saves its checkpoint over theirs; `Crash`.  `Saves` is
`DAGCheckpoint.save`, whose failure is only logged and may leave half a file.  Plans are any acyclic set of new steps on
top of the carried ones; step numbers follow a topological order, which loses
nothing because identifiers are otherwise unused.

**Billing.**  The provider (external) bills by the period, logs events and
delivers each until it is acknowledged, in any order and to several processes.
`Receive` is the webhook up to the ledger's insert, with its answer for an event
that was processed; `CheckoutCompleted`, `SubscriptionUpdated`,
`SubscriptionDeleted`, the paid and the failed invoice say what row and plan a
handler leaves; `Commit` writes them with the ledger, `Fail` records the error.
`SweepReads` and `SweepWrites` are the two steps of the hourly sweep.  `applied`,
`retried` and `disordered` are history.

**KnowledgeBase.**  One knowledge base with its row, document rows, directory,
files and the vector store (external, `rag/store/lancedb.py`).  `call` is what a
request has in hand between two awaits, `ingest` what a background ingest has.
Uploads, imports, ingests, retries, chunk edits, document deletion and the deletion
of everything are sequences of such steps.  `Faults` names what may fail: loading,
embedding or storing, the look-up of the hashes a document has (`lancedb.py:187`, which
takes a failure for none), the deletion or change of vectors, a file that is written
or removed, and a look-up or commit in the database.  So `Record`, `CountFails`
and `FailIngest` have the failures of `_ingest_document` after the vectors were added,
that of its last status write among them; `CommitFails` is a request whose commit
fails; `Sweeps` and `Unlinks` may silently do nothing.  `Crash` ends everything.
`disturbed`, `unswept`, `kept`, `misread`, `lost`, `reworked`, `uncounted`, `behind` and
`skewed` are history: they mark what operations did to each other or left undone.

**ReactTurn.**  Turns of one conversation.  `phase` is where a turn is; `loop`
holds the iteration, the kept parts of a truncated answer, the checklist's flag and
the count of continuations; `counts` is the cycle tracker; `queues` is the turn
whose queue the broker has; `at` and `owner` follow each injected message.
`Text` is a reply without tool calls, native or json, in all of its branches
(truncated, interrupted, background work to wait for, checklist, answer);
`UseTools` and `ToolsReturn` are a batch; `Finish` is the finish signal;
`StreamAnswer`, `FinalDrain`, `UnregisterDone`, `Close` and `Breaks` are
`stream_answer` and the endpoint.  A client that leaves is met in two ways: a poll
cancels the loop with its tools (`Breaks`), or the response is cancelled and its
finally clause runs while the loop goes on (`Abandon`); nobody reads what that loop
returns (`Unread`), and the next turn may start beside it (`abandoned`).

**CircuitBreaker.**  One connector's breaker and the calls it guards.  The
registry's lock makes `check_and_acquire`, `record_success` and `record_failure` one
step each; between them a call is under way, and the server may go down or come
back.  `Unreported` is an end that neither reports success nor failure.
`probing`, `lost` and `streak` are history.

## 4. Runs

| Run | Question | Result |
|---|---|---|
| `engine_mixed` | every interleaving of a 7-node blueprint | holds |
| `run_faults` | two runs of three kinds, two processes, every fault | holds |
| `approval_faults` | three requests, two attempts, every fault | holds |
| `scheduler_loop` | two processes, two workflows, failing writes, shutdown | holds |
| `confirmation_turn` | three parallel calls, two surfaces, all settings | holds |
| `plan_rounds` | all plans of up to three steps, three rounds, every fault | holds |
| `run_keepalive_ends_run` | is a run stored as completed one that its engine completed? | violated |
| `billing_webhooks` | two processes, three events of a new, a paid or an overdue subscription, sweep, failures | holds |
| `billing_resubscribed` | does a user who pays keep the plan? | violated |
| `kb_documents` | two requests and two ingests at a time, failures, crash | holds |
| `react_interrupts` | turns alone, in sequence and side by side, every fault | holds |
| `breaker_recovery` | four calls, a server that goes down and comes back | holds |

What the passing runs show, by property:

- *Engine.*  `PathsRespected`: a node starts only after its inputs settled and one
  live edge reaches it, exactly the nodes on live paths run, and never one the
  client was told is skipped.  `NeverStuck`: the loop's deadlock branch is reached
  only when it should be.  `ImplementsDagRun` (refinement): a node starts
  after what it needs, settles once and stays so, the run ends once.
  `QuietAfterVerdict`: nothing is at work after the verdict.  `CompletedIsSound`: a run is completed
  only if no failure was left untolerated.  `StopHaltsLaunching`, `RunEnds`.
- *Run.*  `GivenBack` (slots and handles are returned), `FinishedRunSettled`,
  `HookTruthful`, `RunsAnswered`.
- *Approval.*  `KeepsHumanGate` (refinement), `AnswerFinal` (`OneDecision` and
  `DecisionKept`), `GateEnds`.
- *Scheduler.*  `LaunchedOnce`, `OneWaiterAtMost`, `FiresAreServed`.
- *Confirmation.*  `Implements` (refinement), `CallsEnd`, `RequestsClosed`.
- *Planned turns.*  `BuiltOnFinished` (a step is at work only on results that are
  final, all their verifications and retries over), `ProgressKept`, `CascadesHaveCauses`, `TurnEnds`.
- *Billing.*  `AppliedOnce`, `MirrorsProvider`, `KeepsPaidWindow`, `EndedIsDemoted`.
- *Knowledge base.*  `ReadyIsStored`, `DeletedIsForgotten`, `CountersRight`,
  `Settles`.
- *ReAct turn.*  `InterruptsAnswered`, `RecallHolds`, `VerificationInternal`,
  `AnswerAwaitsTasks`, `WithinLimits`, `TurnEnds`.
- *Breaker.*  `RefusesJustly` (`RefusalsEarned`, `ProbesLimited`), `Recovers`.

Where a property excuses a case, the case is one the code really gets wrong or
leaves open; each is listed in section 6.  Further invariants of the `...Props`
modules (the type invariants, `SettledForever`, `SlotsAccounted`, `CountedRunsBounded`,
`RunsBounded`, `GateHolds`, `AnswerKept`, `CarriedClosed`, `CheckpointCurrent`) are in
no run's list because they are proved for every instance (section 5).

### Bounds, and why they are enough

- Engine: seven nodes hold a branch, a join of four paths, a retrying node, a
  human node, a node that crashes and all three strategies.  One slot makes
  automatic nodes queue, so a failure, a cancellation and a closing stream meet
  tasks that are created, queued, woken, executing and backing off.  The theorems
  on slots hold for every blueprint.
- Run: an interactive and a triggered run, or two items of a batch, exercise all
  handlers; two processes make cancel requests land on the wrong one; limits of one
  make the runs compete.  Three runs at a time exceed what TLC finishes in minutes;
  the limiter's bound is proved for any number.
- Approval: three requests can race a pending row and a new attempt's row; two
  attempts show a late answer to a superseded approval.
- Scheduler: two processes, each with one slot, and two workflows make a tick pass
  over a workflow while the other process takes it, and make both take it; the first
  workflow fires twice, which shows a fire between two readings of the clock and a
  stamp replaced by an older one, the second once.
- Confirmation: two sensitive calls make answers, expiry and abort of different
  calls interleave; the third call is not gated; `Settings` holds every mode with
  and without a channel.
- Planned turn: three steps make chains, forks and joins; two slots let a step be
  verified while others run; three rounds (the default of
  `DAG_MAX_REPLAN_ROUNDS`) and one injection reach both kinds of replan.  There is
  one goal: a request may also find nothing in the checkpoint, as it would if the
  file were another goal's.  `MaxFaults` is one failing save or one abandoned executor;
  its plan has at most `MaxAbandoned` steps, two, and while it lives the next turn's
  plan has what is left of the three.  Crashes and cancelled executors are not
  counted.
- Billing: three events are a checkout and any two that follow it, which is what
  reordering and duplication need; two processes handle one event at once; one
  price is listed and one is not; two postures switch the sweep off and on.
  `billing_resubscribed` gives one user two subscriptions.
- Knowledge base: two documents, one of which says the same thing twice, share
  counters and directory; two requests and two ingests at a time make every pair of
  steps meet; three requests in all are an upload, something beside it, and what
  follows.  The base is empty at first or holds both documents (`Initial`), so that a
  request is not spent on each.
- ReAct turn: a native turn of four iterations holds a truncated text, a tool call,
  a checklist and an answer in any order; a native turn of two has a short turn before
  or after it, or beside its loop when that is left behind; two json turns run beside
  each other, which the endpoint allows.  Limits of two and
  three calls are reached by batches of two; one message can be queued, recalled or
  drained at each point.
- Breaker: four calls exceed the threshold of three and the two probes together with
  a late one.

The counters that the code leaves unbounded are bounded by `Fires` (the
fires explored), `MaxAttempts`, `MaxInjects`, `MaxSteps`, `MaxAbandoned`, `MaxFaults`, `MaxEvents`,
`MaxPeriods` and `MaxRequests`; all are named in the modules.
`CHECK_DEADLOCK FALSE` is set where the system may really stop: every run or gate
is over and nobody sends another request (`WorkflowRun`, `ApprovalGate`,
`ConfirmationGate`), nobody asks a new question (`PlanTurn`, `ReactTurn`) or
uploads another document (`KnowledgeBase`), the provider's log is full and handled
(`Billing`), or the server has
shut down and cron has run out of fires (`WorkflowScheduler`).  In the engine run
deadlock is checked: the environment can act until the run has a verdict, and a
finished run stutters explicitly.

### Fairness, and why the code justifies it

The event loop runs every ready coroutine, and every wait of a node, step, hook or
handler is bounded by a timeout of the code.

- `WorkflowEngine`: weak fairness of the orchestrator's steps and of each node
  task's steps.  A node always has a timeout (`parse_timeout_ms`).  Setting the
  cancel event, closing and the deadline are not fair.
- `WorkflowRun`: weak fairness of each handler and of a cancel request's second
  half.  Requests, time and crashes are not fair.
- `ApprovalGate`: weak fairness of the node; nobody has to decide.
- `WorkflowScheduler`: weak fairness of tick and runs; strong fairness of a launch by
  each process, that is, writes to the database do not fail for ever.  `FiresAreServed`
  speaks of the time after cron has fallen silent, and says so: while fires go on, a
  workflow may be passed over for ever (section 6).
- `ConfirmationGate`: weak fairness of each hook and of the sweeper; nobody has to
  answer.
- `PlanTurn`: weak fairness of the turn's own work; injections, drops, crashes and
  an executor left behind are not fair.  The injections of one turn are bounded: a user who never stops
  sending messages keeps a turn going for ever, since replans the user asks for
  are not counted.
- `Billing`: strong fairness of some delivery and of some commit, that is, the
  provider delivers until it is answered and a handler does not fail for ever; weak
  fairness of the end of each handler; the sweep runs every hour.
- `KnowledgeBase`: weak fairness of each background ingest.  Requests and crashes are
  not fair.
- `ReactTurn`: weak fairness of each turn, also of a loop left behind: the model and every tool answer in the end,
  if only by a timeout.  A background task need not end: the loop stops waiting.
- `CircuitBreaker`: the cooldown passes, every call ends (by its timeout), and the
  connector goes on being called.

## 5. Proofs

TLAPS checks the following for every value of the constants that satisfies the
named assumptions.  Each module's invariant is listed because the property alone
is not preserved by the steps.

- **LibraryProofs**: what several proofs need.  A non-empty set of naturals, of
  positions or of finite sets has a least member.  A sum of counts (`SumOver`) is well
  defined, changes by the difference when one count changes (`SumOverChange`), is
  monotone and at least any of its terms; the module of the fold gives no facts, so
  these come from partial sums along an enumeration, and every induction is a least
  counterexample.  One lemma per operation of the semaphore: `SemaphoreOK` (the counter
  plus holders plus woken waiters is the limit; queue, `granted` and `held` are
  disjoint and without repetition) is kept, and what the operation does to holders
  and waiters.  The engine and the scheduler cite these lemmas and never unfold
  the semaphore.
- **WorkflowEngineProofs**: every safety property the engine's run checks.  For
  `TypeCorrect`, `NoSlotLost` and `Bounded`, `IInv` is the
  type invariant, `SlotInv` (the semaphore is sound, its holders are exactly the
  automatic nodes that execute or back off, its waiters wait) and `TaskInv` (which
  tasks may be cancelled, running or pending, and that every task not yet begun is
  cancelled while the orchestrator gathers).  `TaskInv` is needed because a
  cancelled waiter forfeits its slot: without it a granted slot could be returned
  twice.  The rest builds up in layers.  `StatusInv` ties a node's status to its
  task (pending until launched or skipped, running while the task lives, settled
  once collected) and gives `StatusFinal` (`SettledForever`) and `StopIsFinal`.
  `VerdictInv` (a
  verdict is reached with nothing running and, unless cancelled, everything
  settled) gives `NothingOutlivesVerdict` and `CompletedHonestly`.  `PathInv` says
  that a launched node keeps the inputs it was launched with, because only nodes
  that are not settled cut edges, and that in an undisturbed run a skipped node
  has lost every incoming edge and cut its own.  Some pending node comes first in
  the topological order (`FirstPending`), which gives `NeverGivesUp`: the branch the
  engine calls a deadlock is never taken.  `AnnounceInv` says that what the client was told
  is skipped is fed only by what it was told as well.  `CutOffFacts` establishes
  that of `_branch_cut_off_by`, a recursion along the topological order, whose
  function is shown to exist and to be closed by least counterexamples.  Together:
  `PathsFollowed` (`PathsRespected`).  `EngineRefinement` (`ImplementsDagRun`): the
  steps are taken node by node (`DagStep`) and then as the orchestrator's pass, which
  may start, skip and collect several at once; `OutcomeInv` says that only a run whose
  stream was closed ends with nodes left over.
- **WorkflowRunProofs**, run life cycle: `TypeCorrect`; `CountedBounded`
  (`CountedRunsBounded`), from `SlotInv`: an interactive or triggered run that
  its process serves is in that process's `_active_runs`, whose size is within the
  limit; `TakenIsGivenBack` (`GivenBack`); `RowsSettle` (`FinishedRunSettled`) and
  `HooksTellTruth` (`HookTruthful`: agreement with the row for every webhook, with the
  engine for those of triggered runs), by one induction with `HandInv`: the verdict the
  handler has in hand is the engine's, and the row has it, or was deleted, marked
  as cancelled or not saved, before the webhook is told.
- **WorkflowRunProofs**, approval of nodes: `GateTypeCorrect`, `AtMostOneDecision`,
  `NeverReversed`, both together as `AnsweredForGood` (`AnswerFinal`), `NeverBypassed`
  (`GateHolds`), from an invariant which says that the rows of later attempts do not
  exist, that an accepted answer is still in its row or was expired or deleted, and
  that an approved row has an accepted approval.  `ApprovalRefinement`
  (`KeepsHumanGate`): the node's steps change no answer, shut at most the current
  attempt's gate and let it pass only on an approval (`NodeKeepsGates`); a request
  moves no gate and is accepted only where no other was (`RequestsKeepGates`).
- **WorkflowRunProofs**, scheduler: `SchedulerTypeCorrect`; `NeverTooMany` (exactly the
  executing runs hold slots); `LaunchedOnceHolds` (`LaunchedOnce`), for any number of
  processes.  `TickInv` says what a process may have in hand and that the stamp it
  writes is not older than the fire it is written for; `LaunchInv` that what a process
  has launched is not after the stamp unless the stamp was set back, and that the stamp
  of a workflow which only one process ever has in hand is older than the fire it has.  `OneWaits` (`OneWaiterAtMost`), for
  any number: the check of `locked()` lags one task behind, and `LagInv` says how
  far: while a stamp is written nobody waits, and the task created just before it
  finds a slot.
- **ConfirmationGateProofs**: `TypeCorrect`; `AnswersKept`; `Refinement`
  (`Implements`): the initial states map to `HumanGate`'s and every step of the hook,
  the surfaces and the sweeper maps to a step of it or a stutter.  Its invariant says
  that an unasked call has no row and no answers, that at most one answer about a call
  was accepted, and that a decided row was decided by an accepted click.  For the
  breaker `BreakerTypeCorrect` and `RefusesJustlyHolds` (`RefusesJustly`), from `BreakerInv`: the
  breaker's count
  is the streak of failures that really happened, whatever the age of the answers
  that report them, and the callers of a round together with those that were lost
  come out of the probes it counted.
- **PlanTurnProofs**: `TypeCorrect`, `FinalInputs` (`BuiltOnFinished`),
  `NothingHalfBuilt` (`CarriedClosed`), `CrashesLoseLittle` (`CheckpointCurrent`),
  `ProgressSurvives` (`ProgressKept`).  The invariant relates the status of a step
  to its task, says that what was collected is over, and that every step which is
  at work *or completed* stands on final results: the second half is needed
  because a step that is being verified counts as completed and may still fail,
  which must not happen under a step that has completed.  `RoundFacts` states what
  one iteration of the executor does; it rests on `CascadeClosed`, that a cascade
  leaves no pending step which a failure reaches.  `Collected` (a completed step whose
  task is over has been collected) is needed for what an abandoned executor takes
  along: it saves steps that stand on steps it has saved (`CollectedClosed`,
  `GhostInv`).  `FailuresHaveCauses` (`CascadesHaveCauses`) needs `PlanOrder`: a
  pending step depends on settled or earlier steps only, and while some step is
  pending every other is pending, settled or at work.  So the earliest step left
  over by a round with nothing running would be ready (`NoneStuck`), and a step in
  a cascade with no cause could be left out of it (`CascadeCaused`).
- **BillingProofs**: `TypeCorrect`; `AppliedOnceHolds` (`AppliedOnce`), from
  `Accounted`: an event whose effects were committed is processed in the ledger, one
  that was never recorded as failed was applied once at most, and whoever has such an
  event in hand is the one that inserted its ledger row (`fresh`), which the primary
  key lets only one do.  `MirrorsProviderHolds` and `KeepsPaidWindowHolds`, for every
  subscription whose events were handled one at a time and in order, come from
  `Sound`, which says what the log is (`LogSound`: a checkout is the first event of
  its subscription and in its own period, the deletion the last), that the provider
  is as its last event tells (`LiveSound`), that what a handler has read is still so
  when it commits (`JobSound`), and how a row and a plan stand while events are on
  their way (`RowSound`, `PlanSound`).  A canceled row needs the most care
  (`CanceledSound`): a checkout that is handled after the cancellation reads the
  canceled subscription, and an update of the same period may still follow it.
- **ReactTurnProofs**: `TypeCorrect`, `InterruptsAnsweredAlways`, `RecallHoldsAlways`,
  `VerificationInternalAlways`, `AnswerAwaitsTasksAlways`, `WithinLimitsAlways`, from
  one invariant of three parts.  `TurnsSound` relates phase, loop, tasks and answer of
  each turn, and keeps loops left behind apart from the broker's queue; `InboxSound`
  says where a message may be, given whose it is and which turn has the queue;
  `CountsSound` relates the tracker's counts to the calls that really
  ran, whose sum over an endpoint is what `SumOver` is for.
- **KnowledgeBaseProofs**: `TypeCorrect`, `ReadyIsStoredHolds`, `DeletedIsForgottenHolds`,
  `CountersRightHolds`.  `CountersSound` follows the counters through the operations
  that have read them and not yet written; `DocSound` says of a document no two
  operations met on (`disturbed`) how row, file and vectors stand at each step of the
  one that has it in hand, and how they are left when that one fails there.

The assumptions are only what the code establishes: a parsed blueprint, limits of
at least one, finite sets of runs, nodes and workflows.  TLC evaluates all of
them.

Only model-checked: the liveness properties (`RunEnds`, `RunsAnswered`, `GateEnds`,
`FiresAreServed`, `CallsEnd`, `RequestsClosed`, `EndedIsDemoted`, `Settles`, `Recovers`
and both `TurnEnds`), since fairness and `ENABLED` are out of the prover's reach.  That `topological_sort` returns a
topological order, and that it refuses cycles, is assumed of the constants and not
proved: `MCWorkflowEngine` gives it for its blueprint.  The induction theorems of the
library take an operator as a parameter, which the provers at hand cannot
instantiate; where a proof needs an induction it takes the least element of a set
of naturals instead.

Two properties that TLC had found to hold turned out to be false beyond its bounds
when they were to be proved, and now state the case they leave out.  Deleting chunks
from a document that is ready and counts none takes from the knowledge base's
counter what was never added (`KnowledgeBase`: `skewed`).  The plan of a user with two
subscriptions need not be that of either (`MirrorsProvider` speaks of the plan of a
user who has no other): the same cause as the finding about `PayingKeepsPlan`.

## 6. Findings, and disagreements met while reading

The two violated properties are findings, quoted in `PROJECT.json` with the line
of documentation they contradict.  The following were met as well; the models
contain them, and the properties excuse them where they touch them.

Workflows and confirmations:

- Two triggered runs of one workflow overlap: the count of active rows and the
  insert are separated by suspension points (`workflows.py:578`; line 577 says
  "Rate limit: reject if there's already a running run for this workflow").
- A batch checks that one more run would be allowed and records none of its runs
  (`workflows.py:1645`; line 1644 says "Pre-check rate limit for the total batch
  size before starting").
- The executor's expiry of an approval reads the row and writes it by primary key:
  a decision accepted in between becomes expired (`nodes.py:1286`;
  `workflows.py:842` says "Atomic status transition: WHERE status='pending'
  prevents race condition").
- Two server processes launch the same fire: the stamp is an unconditional update of
  a row judged due in another transaction (`scheduler.py:236`; line 230 says
  "Update last_scheduled_at immediately to prevent duplicate triggers").  A slow one
  may even replace a newer stamp by its older one, after which the other launches a
  fire again that it has launched already.  `LaunchedOnce` says what remains: without
  the race a fire is launched once, and with it once by each process as long as no
  stamp is set back.
- A busy scheduler skips a workflow until a later tick, in the order of a query without
  ORDER BY (`scheduler.py:135`): as long as earlier workflows keep firing, they refill
  the slots and a later one may be skipped for ever.  `FiresAreServed` is therefore
  stated for the time after the last fire.
- A step is marked completed before it is verified, and a sibling's completion saves
  it (`executor.py:697`, `chat.py:4860`): a request that resumes the plan never
  checks it.
- The retry after wrong citations is verified by nobody, and when it raises the step
  keeps the answer that was refused and counts as completed (`executor.py:811-846`).
- The executor of a response that is cancelled goes on with its steps and tools, and
  each of them saves its plan over the checkpoint of a later turn, also after the turn
  that has cleared it (`chat.py:5542` says "drop it so a later identical query starts
  fresh").  Only the half-second poll cancels an executor (`chat.py:5110`).
- A checkpoint that cannot be saved is only logged (`checkpoint.py:113`): then a crash
  loses more than the steps in flight, which `chat.py:4857` does not say.
- `types.py:45` says a STOP_WORKFLOW failure stops the whole run; the slot the
  failed node releases still lets a queued sibling begin (`engine.py:324`).
- A node cancelled while queued keeps the status RUNNING and emits no event
  (`engine.py:324`).
- Cancelling a triggered, batch or scheduled run rewrites the row of a run that
  keeps executing (`workflows.py:2874-2882`) and later overwrites it.
- A failed insert leaks the slot of an interactive run (`workflows.py:1443`), as
  does a client that leaves before the response is iterated; `GivenBack` is stated
  for the runs whose handler gets past that point.
- The engine's timeout of a human node leaves its approval pending
  (`engine.py:301`); scheduled runs have no session factory and approve human
  nodes by themselves (`scheduler.py:345`).
- The scheduler dispatches one run more than it has slots for (`scheduler.py:214`),
  may swallow a fire that falls between its two readings of the clock
  (`scheduler.py:236`) and abandons running rows at shutdown
  (`scheduler.py:111-114`).
- A hook's expiry may overwrite an accepted answer to a confirmation
  (`confirmations.py:118-119` says exactly one update changes a row); the call is
  denied in that case, so the gate itself holds.
- `DAG_MAX_REPLAN_ROUNDS` of three allows one autonomous replan
  (`chat.py:5254`).  A crash during a checkpoint's save loses all steps
  (`checkpoint.py:107`).  The checkpoint is cleared even when the answer could not
  be persisted (`chat.py:5533-5545`).
- Two concurrent turns of one conversation share the checkpoint file and the name
  of the interrupt queue.
- A whole run is limited to ten minutes (`workflows.py:181`), a human approval to a
  day by default.  Nothing sweeps active rows that a dead process left.
- The retention sweep reads the runs to keep and the runs to delete in two queries
  (`run_cleanup.py:169-188`): a run that finishes in between is deleted as excess
  although it is the newest.  `DeleteOldRuns` may take any set of finished rows.

Subscriptions:

- When the look-up of a renewal at the provider fails, the period's end is taken from
  the invoice, where the paid period begins, until the update that comes with the
  renewal puts it right; handled before that one it is overwritten in order, handled
  after it the row is wrong for a whole period.  The fault `"retrieve"` is modelled;
  `billing_webhooks` leaves it out to stay small (with it the four properties hold
  too, on twice the states).
- A failed attempt leaves a ledger row, after which no key conflict keeps two
  deliveries apart (`webhooks.py:438`); `AppliedOnce` excuses such events.
- An older event overwrites what a newer one brought and nothing repairs it: a change
  of plan handled after the renewal and the cancellation that followed it puts the
  period's end back, and the sweep moves the user off what he paid for.  It takes four
  events; `KeepsPaidWindow`, like the others, excuses a subscription in `disordered`.
- `_get_quota_status` of the chat endpoint (`chat.py:975`) ignores the access
  posture, although `quota_enforcer.py:3-6` says that all consumers agree on a
  single number; `get_subscription` (`web/api/billing.py:141`) raises when a user has
  two rows.

Knowledge bases:

- A document deleted while it is ingested leaves its vectors behind
  (`knowledge_bases.py:468`); retries at the same time may store texts twice; the
  deletion of a knowledge base beside an upload leaves a ready document without
  vectors.
- An ingest that fails does not count, and deleting its document takes one from the
  counters all the same; two commits may lose an update (`knowledge_bases.py:505`).
- A document whose ingest died with the process is processing for ever: only a
  failed one can be retried.  So is one whose ingest failed and could not write that
  down (`knowledge_bases.py:463` logs it), and one whose row is committed and cannot be
  read again (`knowledge_bases.py:341`), for which no ingest is started.
- A deletion whose last commit fails leaves a ready document without vectors
  (`knowledge_bases.py:507`); the document is `disturbed`.
- An ingest that cannot read the hashes stores every text again (`lancedb.py:187`):
  a document may have more vectors than its row counts (`misread`).
- A file that cannot be removed outlives its row (`knowledge_bases.py:500`), and the
  directory its knowledge base (`knowledge_bases.py:231`): `kept`.
- A document that is ready becomes failed when the counters cannot be counted
  (`knowledge_bases.py:426-448`); retrying it is harmless, editing it is refused.
- Deleting a chunk takes one from the counter also when the document is gone
  (`knowledge_bases.py:958`).
- `chunk_count` is the number of chunks although equal texts are stored once.

ReAct turns:

- `react_endpoint` unregisters the conversation by name after the answer and again in
  its finally clause (`chat.py:4497`; line 4299 says "prevent double-unregister in
  finally"): the next turn, started while suggestions are asked for, loses its queue
  and cannot be interrupted.
- Only the half-second poll cancels the loop of a client that has left
  (`chat.py:3983`).  When the response itself is cancelled, `run_task` goes on with its
  tools and its queue until the loop ends (`chat.py:4489`).  The model takes the queue
  from the broker at once; the disconnection of the user's MCP client, which comes first,
  is left out.
- A recall that comes after the drain is answered as done; a message after the last
  drain is accepted and never read; at the last iteration drained messages are not
  read although `react.py:2715` says that they are never lost.
- Parts of a truncated answer that a message or tool call interrupts are prepended to
  a later one, which `react.py:2792` says must not happen.

Breaker:

- A probe that is answered with a client error, refused for its arguments or
  cancelled reports nothing (`adapter.py:160-227`); when all of a round end so, the
  breaker stays half-open and refuses every call until it is reset.

## 7. Not modelled

Parts with the status `not_modelled` are listed in `PROJECT.json` with the reason.
Of the parts that are modelled the following is left out: the Redis broker; messages
injected into planned turns other than what a drain finds; the choice of tools, the
context's compaction, the guard rails and the second run without page images of the
ReAct loop, and a final stream that fails; the card's layout and who may decide on a
confirmation or approval; `cancel_at_period_end`; changes of a knowledge base's
settings, and two documents of one file name; blueprint editing, versions, import and
export of workflows, which touch no run.
