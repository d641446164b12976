# Hermes in TLA+

TLA+ models of the Hermes platform, TLC runs that check them on small instances, and TLAPS proofs
for every value of the constants. Paths are relative to `src/src/hermes/`; `AE` stands for
`async_engine/`. Every definition that models code is listed in `PROJECT.json` ("map") with the
lines it stands for.

## 1. The system

Hermes takes a purchase request ("50 laptops, three quotes"), plans a graph of agent tasks,
executes it with a task queue, verifies a recommendation, and asks a person to approve the purchase.
Two machines matter:

* the **task engine** (`AE`): a store of task rows, a message bus, workers, an orchestrator. It runs
  either inside one process (`run_workflow`, `InMemoryBus`) or as separate services (API, advancer,
  workers, outbox relay) around RabbitMQ and PostgreSQL, as `docker-compose.yml` starts them;
* the **procurement case** around it: the task life cycle in `tasks/store.py`, `orchestrate`, and the
  purchase approval that a bot, a chat handler or the HTTP API resolves.

### Components

| Component | State | Operations | Talks to | What is hard | Correct when |
|---|---|---|---|---|---|
| Task graph `AE/dag.py` | node status, edges | `add`, `ready_tasks`, `mark_*`, `descendants` | orchestrator | memory runs ahead of the tables | ready means every dependency is done, `descendants` is the closure |
| Worker `AE/worker.py` | none across messages | fetch, claim, execute, complete, retry, dead-letter | store, bus, handlers, breaker, callbacks | every store statement commits alone; ack order; where exceptions go | one executor per task, budget of attempts, nothing lost |
| Task store `AE/store.py` | tasks, execution_state, task_results, dependencies, workflows, outbox | one commit per statement | everyone | several tables, no transaction around them | tables agree once nobody works on a task |
| Orchestrator `AE/orchestrator.py` | DAG, `_dispatched`, `_dispatch_lock` | `run_workflow`, `on_done`, `on_fail`, `aggregate` | pool, bus, store | callbacks against the unlocked publishing loop, deadline | runs the graph, reports the truth, ends |
| API and advancer `async_api.py`, `AE/orchestrator.py`, `AE/cli.py` | only the tables | `submit`, `GET`, three sweeps | store, bus | publish before mark, double dispatch, crashes | a verdict rests on results, dependents wait and run alone, nothing is stranded |
| Message bus `AE/backends.py` | queues, unacked, retry queues, DLQ | publish, get, requeue, ack | workers | redelivery, unroutable returns, closed channels | a message is delivered until acknowledged |
| Outbox and relay `AE/outbox.py`, `AE/eventbus.py` | `outbox_events` | emit, poll_once | store, live bus | publish before bookkeeping, backoff, giving up | at least once, in order of commit, every row settles |
| Procurement case `orchestrator/`, `tasks/` | task status, retries, result | `orchestrate`, `transition` | engine, approvals | raising anywhere, one retry | the life cycle is respected, a completed case is offered |
| Approvals `AE/loops/hitl.py`, `messaging/approval_bot.py`, `api.py` | approvals row, idempotency keys, result stamp | `create`, `resolve_approval` | bot, chat, API, policy | concurrent calls, unconditional rejection | only an authorized person approves; rejections stand; row, reply and result agree |
| Resume `AE/orchestrator.py`, `AE/state_machine.py` | `attempt` column, iteration count | `resume_workflow`, `can_resume` | store, bus, live workers | five commits per task beside workers that may hold it | a republished task ends |
| Breaker, timeouts, budgets `AE/loops/reliability.py`, `AE/budgets.py` | counters, opening time, clock | `allow`, `record_*`, `run_with_timeout` | worker | every caller probes, late failures, abandoned handlers | the cooldown is kept, the breaker closes once the service answers |
| Planner and learning `AE/loops/planner.py`, `audit.py`, `pipeline.py` | policy file | `plan`, `_cap_nodes`, `build_dag`, suggestions | engine, budgets | cutting a plan, depth by set order, learned budgets | an acyclic plan is runnable |
| Case routing and graph `router/`, `procurement/` | task results | `route`, graph builder, handlers | engine, decision | joins, fallbacks over partial results | best acceptable vendor; what is returned was verified |
| Decision policy `decision/` | none | `evaluate` | case graph | normalisation over all quotes | no better offer is passed over |
| Telegram chat `telegram_chat/` | session row and quotes file per chat, hits | `dispatch_update`, `handle_*`, background cases | case, approvals, services | coroutines interleave at awaits and threads | a case sees its uploads, a chat is asked about its own purchase |
| Services of the runtime `runtime.py`, `ops/`, `competitor/` | lazy set of services, watch list, cache | `services`, watch, brief, attention | chat, API | two first requests | a watch stays |
| Knowledge base `knowledge/` | documents, full-text rows | ingest, put, delete, search | chat, API | triggers, scopes, limit | answers are current and allowed |
| Documents `ingestion/`, `rag/` | one document, one index file | `process`, `ingest_quotes` | case, scraper | order of strategies, deduplication | content is kept, in order, once |
| Access `auth/`, `api.py` | roles, memory assets | tenants, permissions, thresholds | approvals, chat, API | two engines, defaults for unknown senders | (types only, see 6) |
| Tools and checks `tools/`, `AE/loops/policy.py`, `guardrails.py`, `verify.py`, `harness/` | files, log | `ToolExecutor.call`, validators | agents | order of refusals, retries | (types only) |
| Scraping `scraper/`, `scraper_worker/` | document file, queue | scrape, worker, cleanup | bus, ingestion | what reaches the file | (types only, see 6) |
| Advice `llm/`, `advisor/` | keys, opinions | provider chain, council, price answer | chat, API | failing providers | (types only) |
| Everything else | | | | | listed with the reason in `PROJECT.json` and in section 8 |

The hazards these properties are aimed at are in `PROJECT.json` ("hazards"), each at its line.

## 2. Modules

```
TaskGraph  <-  TaskWorker  <-  WorkflowRun   (one process)     implements DagRun
                           <-  CrossProcess  (separate services)  <-  CrossHistory
                           <-  TaskResume    (resume beside live workers)
Approvals  <-  ProcurementCase
OutboxRelay
VendorChoice, CaseRouting  <-  CaseGraph  <-  MC_CaseGraph  <-  MC_Services
ChatGate   <-  ChatDesk                                     <-  MC_Services
Resilience, Planning, Documents, KnowledgeDesk, ServiceDesk, AccessRules, Toolbox,
OutputChecks, Scraping, Advice, TaskResume                  <-  MC_Services
Filters    <-  ChatGate, Documents, ServiceDesk, Advice     (the one operator they share)
```

An arrow is EXTENDS; `MC_*` modules give the constants for TLC. The theorems are in modules of their
own:

* TaskWorker_proofs, WorkflowRun_proofs, CrossProcess_proofs, ProcurementCase_proofs and
  OutboxRelay_proofs for the modules they are named after; WorkflowRun_records continues
  WorkflowRun_proofs with what the tables of a run say and with the refinement of DagRun;
* Intake_proofs for what comes in: Planning and Documents;
* Services_proofs for everything else that MC_Services composes, TaskResume included, and for the
  composition. It extends Intake_proofs.

* **TaskGraph**: `Roots`, `ReadyTasks`, `Descendants` of a fixed graph `Deps`. Descendants is defined
  as the least closed set, so that the proofs need no recursion.
* **TaskWorker**: rows, bus and worker life cycle shared by both deployments. One action per
  committed statement of the store: `Claim` and `MarkRunning` are the two commits of `mark_started`,
  `CompleteState/Row/Result` the three of `mark_completed`, and so on; `pc` says between which two
  statements a worker is. `RaiseInTry`, `RaiseInDeadLetter` and `RaiseOutside` are the three places
  an exception of a store call can end up in.
* **WorkflowRun**: `run_workflow`. `DispatchRoot`/`PublishRoot` is its publishing loop (no lock),
  `OnDone`/`AdvanceTo` and `OnFail`/`CascadeTo` the callbacks under `_dispatch_lock`, `Deadline` and
  `AllResolved` the end of waiting. `CountRows` and `Report` are `aggregate`, which reads the rows and
  then writes the verdict: `pool.stop` joins a worker for two seconds at most, so at both moments a
  worker may be anywhere in its handler, between two commits or in a callback. A raising store call
  inside a callback frees the lock as the `with` statement does.
* **DagRun**: what a run promises, without workers, messages or tables. WorkflowRun implements it
  under the mapping `Phase` (task row, DAG entry and `_dispatched`), `count` and `wf`. A task is
  done there when its row says so, because the rows are what `aggregate` counts.
* **CrossProcess**: `submit` row by row and edge by edge, `GET` (read, then write a status), the
  advancer's `advance_once`, `fail_tasks_with_failed_deps`, `finalize_workflows`, and worker
  processes. Nothing serialises a submission against the advancer or a GET, so both see it at any
  point. Crashes of a worker or the advancer, redelivery, the dead-letter exchange nobody binds
  (`DlqBound = FALSE`), and the retry queue whose second TTL makes the broker close the channel.
  Broker behaviour (`Redeliver`) and process death are marked external in the map.
* **CrossHistory**: CrossProcess with three history variables that no step reads, and the properties
  that need them. `missed`: the edges that were not written yet when the advancer took their task;
  `uncounted`: the tasks without a row when the workflow was counted completed; `marred`: the tasks
  two workers have owned at once, or whose dead letter RabbitMQ has returned.
* **Approvals**: the approvals row and `resolve_approval` statement by statement for any set of
  concurrent calls; a stamp of the task's result that raises is swallowed (`StampLost`).
  **ProcurementCase** runs `orchestrate` over it: `Transition` is
  `TaskStore.transition` with its validation, `ExecRaises` may happen anywhere in the `try`, `Die`
  anywhere at all.
* **OutboxRelay**: `Emit`, and `poll_once` event by event. The database numbers a row when it is
  inserted and shows it when its transaction commits, so `Emit` makes rows visible in any order of
  their ids; the history variable `precedes` remembers which older rows were visible first. `Abort`
  cuts a sweep off anywhere.

* **TaskResume**: `resume_workflow` commit by commit (`SaveAttempt`, `SaveKey`, `ResetRow`,
  `MarkResumed`, `Republish`) over the rows and workers of TaskWorker. `ResumerDies` may
  happen anywhere, `WorkerDies` anywhere before the first resume (a bound); nothing tells the resumer
  that a worker is alive.
* **Resilience**: the breaker shared by several workers: `Allow`, the claim an admitted caller may
  still lose (`LoseAdmitted`), handlers that outlive their deadline (`DeadlinePasses`, then
  `LateReturn`, because leaving the pool waits for them), the time budget, a service that comes and
  goes, a clock.
* **VendorChoice**, **CaseRouting**, **CaseGraph**: `PolicyEngine.evaluate` in exact integers; from
  the keywords of a text to the graph; and the run of that graph. A task runs in one step when its
  dependencies are complete, except verification, which first reads `analysis-1` and, if it is
  missing, its siblings one by one (`ReadAnalysis`, `ReadSibling`, `OwnAnalysis`).
* **Planning**: the template or a model's proposal, its validation and cap, budgets, `build_dag`, and
  the learning loop that changes the policy of the next plan. The depth search shares one set of
  visited tasks between branches and iterates over sets, so `ComputeDepth` gives every result some
  order of the children has. The two recursions of the planner, the cap and the depth search, are
  functions bounded by the number of nodes, so that they can be proved about.
* **ChatGate**, **ChatDesk**: allow list, rate limit and intents; then what the chat does. All
  coroutines share one event loop, so an action runs from one await to the next; graph runs and
  resolutions happen in threads and are actions of their own.
* **Documents**, **KnowledgeDesk**, **ServiceDesk**, **AccessRules**, **Toolbox**, **OutputChecks**,
  **Scraping**, **Advice**: one module per remaining component, with every operation that changes
  its state and the decision tables those operations consult.

Operators named `X_Something` with a comment beginning "Fault:" are variants of `X` with a plausible
bug. No specification uses them; `PROJECT.json` ("mutants") pairs each with the property that breaks
when it replaces `X`, which shows that the property can fail.

### Abstractions

* A handler returns, raises, or returns something the verifier rejects; its output is not modelled.
  `classify_failure` becomes a free choice whether an error is retryable. The breaker becomes a
  choice between `Admit` and `Refuse`.
* Delays have no length. A message in a retry queue is simply in the queue, so TaskWorker delivers in
  any order; `retry_at` has passed when a message returns. `CrossProcess!ClockSkew` drops that
  assumption: broker and worker clocks differ and the early-retry branch of `_process` is taken.
* Messages are well formed, and idempotency keys of different tasks differ, so those two early
  returns of `_process` are not taken. Event emission and metrics have no effect on the state.
* The approval request carries neither amount nor requester (`orchestrator/__init__.py:80-112`), so
  policy and role check depend on the resolver only: the set `Authorized`. `BotLabel` is the label
  of the polling bot and is no user's. Store calls inside `resolve_approval` do not raise.
* A text outside the engine is the record or set of what the code looks for in it: keyword lists
  (CaseRouting, ChatGate), patterns (Toolbox), words (KnowledgeDesk), lengths (Documents,
  OutputChecks). Money and scores are integers; where two exact scores tie, floating point may
  decide either way and the model takes the first.
* CaseGraph has no workers or messages: that is WorkflowRun. Where a task may be executed twice
  there, its second result is the same here, verification excepted.
* One relay process, as deployed. The bus raises when it cannot take an event (`JsonlEventBus`);
  `KafkaEventBus` swallows errors instead, see section 6.

## 3. Runs

| Run | Instance | Question |
|---|---|---|
| `workflow_diamond` | 2 workers, source - two branches - join, 2 attempts, no raising store call | Are messages never lost, do the tables agree, is the report right, is the run a run of DagRun, does it end without its deadline? |
| `workflow_faults` | 2 workers, the same graph, 2 attempts, one raising store call anywhere | What survives a lost connection: mutual exclusion, results before dependents, the attempt count |
| `workflow_two_roots` | 2 workers, two roots and a join | Violation: one task executed by two workers at once |
| `cross_pair` | 2 worker processes, root and dependent, 1 attempt, clients that GET, unbound DLQ, no crash | Submission racing the advancer and roots dispatched twice: do dependents run alone and after their dependencies, do completed workflows have their results whoever writes the status, do failures have a cause, is anything stranded? |
| `cross_single` | 1 worker process, root and dependent, 2 attempts, skewed clocks, 1 crash, bound DLQ | Retries, closed channels and crashes: do failures have a cause, is a retry ever taken for a failure, does it get lost before anything crashes? (The types of CrossProcess are checked by no run of their own.) |
| `cross_claim_lost` | 1 worker, 1 crash | Violation: a crash after the claim strands the task |
| `cross_root_reruns` | 1 worker, no crash | Violation: a completed root is executed again |
| `case_lifecycle` | 2 calls, each of which may fail to stamp; a manager, the bot label, the auto label; max_retries 0 and 1; auto-approval on and off | Life cycle, who may approve, what stays decided |
| `case_resolved_twice` | the same | Violation: a refused approval overwrites a decision |
| `case_verified_other` | a purchase, 4 leaf tasks, three, one or no offers, two executions per task | Violation: a case returns as verified a vendor its verification never passed |
| `services` | 14 components, one per behaviour (below) | Does the breaker keep its cooldown and recover; do uploads, cases and approvals of chats stay apart; is the best vendor returned and a plan runnable; do documents, answers, watches and resumed tasks survive? |
| `outbox_relay` | 3 events committed in any order, batches of 2, 2 attempts, 1 aborted sweep | Order, duplicates, giving up; does every event settle? |

**Bounds.** Two workers and two attempts are enough for a lost compare-and-set, a duplicate, a
requeue racing its own ack, and an exhausted budget. The diamond is the smallest graph with a
branch, a join and a descendant at distance two. In CrossProcess one root and one dependent keep the
space small while both ways of publishing and every half-written submission occur; graphs of other
shapes are not explored there. Two workers, readers and the unbound exchange are in one run,
retries, closed channels and crashes in the other, because the product is out of reach; the theorems
of CrossProcess_proofs hold for any number of workers and attempts at once. With one batch of two
out of three events a sweep leaves rows behind, and two attempts allow a backoff and a row given up.
`MaxFaults`, `MaxCrashes`, `MaxAborts` and `NEvents` are bounds on the environment, not on the code.
Worker processes are interchangeable, so `cross_pair`, which checks no liveness, uses symmetry.
Deadlock is not checked because all these systems may come to rest: a workflow has ended, a case is
decided, no row is due.

The components of `services` share no variable, so MC_Services composes them by choice: `part` is
drawn in the first state, the actions of that component run and the others stay as they are. One
run then checks all of them at the cost of the sum, not the product, of their states. Its bounds:
breaker, two callers, threshold and cooldown 2 (a late failure of a call admitted before the
opening, and a second probe, need two); chats, two chats, two cases and two documents sent to one of
them, and, by `DeskBound`, three uploads, cases and answers under way in all, at one pending
approval per query, so that the limit matters; plans, seven proposals that put a join first, run
into the cap from either end, contain a cycle, a shortcut, a missing task or an unknown type, with
records at 0, at 5 and at 50 per cent of failures; knowledge, two documents, two readers, two
scopes, a limit of 1; resume, one task, one worker, two attempts, three iterations, one fault;
amounts just below and at the thresholds. `DeskBound` and the counts in the constants bound the
instance, not the code.

**Fairness.** Weak fairness of a worker's own steps: threads are scheduled, handlers return. Strong
fairness of `Admit`: a breaker that refuses lets calls through again after its cooldown. Strong
fairness of a callback: it needs the lock, which others take and release again and again. Weak
fairness of main thread, relay sweep and of a call to `resolve_approval` once it was made.
CrossProcess states no fairness: no liveness is claimed of it. For the breaker: the clock ticks, a
worker goes on with the call it has, and a worker that is admitted again and again is at some time
the one that wins the claim (strong fairness of `BeginCall`), since messages of the task type keep
coming. Which way a call ends is not obliged; that a service answers for good is the premise of
`BreakerRecovers`. Nothing obliges a fault, a crash, a refusal, a `GET`, a press of a button or the
deadline; a live bus that never works is allowed and rows then settle as dead letters.

**What the conditions in the properties mean.** `PublishedOnce` excludes roots of a graph with
several roots, which section 5 shows to be published twice. `NoTaskLost`, `RecordsAgree` and
`CompletedIsFinal` are run with `MaxFaults = 0`; section 6 says what a raising store call does to
them. `DependenciesFirst` asks for the results of the dependencies always, and for all three tables
as long as no call has raised. `ReportTruthful` counts a task whose worker has only the last commit
of `mark_completed` to make.

`DependenciesRan`, `CompletedVerdict`, `NoTaskStranded` and `FailedVerdict` speak of the time until
a process crashes; what a crash does is the finding of `cross_claim_lost`. Each of the first three
names, by a history variable, what the code gives no guarantee for: a dependency whose edge was not
written when the advancer took the task (`missed`), a task whose row was not inserted when the
workflow was counted (`uncounted`), a task two workers have owned at once or whose dead letter was
returned (`marred`). `FailedVerdict` speaks of what the sweep decides, and of `workflows.status`
only while no client polls, as a GET writes `failed` whenever it likes. That verdicts stand and that
workflows end is not claimed, as the code keeps neither (section 6).

`PlanIsRunnable` leaves cyclic proposals out, which the planner accepts. `WatchesKept` speaks of the
time after the services were built and no request is still building; before that the code loses a
watch. `AnswersAreCurrent` asks for all matching documents only while no more match than one search
takes. `RepublishedTaskEnds` speaks of tasks that were published again, not of one whose resumer
died just before. `RecommendedIsBest` compares with offers that are cheaper and in nothing worse,
the tier included: a tier bonus can outweigh a slightly lower total. A price of 0 is no price to the
code and does not count as cheaper. `LoneDecisionAgrees` speaks of a call nobody competes with, and
of the result according to whether its stamp raised. `OldestFirst` orders two rows only when the
older one became visible first.

## 4. Theorems

TLAPS checks these for any tasks, graph, workers, attempts, events, calls, chats, offers and
documents. The assumptions are the named ASSUMEs of the modules, which TLC evaluates in the runs:

* the graph maps tasks to sets of tasks; bounds are positive naturals;
* the markers `NoMsg`, `NoTask`, `NoWorker`, `Nobody`, `NoCall`, `"idle"`, `"building"` are no values
  of the kind they stand in for; `Authorized` is a set of resolvers without `BotLabel` and `AutoLabel`;
* there is a chat, and what is sent goes to chats; what a desk watches by default are competitors;
  a reader's id is not empty;
* the offers of one case have the types the extraction gives them and come from different vendors,
  because what a specialist finds about an offer is filed under its vendor
  (`procurement/handlers.py`); the marker for a case without a request is no text;
* plans, their dependencies, connectors and invoices come as lists, budgets, ages and limits are
  naturals, a task type may have no record yet; the texts of a source have a length;
* roles are changed for users and to roles that there are; a policy file of the tools names risk
  levels that there are (any other makes it unreadable); keys belong to providers.

A theorem that needs more says so in its ASSUME. Every inductive invariant below that is written in a
model module, and `LoneInv` and `ResumeInv`, were first checked by TLC on the instances of the runs.
Every safety property of the passing runs is stated by a theorem.

**The worker pool in one process** (WorkflowRun_proofs, WorkflowRun_records).

* `WorkerTypeOK`, `TypeCorrect`: the interesting conjunct is that a worker in the retry branch has
  `attempt < MaxAttempts`: without it the message it requeues has no type.
* `MutualExclusion` (`AtMostOneExecutor`), store faults included. The property says nothing about
  waiting messages, so it is not inductive. `TokenInv` adds that a task published once has one token:
  either one message waits or one worker holds it, never both. `OnlyDispatched` makes publishing by a
  callback safe, `SoloStart` and `RootsLeft` the unlocked publishing of a single root.
* `RetryBudgetSpentOnce` (`AttemptsMoveForward`), store faults included: `AttemptInv` ties the attempt
  in the row to the one in the token, so what a worker writes back is never an older one.
* With one source and no raising store call, `RunInv`: what whoever carries a task has written
  (`CarriersTell`), what is true of a waiting message's task (`MessagesTell`), what callbacks hold and
  look at (`CallbackInv`), what `completed` and `failed` in the DAG mean for the tables (`DagInv`) and
  go back to (`CauseInv`). From it `TasksAreNotLost`, `RecordsAlwaysAgree`, `CompletedStaysCompleted`,
  `ReportIsTruthful` (with `CountInv`: what was counted as completed still is when it is
  reported, whatever late workers do), and `RunImplementsDag`: initial states map to initial
  states, and each of the worker's, the callbacks' and the main thread's steps is a step of DagRun or
  a stutter (`StepSimulation`). `OwnStep` carries most of the work: a worker with the token of a task
  writes only that task's entry, and nobody else looks at it.

  Both hypotheses are needed. A second root is published outside the lock and may run twice, which the
  run `workflow_two_roots` shows; after a store call that raises inside a callback the tables stay
  apart (section 6).
* `ResultsComeFirst`, for any graph, any roots and any raising store calls: `ResultsInv` says that
  `on_done` is not reached, nor anything completed in the DAG, before the last commit of
  `mark_completed`, and that only what is ready is ever published. With `SoundInduction`, by which
  `RunInv` holds as long as no call has raised, it gives `DependenciesComeFirst` (`DependenciesFirst`).
* `ChainsKeepOrder`: on a chain all three tables keep the order (`TablesFirst`), however many store
  calls raise. `RunInv` does not survive a raise, so `ChainInv` says less of the tables and more of
  the tokens: one task of the whole graph is live at a time, and what `on_done` completed before it
  stays recorded. The step that matters is `PublishNext`: publishing the successor leaves `on_done`
  nothing to do that could raise. On a graph that branches it does, and the tables lose the order
  (section 6).

**The deployed engine** (CrossProcess_proofs).

* `DeploymentTypeCorrect` and `FailuresHaveCauses` hold through crashes, redelivery, polling and double
  dispatch; the latter because `CausesInv` follows a failure from the dead-letter set through the
  worker's three commits and the advancer's three.
* `FailedVerdictsAreFounded` needs no assumption: until a crash a row that has ended has its result or
  the worker that comes to it next (`ResultsFollow`), and the sweep decides on rows. A crash between
  the row and the result of a task leaves a failed row without a result.
* `CompletedVerdictsAreFounded` (`CountedInv`) and `DependenciesHaveRun` (`DeliveryInv`: whatever is in
  a batch, in a queue or with a worker has the results of the dependencies the advancer could see)
  are theorems of HistorySpec, with submissions racing the advancer, any number of workers and GETs.
  `HistoryImplements`: HistorySpec implies Spec, so the history adds nothing to the behaviours.
* `DependentTasksRunAlone` assumes no crash: an advancer that dies between publishing and marking
  publishes again. `TokenInv` of CrossProcess is that of WorkflowRun with the copies in the queue
  counted, and only for tasks with dependencies: roots are published twice anyway.
* `NothingIsStranded`, a theorem of HistorySpec for any number of workers: `TrackedInv` follows every
  task that is not marred from its claim to the end, through lost channels and half-written
  submissions. Marred tasks are left out because the code does strand them: a worker that holds a
  second copy of a root can set the row back after the other has ended it, and a returned dead letter
  is acknowledged without `mark_failed`. A task with dependencies is never marred while the
  dead-letter queue is bound and nothing crashes, so for those `DependentTasksNotStranded` drops the
  exception.

**Resume** (Services_proofs). `ResumeTypeCorrect`, and `RepublishedTasksEnd`: `ResumeInv` says that a
republished task is running only because a worker runs it (`Founded`), and is open only while a
message waits or a worker holds one (`Awaited`). A worker may die before, not after, a task was
published again: that is a bound of the model, as a death in between claim and ack strands any task.

**Outbox** (OutboxRelay_proofs). `RelayInv` has five parts, the types, where rows are (`Places`), the
balance of deliveries, marks and aborts (`Books`), attempts against errors (`Failures`), and `Order`.
From it `NothingPublishedUnsent`, `NeverBoth`, `AtLeastOnceIsBounded`, `NoRowGivenUpEarly`,
`FirstWrittenFirst`, `DeadIsSilent`, `NoEarlyRetry`. `OldestIsClosed` carries the argument that a
batch never skips a row that has not failed; rows may become visible in any order of their ids, and
`Order` speaks of the pairs that did so oldest first (`precedes`).

**Case and approval** (ProcurementCase_proofs). `CaseInv` ties the label of `orchestrate` to the row's
status (`Phase`, from which `LifeCycleRespected`), to the retries (`OneRetry`), to the approval
(`OfferedWhenCompleted`) and the label of every call to who may get there (`Passed`, from which
`Authority`). `StampFollowsDecision` and `RejectionStands` hold for any number of concurrent calls.
`LoneDecision`: `LoneInv` follows a call nobody competes with from label to label: what it decides is
in the row, then in the reply, then in the result, which is open until a stamp succeeds.

**Services** (Services_proofs).

* `CooldownHolds`: a worker that reports a failure resets the clock, and nobody is let through an open
  breaker before the clock is full (`BreakerInv`).
* `CasesSeeUploads`, `ChatsAskForTheirOwn`: `DeskInv` says that a confirmed quote is in its chat's
  file, that a case underway has read at least the quotes confirmed at its request, and that a
  session names only an approval of its own chat.
* `ServicesStay`: an action property; only a request that is building replaces the services.
* `SearchesAreCurrent`: `KnowledgeInv` says that the full-text rows are those of the documents there
  are, with the words they have now, through the delete and insert triggers.
* `BestIsRecommended`, `LowerPriceStaysBest`: `GraphInv` says that the analysis waited for all four
  specialists and stored what the policy makes of the offers. The rest is about the policy: the score
  has a positive share for each part, an offer better in one part and worse in none scores more
  (`WorthMore`), and the first of the best exists, by a minimal counterexample over the list
  (`FirstOfTheBest`). When the winner lowers its total the spread may change and with it every score:
  the shares of the others do not rise and its own does not fall (`OthersDoNotRise`, `OwnDoesNotFall`).

**Planning and ingestion** (Intake_proofs). Both components compute most of what they do in one step
by loops over lists, so the proofs are about those loops. A fold over a list is shown to go through
one value per element (`FoldSteps`, and `OnlyFold`, `KeepAllFold`, `DedupFold`, `ChunkFold`, ... for
each loop), and what every turn keeps holds at the end (`UpTo`, by the least turn where it fails,
since the library's induction rule cannot be instantiated). `Keep` and the depth search, which call
themselves, go through one value per level in the same way, and there are no more levels than nodes.

* `PlansAreRunnable` (`PlanIsRunnable`), for budgets of at least four iterations: the learning loop
  suggests 2 or 4 attempts (`AE/loops/audit.py:55-60`) and the defaults are 2 and 3, while
  `HERMES_MAX_ITERATIONS` is 5 unless set; below four, every plan with a task of a type that fails
  half of the time is refused. `PlanInv`: what was proposed, by a model or as a template, is sound
  (known types, distinct ids, every dependency among them), and the plan is what the cap makes of it.
  Of the cap: on an acyclic proposal a node is kept only after everything it needs, so cutting never
  leaves a dangling dependency. Of the depth search: whatever order the children come in and however
  the visited set is shared, a depth it returns is the length of a path there is, so a plan is refused
  for its depth only if it has a path that long. The converse does not hold (section 6).
* `IngestedIsKept` (`IngestKeepsContent`): `DocInv` says that the document at hand is what `process`
  made of its source. Each stage is then followed: whatever the strategies find, the fields of the
  source and its text are among the canonical blocks (`CanonicalHas`); deduplication drops a block only
  as noise or because another says the same, and leaves no two that do (`DedupKeeps`); the chunks are
  what is left, cut in order, and only a block too long by itself makes one too long (`ChunksHold`).

**The composition** (Services_proofs).

* `PartsKeepTheirSpecs`: ServicesSpec implies the specification of each of its fourteen components. A
  step is one of the part at work and leaves the variables of the others alone (`StepOfParts`). So
  what was proved of a component holds in MC_Services as well; `PartsKeepTheirPromises` puts the
  properties of the components next to each other there.
* `PartsTypeCorrect` (`ServicesTypeOK`): the types of all of them. Some are inductive as they stand.
  Others are not: `ToolInv` keeps, besides what the executor calls, that the sandbox contains only
  files inside it and that policies name known levels; `CaseInv` adds to `GraphInv` that the
  verification under way has an execution left while it reads its siblings, that nothing is complete
  before there is a request, and that a vendor stored anywhere made an offer; `ServiceInv` and the
  ranks say what reports are sorted by; `PlanInv` and `DocInv` as above.

Only model-checked: liveness (`Terminates`, `CompletedIsOffered`, `Settles`,
`BreakerRecovers`), which rests on fairness and so on ENABLED, out of the prover's reach. The five
violations of section 5 are counterexamples, found by TLC.

## 5. Where code and documentation disagree

Each has a run with a counterexample:

1. `AE/orchestrator.py:392`: with several roots one task is executed by two workers at the same
   time (`workflow_two_roots`), against README.md:127 of the repository. The procurement graph has
   up to four roots and four workers.
2. `AE/worker.py:161`: a worker that dies between claim and ack strands the task: redelivery loses
   the compare-and-set and is acknowledged (`cross_claim_lost`), against worker.py:15-16.
3. `AE/store.py:486`: the advancer publishes roots a second time and its late `mark_dispatched`
   reopens a completed task (`cross_root_reruns`), against store.py:5-6.
4. `messaging/approval_bot.py:168`: a refused approval overwrites an earlier decision
   (`case_resolved_twice`), against docs/RECRUITER-EVIDENCE.md:81.
5. `procurement/pipeline.py:58`: the verification task is a root of the graph; it verifies whatever
   its own analysis over the siblings complete so far recommends, and the case returns the vendor of
   the other analysis as verified (`case_verified_other`), against pipeline.py:3 and handlers.py:3-4.

## 6. Met while modelling, without a run of their own

* One raising store call breaks `CompletedIsFinal` (a completed task goes through the retry branch,
  `AE/worker.py:142`), and on the in-memory bus `NoTaskLost` (the message was popped, the exception
  is swallowed, `AE/worker.py:327`). Raised inside `on_done` after it has published one of two
  successors, it sends a completed task back through the retry branch while that successor runs:
  on the diamond `TablesFirst` fails with one raising call, which is why `DependenciesFirst` asks
  for the results only then.
* `pool.stop` gives a worker two seconds (`AE/worker.py:348-352`); `aggregate` then reports what the
  rows say. A workflow may be reported completed one commit before the last result is written, and a
  task the deadline found open may complete after it was reported as failed.
* The advancer and a GET see a workflow half submitted (`async_api.py:118-128`, `AE/store.py:365`,
  `:399-417`): a task whose edges are not written yet is dispatched like a root and runs before its
  dependencies; a workflow whose first tasks have completed before the others are inserted is called
  completed. `missed` and `uncounted` are empty in every other case.
* A root is published by `submit` and by the advancer. Two workers that own it at once can leave its
  row open after it has ended, with no message: the workflow then never ends. Nor does it, without
  any crash, once RabbitMQ has closed the channels of all workers.
* `GET` writes `failed` for a running workflow (`async_api.py:137`), which `finalize_workflows` then
  never revisits. `finalize_workflows` itself writes `failed` while independent tasks still run,
  where its docstring says "once every task is terminal" (`AE/store.py:397`).
* Nothing binds a queue to `hermes.dlx`; a mandatory publish raises, the exception is swallowed and
  `mark_failed` skipped (`AE/worker.py:306-319`). A second backoff declares the retry queue with a
  different TTL (`AE/backends.py:209-224`).
* When two calls resolve one approval, the loser may stamp the task's result with its own decision,
  and bot and chat announce the button, not the record. A stamp that raises is printed and
  swallowed (`messaging/approval_bot.py:216`): the row and the reply say decided, the result stays
  open, and a later call finds the request resolved and does not stamp it either.
* Emitters that commit out of the order of their ids on Postgres make the relay publish a younger
  event before an older one that never failed (`AE/store.py:584-586` orders by id what it can see).
* `orchestrate` retries once, whatever `max_retries` above zero says.
* `KafkaEventBus.emit` swallows errors, so the relay marks such events published.
* `CircuitBreaker.allow` lets every caller through after the cooldown, where the comment says a
  single probe (`AE/loops/reliability.py:34` and `:48`).

Engine and planner:

* `resume_workflow` (`AE/orchestrator.py:205`, "skip completed, retry failed"): failed rows are never
  read; a task that completes between its commits is run again; RUNNING to QUEUED is no transition of
  `DAGStateMachine`; the second write of the state column drops the attempt, so only the iteration
  limit bounds the attempts; a resumer that dies before it publishes leaves a row nothing reads.
* `_compute_depth` may fall short of the real depth, depending on set order. The planner does not
  reject cycles. `validate` counts tasks against a limit documented as distinct agent types
  (`AE/orchestrator.py:97` and `:288`; `AE/budgets.py:11`). A type without failures is not trimmed
  (`AE/loops/audit.py:34`).
  `CostTracker.record` and `ModelGateway` have no callers; `NoopMetrics.counter_total` counts a
  labelled increment twice.
* `grounded_price_check` reads a field that recommendations do not have; an over-long result is
  retryable by default (`AE/loops/verify.py:385`); the guardrails "inside ToolExecutor" have no
  callers; tools repeat on any exception (`tools/__init__.py:7`); the default clearances never
  require an approval.

Cases and decisions:

* An unapproved vendor can win, against "lowest-cost APPROVED vendor" (`agents/__init__.py:287`); the
  recommendation always claims the lowest total; a best quote without a source always fails
  verification; `orchestrate` writes VERIFICATION PASSED for plans without a verification task; a
  domain request yields an empty graph; `run_procurement_case` routes the text where its docstring
  says the default is all six agents.
* The tier bonus is .05 on a scale of 0 to 100, and an SLA of 0 passes. Seeded users cannot approve
  the upper amounts; between $999.99 and $1000 no threshold matches; `admin:*` does not grant
  creation (`auth/models.py:173`); API and chat each seed an RBAC engine of their own; senders
  without a user skip RBAC; `SafeMemoryClient.put` stores any tier.

Chat, services and documents:

* The chat's session state is set but rarely asked for (`telegram_chat/session.py:3`). With more
  pending approvals than one query returns, a chat is not asked about its purchase. A new watch is
  missing from a cached brief. Two first requests build two sets of services.
* A search applies its limit before it drops the personal documents of others, and reads a shared id
  with a colon as two ids.
* Scraped documents are never saved (`scraper/__init__.py:15`) nor chunked; an empty source is
  indexed as a dump; the cleanup command of `hermes` evicts nothing, that of `hermes-scraper` every
  unstamped chunk; a scrape task is published on a bus of its own that nobody reads; the in-memory
  bus drops what the worker hands back; every scrape has a fresh rate limiter.
* Deduplication drops a headed value of brackets only (`ingestion/dedupe.py:18-20`). The council
  splits Vietnamese words and asks one model directly.

## 7. Plan

Done, in this order: TaskGraph and TaskWorker; WorkflowRun with DagRun; CrossProcess; Approvals and
ProcurementCase; OutboxRelay; proofs of TaskWorker, WorkflowRun, OutboxRelay, ProcurementCase. Then
the components around the engine: Resilience, ChatGate and ChatDesk, VendorChoice, CaseRouting and
CaseGraph, Planning, Documents, KnowledgeDesk, ServiceDesk, AccessRules, Toolbox, OutputChecks,
Scraping, Advice, TaskResume, and their composition MC_Services.

Then the proofs of WorkflowRun_records, CrossProcess and TaskResume, of the components in
Services_proofs and of `LoneDecision`; last those of Planning and Documents and of the composition
with all its types.

Next:

1. the hazards of `PROJECT.json` that no property covers yet: a GET that writes a status, repeated
   Telegram updates, the index file shared by all cases of a database, the end of a deployed workflow
   under conditions the deployment can meet;
2. CrossProcess on graphs with a branch and a join, which TLC does not finish at its present grain;
3. retrieval with its ranking, once a property depends on it.

## 8. Not modelled

* Prompts, agents' texts, message wording, languages, rendering of reports and dashboards, retrieval
  ranking, evaluation of answers: text and arithmetic no state depends on.
* Metrics, tracing, load test: nothing reads them back.
* `has_cycle`, `compute_partial_dag`, the transition tables of the state machine, `dispatch_ready`,
  `HumanInTheLoop.await_decision`, `CostTracker.record`: nothing outside the tests calls them.
* Third-party services: the broker, language models, Telegram, the accounting service. What the code
  can see of them (an answer, a failure, a redelivery) is an action marked external.
* Deployment files; docker-compose.yml is read for which processes run together.
