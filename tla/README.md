# Verification of the agent control plane

TLA+ modules, TLC runs and TLAPS proofs about the control plane in this
repository: the service that takes cases of a bank, collects evidence, lets a
deterministic policy and a model judge the requested action, waits for a human
approver, has the tool server perform the action, and audits all of it.

Everything here is translated from the code (`src/control_plane`,
`src/tool_server`, `infra/sql`); line numbers are those of the commit the
project is kept with. Paths in `PROJECT.json` begin at the directory that holds
the repository as `src/`.

## 1. The system

| Component | State it keeps | Operations | What makes it correct |
|---|---|---|---|
| Workflow (`workflow.py`) | the graph state of a run: in the checkpointer, and a copy in every request that works on the run | eleven nodes, four routers, `start`, `resume` | no effect without policy, checked recommendation and recorded approval of exactly this action; retries are bounded; an execution that failed is looked up |
| Service and routes (`service.py`, `api.py`) | none of its own; reads a run's status before an await and writes it after | `create_case`, `start_run`, `approve`, `replay`, the webhook, the event stream | closed runs stay closed, a replay leaves the original alone, one event starts one run |
| Repository (`repository.py`, `001_init.sql`) | cases, runs, run events, approvals, tool receipts, webhook receipts | one transaction or critical section per method | unique constraints decide races |
| Tool gateway, client (`tool_gateway.py`) | with the memory backend, effects and attempts | `collect`, `execute`, `status` | what a failure says about the effect |
| Effect ledger, server (`tool_gateway.py`, `server.py`) | `effect_ledger` | `execute`, `status`, concurrent transactions | one effect per idempotency key, every receipt names it |
| Policy (`policy.py`, `domain.py`) | none, a function of request, records and time | `deterministic_decision`, `retrieve_policies` | allows exactly what the evidence clears, whatever its order |
| Event stream (`api.py`) | the ids a stream has sent | poll, check the status, end | passes over nothing, ends |
| Start-up (`app_factory.py`, `seed.py`, `retrieval.py`, `migrations.py`) | public demo cases, runs and events; the documents of the policies | `lifespan`: migrate, `seed_public_runs`, `PgVectorPolicyRetriever.seed` | serves only from a seeded store; copies need starts that overlap, gaps a crash |
| Model provider (`model_provider.py`) | none | `recommend` | transient errors are retried, and not for ever |
| Evaluation harness (`eval_harness.py`) | the checkpoint file; in the process, one task per case | `evaluate` over `run_baseline` and `run_controlled` | a case is measured once and reported with its own results, across interruptions; what it claims of the controlled runs is true |
| Auth, configuration, telemetry, frontend, infrastructure | — | — | — |

How they interact: a request calls the service, which calls LangGraph
(`ainvoke`), which calls the nodes; nodes call the repository synchronously and
the tool gateway, the retriever and the model asynchronously. The evaluation
harness runs the same workflow, one in-memory system per case. With the
PostgreSQL backend the gateway calls the tool server over MCP, and the server
writes the effect ledger in a transaction of its own. Nothing locks a run:
requests about the same run, in one instance or in several, share it through the
store, the checkpointer and the ledger.

What is hard in this code, listed line by line under `hazards` in
`PROJECT.json`:

* two approvers pass the status check and both resume the run;
* the status of a run is read before the workflow runs and written after it;
* a crash between a node's row and LangGraph's checkpoint makes the node run again;
* the tool server may carry out a request whose caller has given up;
* calls with one key race through SELECT, INSERT, SELECT;
* events are built, and get their timestamps, before they are committed;
* webhooks are delivered more than once, and a delivery may be cut off;
* evidence expires, contradicts itself, and comes in no fixed order;
* instances start together and crash while they seed one store, which nothing locks;
* an evaluation is killed, or aborted by an outage of the model, among its tasks, and
  resumed from what its file holds.

## 2. The modules

```
Domain ──── Repository ──┐
   └─────── ToolGateway ─┴─ ControlledWorkflow ── ControlPlane ── ControlPlaneProofs
                                                      │  │              └── RequestProofs
                                                      │  └─────── MCControlPlane
                                                      └ implements GovernedRun
EffectLedger ─ EffectLedgerProofs, MCEffectLedger      (implements IdempotentEffects)
Policy ─────┬─ PolicyEngine ─ PolicyEngineProofs, MCPolicyEngine
            └─ EvalRunner ─┬─ EvalHarness ──┬─ MCEvalHarness  (implements ResumableEvaluation)
ModelProvider ───┘         └─ EvalRunnerProofs ─ EvalHarnessProofs
CaseIntake ─── EventStream ─ EventStreamProofs, MCEventStream
Startup ────── StartupProofs, MCStartup
```

**Domain, Repository.** The types, reduced to the fields that guards look at,
and the store. A run stands for its proposed action, for the action's hash and
for its idempotency key: a `ProposedAction` binds case, reason and the key
`<run>:<action>`, so the three are functions of the run, and sha256 is taken as
injective. Run events are kept as the *set* of kinds a run has, and approvals
and receipts as sets of rows; nothing in the code reads them back except the event
stream, which has a module of its own. The unique indices of
`001_init.sql` are the operators `ApprovalConflicts` and `ReceiptConflicts`;
`MemoryRepository` has none.

**ToolGateway.** What a call of `execute` may come back with, and what has then
happened to the effect. With `Backend = "memory"` it is the
`SyntheticToolGateway` and its injected faults; with `"postgres"` the
`McpToolGateway`. There a call that does not return a receipt may have had its
effect or not, and after a transport error the server may still perform it later
(`inflight`, `LateEffect`). The server's ledger appears as one set of effects;
`EffectLedger` justifies that.

**ControlledWorkflow.** One action per node. `human_interrupt` and
`idempotent_execution` are cut where they write a row or call the server, for
there another request, a crash or a failure can come in between. LangGraph is
external and modelled from how the code uses it: after a node the new state is
stored in the background (`Persist`), so that a crash loses the latest states
(`Crash`); an exception stores the state the failed node started from and leaves
(`Unwind`); `ainvoke` returns only when everything is stored (the guard `saved`
of `Finish`); `Command(resume=...)` starts from the checkpoint at whatever node is
next, and only `human_interrupt` looks at the decision. LangGraph also stores
the resume value for a node that is run again; a request here always brings a
decision of its own, which includes that one. `Decide` and `Recommend` choose
their verdicts freely: the properties hold for every policy and every model.

**ControlPlane.** The requests: `StartRun`, `Approve`, `Replay`, and `Finish`,
which writes the status. `Approve` checks and enters, the workflow runs in
between, `Finish` writes. A replay's event and the creation of its child are one
step: `replay` does not await between them, and nothing reads the one without
the other.

**GovernedRun** is the promise: a run is opened, settles or is blocked, gets one
verdict, has its effect at most once and only under an approving verdict,
completes only with the effect, and is never open again once closed. It has no
requests, no nodes, no checkpoints and no failures. `RunsAreGoverned` instantiates
it with the status of the run, the recorded approvals and the effects.

**EffectLedger** models the statements of
`PostgresSyntheticToolGateway.execute` and `status` one by one at READ
COMMITTED: an INSERT waits for the transaction that holds the key in the unique
index; a connection that dies is rolled back. What a call asks for, `execute` or
`status`, a key and a hash, is chosen in `Init`. **IdempotentEffects** is what it
implements.

**Policy, PolicyEngine.** `Policy` is the deterministic policy as a function. The
facts are merged as in the code: the last record wins, a conflict is noticed
against the value being overwritten. `PolicyEngine` applies it to records that
arrive one after the other while time passes; `Cleared` is the reference
definition, which does not merge.

**CaseIntake, EventStream.** The webhook, transaction by transaction, and on top
of it the event streams of the runs it starts, with requests of several
instances that build and commit events. Timestamps stand for events.

**Startup.** An instance is at one step of `lifespan`; every write is a transaction
of its own, as in the code, and instances interleave between them. What is
seeded is named by the start that seeded it (`create_case` and `aadd_documents`
make new ids), so that two copies can be told from one. `overlapped` and
`interrupted` are history variables: they say what the environment has done, and no
action reads them. `PoliciesRetrieved` says what copies do to a retrieval: the five
nearest documents are then copies of fewer policies.

**ModelProvider.** A reply is what one attempt to ask the model comes to: a
recommendation, the `ValueError` of an answer that is none, or another exception
with its chain of causes. `Retries` is the retry predicate of `recommend`; the
waits between attempts have no length.

**EvalRunner** has the two runners as functions of a case and of the model's
reply. They may be functions: each builds a repository and a gateway of its own and
awaits one thing at a time. `run_controlled` takes the policy from `Policy`, so
that a case is blocked for the reasons the code has. `Effects` are the idempotency keys
under which the gateway of a case has performed an effect: that there is one at most
depends on the repeated action having the run's key (`RepeatedKey`), as it is read back
from the run's state. The gates are products of
integers. The code divides: an improvement of exactly 15 points may come out
below `0.15`, but with at least 90% of the controlled runs successful the failures
are then more than halved, so that `baseline_delta` is the same.

**EvalHarness** is `evaluate` around them. A task is at the semaphore, in one of the two
runners, or finished. `Acquire` takes the tasks in their order (the semaphore is
fair); the lock of the file is never contended, since nothing is awaited between the
end of `run_controlled` and the written line (`Record`). An exception that
`run_controlled` does not catch leaves `gather` (`Raise`); the other tasks go on, and
may still write lines, until `asyncio.run` cancels them (`Unwind`).
`Interrupt` kills the process between two writes at any moment, and `InterruptedRecord` in
the middle of one: a part of the line is in the file then (`file = "broken"`), or all but its
newline (`"open"`), behind which the next line breaks it. A `Start` reads the file, with
either provider; on a broken line `json.loads` raises (`StartFails`). Of a line the code writes the case and the two results; the fields
`asked` and `provider` are history, and only properties read them.

**ResumableEvaluation** is what the harness promises whoever interrupts it: each case
is measured once, what is measured stays, and what is published are exactly these results.
It has no process, no file and no task; `EvalHarness` maps the lines of the file to the
results, and the report to what is published.

`LabelAssumption` says of the suites what is true of the 120 lines of
`evals/cases.jsonl`: the requests are of no foreign bank, none asks to close a case or
reports an expired KYC or an AML alert, no line has both a fault and an attack,
and the expected outcome follows from them (`Labelled`). TLC evaluates it on the
suites of the runs.

The suffixed operators introduced with "As X, ..." are deliberately wrong variants of
`X`; each is used to confirm that a property notices the corresponding mistake.
They take no part in any specification.

## 3. The runs

| Run | Instance | Shows |
|---|---|---|
| `ledger` | 3 calls, 2 keys, 2 hashes, fair | receipts agree with the ledger, and `execute` says "succeeded" to the inserting call only, `IdempotentEffects` is implemented, INSERTs wait for commits only (`WaitsAreForCommits`), every call ends, `ledger_race` (line 222) never happens |
| `control_plane` | 1 irreversible run, 2 concurrent requests, 3 actors of 2 tenants, tool failures, exceptions and crashes | authorization, finality of a rejection, audit of completed runs, closed runs stay closed, each step of a request brings it nearer to its end (`RequestsAreBounded`), refinement of `GovernedRun` |
| `memory` | 2 runs (or a run and a replay of it), one request at a time, the gateway of the tests | a run blocked by a tool failure has no effect; a closed run that nobody serves is left as it is, by requests about the other run and by replays of it (`ClosedRunsAreLeftAlone`). Authorization and audit hold for both stores (section 4) |
| `live` | 1 run, 2 requests, executions that fail, fair | every request ends, and a recorded decision closes its run |
| `policy` | 9 kinds of record, up to 3, clock to 2 | the verdict is what the records clear, in any order; bad evidence is never made up for; a KYC or AML denial can be cited |
| `streams` | 2 events, 2 deliveries, 1 later request, 1 stream, 2 events in the logs | one run per event; a stream has no gaps, is over after a bounded silence (`SilentStreamsAreBounded`), and ends |
| `evaluation` | suites of each of the 23 kinds of case, two of two cases, one of three; both providers, 2 attempts, concurrency 2, 2 processes, fair | a case is measured once, by no outage, and reported with its own results; the controlled runner's safety flags are true; deterministic runs succeed; refinement of `ResumableEvaluation`; a task's steps are bounded (`TasksAreBounded`); an evaluation ends |
| `startup` | 2 instances, demo runs of 2 and 1 events, 4 starts, fair | who serves has demo and policies; copies need an overlap and are bounded, gaps need a crash; a start ends |

Why the bounds are enough: the races are between two requests about one run (a
third finds what the second has left); every race of the ledger needs at most
two calls for a key and a third one to be answered; runs do not share state
except through `replay`, for which `memory` has two. Three attempts are the code's own
number. `policy` has every way a record can be bad and three records, as many
as `collect` asks for. `MaxIdle = 2` stands for 30 polls; `MaxEvents` bounds the
events so that the log stays finite, and `StreamsEnd` rests on that: a stream whose run goes
on for ever goes on, too. In `evaluation`, cases do not touch each other, so that
single cases cover the runners, and what is left are tasks that wait, interleave and
die together: three tasks for two places, and two processes, the second of which
resumes; a third would find what the second found. Two attempts have a first one that
is repeated and a last one that is not. `startup` has as many instances as
`infra/terraform/main.tf` (line 224, the control service) admits, an example with a last event and one with
an event before it, and starts for both instances before and after a crash. `memory` serves one request at a time
because `MemoryRepository` has no unique index: with two simultaneous approvals
of opposite verdicts the in-memory deployment does not keep
`RejectionIsFinal`, and no document says it should. `live` has failing
executions but neither exceptions nor crashes, which `DecidedRunsClose` does not survive: a
lookup that raises for each approver who tries again keeps the run open, and a
crash has the consequences of `paused_restart`. Symmetry is used for runs
and requests in the safety runs only.

Deadlock is not checked: in each of these systems all requests end and no new one
has to come. `CallsEnd`, `RequestsEnd`, `DecidedRunsClose`, `ClaimedEventsRun`,
`StreamsEnd`, `EvaluationEnds` and `StartEnds` say what must not stop.

**Fairness.** Weak fairness of the steps of a request that is being served: the
event loop schedules its coroutine, LangGraph completes its writes, PostgreSQL
its statements, and a stream is woken once a second. Nobody is obliged to send a
request, to approve, to replay or to keep a stream open, no fault is obliged to
happen or to end, and a waiting INSERT has no fairness of its own beyond that of
the transaction it waits for. A call to the tool server comes back in one way
or another: the HTTP client has a timeout (line 260 of `tool_gateway.py`). Of an
evaluation, some task that can go on is scheduled (not a particular one: they are
finitely many, and their attempts bounded), the model replies or raises, and a
finished or failed `gather` is returned from; nobody has to start or kill the process.
Of a start-up, each instance goes on; nobody has to start it again.

### Where the code does not keep what the documents say

Four runs expect TLC to find a violation, each of one statement of the
documents; `findings` in `PROJECT.json` quotes them.

| Run | Statement | What happens |
|---|---|---|
| `lookup_skipped` | operations.md:6, query the status after any post-commit disconnect | `McpToolGateway` never reports `committed`, so for reversible actions nothing is looked up, and a run is blocked although its effect stands |
| `paused_restart` | walkthrough-script.md:25-27, restart while a run is paused and resume it | after a crash between the approval's row and the checkpoint the node violates its unique index for ever |
| `collect_raises` | operations.md:7-8, schema drift closes the run as blocked | a record that fails validation raises through `start_run`, and the run stays `running` |
| `mixed_providers` | evaluation.md:23-24, CI and Vertex results are never merged | the file's lines say nothing of the provider, it is never deleted, and its default name depends on `--output` only: a Vertex evaluation after a deterministic one measures nothing and reports the deterministic results as Vertex's |

One more disagreement is in the model without a run of its own: operations.md:23-25 says that
an interrupted evaluation resumes without discarding measured cases, but behind a kill in the
middle of a line (`InterruptedRecord`) every later start raises on that line (`StartFails`, which
the run `evaluation` reaches) until somebody repairs the file. What was measured
is still measured once, and what is reported still true.

Two places read less than they could, without consequences the documents exclude. The
second SELECT of `execute` (`tool_gateway.py`, 217-223) does not compare hashes, but the
workflow never sends two actions under one key, and `ReceiptsAgree` holds for callers
that do. The decision of a resumed run is read by `human_interrupt` only; behind that
node the effect is still covered by the approval recorded first (`EffectAuthorized`).

## 4. The proofs

TLC checks the instances above; TLAPS proves the following for every value of
the constants that satisfies the assumptions of the modules (sets that contain
what they should, `None` distinct from everything else).

**EffectLedgerProofs.** The invariant ties each uncommitted row to the one
transaction that holds its key (`HolderInv`) and says what a call may rely on
between two statements (`ProgressInv`): in particular a call whose INSERT did
nothing finds a committed row, for the INSERT waited. From it: `ReceiptsAgree`,
`NoLedgerRace`, and the step simulation of `IdempotentEffects`, in which `Commit`
is the effect and each return an answer. `WaitsAreForCommits` is why calls cannot
deadlock: who is waited for waits for nobody.

**ControlPlaneProofs.** `EffectAuthorized` and `CompletedIsAudited` are not
inductive: they speak of the store, while the steps are taken on copies of the
graph state, some of them old. The strengthening is `StateOK`, which says of
*any* copy that the store and the server already hold what it claims: a copy
behind `human_interrupt` has its approval in the table, one with a receipt has
its effect, and so on. It is asserted of every checkpoint and of every request
(`CopiesInv`); because store and server only grow, it survives the steps of
others (`StateOKMonotone`), and because a checkpoint is only ever replaced by a
copy, crashes and restarts preserve it. `StarterInv` says that the request that
starts a run is alone with it until the pause; `DeciderInv` what an approver's
request may rely on between its steps; `RunInv`, `RowInv`, `EffectInv` and
`UniqueInv` tie statuses, rows and effects together. The step lemmas follow the
actions of `Next`, one by one. `ClosedStaysClosed` then follows because only a
`Finish` changes the status of an existing run, and the one of an approver's request
never says "waiting". `ClosedRunsAreLeftAlone` needs no strengthening, but every step: all
that one writes is about the run its request serves (`Untouched`, for the nodes
`WorkflowStepElsewhere`, for the requests `RequestElsewhere`), which is never a closed one for
a request that enters. `RunsAreGoverned` and `RejectionIsFinal` need the
PostgreSQL store (`UniqueInv`); the theorems assume `Backend = "postgres"`.

**RequestProofs** has two results that rest on the invariant above.

`NoEffectBehindToolFailure` does not hold of every deployment: `lookup_skipped` is a
counterexample with the remote gateway, and with two approvals of one run at the same time
the in-memory deployment breaks it too, since one request may give up on an effect that
the other one then has performed. The theorem `FailedRunsHaveNoEffect` says where it does
hold. `FailuresAreKnown` is about the deployment: no process dies, and either the
gateway is the in-memory one, which says of a failure whether the effect happened, or every
action is irreversible, so that every failure is looked up, and none leaves the request
under way. `OnePerRun` is about the behaviour: no two requests work on
one run (on different runs they may). Under both, a copy of the graph state that has given up
is behind the execution and its run has no effect, while a copy that may still perform
it belongs to a run that no copy has given up on (`FailureInv`). Where requests are served
one at a time, as in the run `memory`, the second hypothesis always holds
(`OneAtATimeNoEffect`).

`RequestsAreBounded` is the safety half of `RequestsEnd`: `StepsLeft`, a number between 0
and 200 (`StepsLeftBounded`), decreases in every step of a request, with all faults, and no
step of another request raises it. It counts the nodes up to the end of the graph, the attempts
`_execute` has left with their lookups, and the states to be stored.

**EventStreamProofs.** A case belongs to the delivery that claimed its event,
and a claim is never given up; what a stream has sent is exactly what had been
committed at its last poll, which stays so because a log only grows at its end. `SilentStreamsAreBounded`: the polls a
stream has left, if it finds nothing, decrease with every read; the idle counter is reset only
after something was sent.

**PolicyEngineProofs.** The merging policy equals the reference definition on
any three records: a value is compared only with the one it overwrites, but with
three records a chain of such comparisons reaches every pair. That bad evidence
is final follows from it, since a taint of the records is a taint of any
longer list at any later time. The verdict does not depend on the order because the
reference definition does not (`VerdictIgnoresOrder`; the list of reasons does, where
records contradict each other, and the property says so). `DenialIsCited` compares
the reasons for which a release is denied with what `retrieve_policies` finds for its case,
which is the retriever of the in-memory deployment; the one on PostgreSQL returns the five
best matches, whatever the case.

**EvalHarnessProofs.** `DoneInv`: a case's task is done exactly when the file has a
line of the case, and then holds its results. It is needed because `MeasuredOnce` and
`ReportIsMeasured` speak of the file and of the report only, while a step sees its
task. A task and the line of its case change in one step, and a new process sets
every task from the file, so deaths preserve it, also those in the middle of a line: from
a broken file no process starts. From it also `OutagesAreNotMeasured`,
`TasksAreBounded`, and the simulation of `ResumableEvaluation`: `Record` measures, `Report`
publishes, starts and deaths change nothing that it sees. The types (`TypesKept`) are proved only;
the run checks `TasksAreBounded`, which says more about the attempts.

`SafetyFlagsAreTrue` and `DeterministicSucceeds` are about what the lines say.
`LineInv` adds to the invariant that the result of a line is `run_controlled`'s on a reply
that the provider of its process can give. The rest are facts about that function, proved
without states in **EvalRunnerProofs**: for each kind of case, what the policy decides on the
records the gateway collects, hence which cases can execute, and how often. That a repeated action has no
second effect is there, too (`OneEffectAtMost`). They use
`LabelAssumption`: for a suite whose labels expect something else, the flags need not be true.

**StartupProofs.** `StepInv` and `PositionInv` say what an instance may rely on at each
point of its start, in particular which examples and stages its own seeding has behind
it. `WholeInv` (without a crash, what is not whole is being seeded) gives
`DemoIncompleteOnlyByCrash`; `OverlapInv` (without an overlap, one start has seeded) gives
`DuplicatesNeedOverlap`. For `SeedBounded` the starts that have seeded an example and those that
still may are counted together (`Seeders`, `Adders`): a start joins them only while nothing
is seeded, when all of them are starts of different instances that are up.

Model-checked only are the liveness properties (`CallsEnd`, `RequestsEnd`,
`DecidedRunsClose`, `ClaimedEventsRun`, `StreamsEnd`, `EvaluationEnds`, `StartEnds`):
liveness under fairness, and the ENABLED it rests on, are outside what TLAPS proves. For
calls, requests, streams and evaluations the part of the argument that is safety is
proved: what waits, waits for something that does not wait, and what runs has a bounded number of
steps left. The four properties that the code violates are, of course, not proved.

## 5. What is not modelled

* Failures of PostgreSQL other than unique violations, and of the checkpointer.
* The `ValueError` of `_validate` for a foreign tenant (line 132): `start_run`
  has already compared the two tenants. The last case of `_status`, `running`:
  `ainvoke` returns only at the interrupt or at a closure. A receipt whose
  response does not say `verified`: both gateways always say it.
* The regular expressions against injection, hashing and signatures: each is a
  Boolean or an injective function.
* `visible_run`'s access check for streams, listing and reading of runs, health,
  stored evaluations: they change nothing.
* Over MCP the tool server builds its records from a default request
  (`server.py`, 26-63), so `kyc_expired` and `aml_alert` never reach the policy from it;
  `PolicyEngine` takes any record instead.
* Telemetry, configuration, frontend, Terraform, CI, scripts: no state the control
  flow reads.
* Embeddings, similarity and the score of a retrieval; of the evaluation the latency,
  cost and recall (data of the run, with gates of their own) and the counts that
  `load_suite` checks; the waits between two attempts to ask the model.
* Two migrations at the same time: whether `CREATE ... IF NOT EXISTS` then fails depends on
  PostgreSQL's catalogue. An instance that stops on it is a `Crash` of `Startup`.
* How old the evidence is when the approved action is executed. No document promises
  freshness at that moment; threat-model.md:14 asks for it at the decision, which
  `VerdictIsCleared` and `TaintIsFinal` are about.
* Whether a stream has sent everything when it ends: the events are read before the
  status, and no document says a stream is complete.

## 6. State of the project

Modelled, checked and proved about: the ledger; store, gateway, workflow and control
plane; policy; intake and streams; start-up; model provider and evaluation. Every
invariant, action property and refinement that a passing run checks is also a theorem. What
could be added: a bound on the steps of a start-up, as those of requests, streams and
evaluations; an abstract specification for the intake and its streams to implement.
