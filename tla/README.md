# A formal model of the Allgres agent runtime

Allgres runs agents inside PostgreSQL. A control plane of PL/pgSQL functions holds all state in
tables, and background workers written in Rust do the I/O. This directory holds TLA+ modules of that
system, the TLC configurations that check them on small instances, and TLAPS proofs that hold for
every value of the constants. `PROJECT.json` maps every definition to the source lines it stands
for and lists runs, mutants, findings, hazards and theorems.

## The system

| part | source | what it does |
|---|---|---|
| task engine | `sql/control_plane.sql` (`fn_dispatch_tasks`, `fn_next_step`, `fn_submit_result`, `maybe_complete_session`) | takes a task from turn to turn: asks the model, does what it answers |
| call queues | `sql/control_plane.sql` (`fn_claim_*`, `fn_complete_*`) | `outbound_calls` (HTTP), `sql_calls`, `function_calls`, `procedure_calls` |
| execution guard | `sql/execution_guards.sql` | checks a call again when it is claimed, asks for approvals, pauses ambiguous mutations |
| watchdog | `sql/control_plane.sql` (`fn_watchdog`) | gives up on lost calls, expires approvals, enforces turn limits, wakes parents |
| sessions, approvals | `sql/operator_runtime_and_integrations.sql`, `sql/operator_accounts_and_chat.sql` | create, continue, cancel a session; decide an approval |
| schedules | `sql/operator_runtime_and_integrations.sql` | sessions that start at an interval until a limit |
| agents, policies | `sql/operator_agents_and_policies.sql` | policies with generations, proposals, experiments, rollback, permissions, fixes |
| integrations | `sql/operator_runtime_and_integrations.sql`, `sql/capability_search.sql` | providers, connections, OAuth, embeddings, probes, capability search |
| accounts | `sql/operator_accounts_and_chat.sql` | users, login, chat, SQL console |
| runtime worker | `src/runtime_worker.rs`, `src/outbound.rs` | one SPI thread that serves RPC, harvests, cancels, dispatches and claims; four HTTP threads |
| local execution | `src/sandbox.rs`, `src/function_exec.rs`, `src/procedure_exec.rs`, `src/sql_parser.rs` | SQL, functions and procedures under the agent's role |
| web server | `src/web.rs`, `src/http_protocol.rs`, `src/rpc.rs`, `sql/grants_and_facade.sql` | HTTP to a unix socket to `dashboard_rpc` |

The worker's tick runs watchdog, dispatch and claim in one transaction, hands the claimed calls
to its threads and reports each result in a transaction of its own. Dashboard requests run on the
same thread. Only sessions of `psql` run beside it.

## Modules

**`TaskLifecycle`** is the core: sessions, tasks, the four queues, approvals and the worker.

| variable | stands for |
|---|---|
| `tasks`, `sessions`, `approvals` | the tables `tasks`, `sessions`, `human_approvals` |
| `calls` | the rows of the four queues; `kind` tells them apart |
| `jobs` | calls the worker has claimed and not reported |
| `active`, `permitted`, `rule`, `cap`, `gen` | per agent: `is_active`, the permission its tools need, the decision of its execution rule, `max_concurrent_tasks`, the generation of everything an approval's snapshot holds |
| `provider` | the providers of models and embeddings are configured and enabled |

A call's kind is `llm`, `query` (the embedding of a search), `read` (HTTP GET), `mutate` (any other
HTTP method, MCP), `sql`, or `local` (function and procedure calls). Its status is the column's.
Rows get their ids in order, and an unused row has status `none`. `errs` counts the error rows of a
task's log, which is what `max_retries` is compared with. `sent`, `strict` and `gen` of a call record
its claim for the properties.

| actions | code |
|---|---|
| `CreateSession`, `ContinueSession`, `CancelSession`, `DecideApproval` | the operator functions of these names |
| `SetAgentActive`, `SetProvider`, `SetPermission`, `SetRule`, `SetCap` | what an operator may change while tasks run |
| `DispatchDone`, `DispatchLlm`, `DispatchNoProvider` | one iteration of `fn_dispatch_tasks` with `fn_next_step`, `maybe_trigger_compaction` and `build_llm_http` |
| `ClaimSend`, `ClaimPark`, `ClaimRefuse` | one iteration of a claim with `guard_queued_call` |
| `CompleteStale`, `CompleteSkipped`, `ToolResult`, `CallError`, `AmbiguousResult` | `fn_complete_*`: the fence, a task that no longer runs, a result, an error, a mutation whose outcome is unknown |
| `FinalAnswer`, `Note`, `ApplyChange`, `ReplyRejected`, `ReplyRaises`, `ReplyDiscarded`, `AwaitHuman`, `AwaitChildren`, `ToolCall`, `Delegate`, `DelegateRefused` | `fn_submit_result` of a model's reply, by what it asks for |
| `Reclaim`, `ExpireApproval`, `TurnTimeout`, `WakeParent` | the loops of `fn_watchdog` |
| `WorkerCrash`, `DropResult`, `ApprovalClock` | the environment: a crash, a report whose transaction fails, time |

Every function runs in one transaction and locks the rows it changes, so a function call is one
action; the loops treat one row per iteration, and an iteration is one action. (The worker's tick
commits its three functions together, so the model has more interleavings than the worker alone
makes; sessions of `psql` may call the functions one by one.) One function is atomic only because
its callers take turns: `fn_continue_session` looks for an open turn before it locks anything. Calls
from the dashboard run one after the other on the worker's thread; two sessions of `psql` that send
messages to one session at the same moment are outside the model, and so outside what is proved of
it (`Dispatchers` in the plan). Abstractions:

- Time is nondeterministic: an approval may expire and a turn limit may pass at any moment after it
  starts; a call the worker still holds is given up only where `late` is among the faults.
- An agent has one permission and one execution rule; `gen` grows with every edit of rules or policy.
- The prompt, the log and the content of calls are left out; whether a log is long enough for
  compaction is a free choice, and so is what a model answers. An OAuth token that delays a claim is
  the claim happening later.
- The set of agents is fixed: `create_agent` is a step of the task that asks for it.
- The latest root task of a session is the one with the greatest id, because root tasks run one
  after the other (`TurnsFit`, which is proved).
- `Ancestors` is what the recursive query `ancestors` returns, said without recursion: the least set
  that holds the task and, with every member, its parent.
- `fn_dispatch_tasks` catches what `fn_next_step` raises, warns, and tries to submit the error to the
  task. No action stands for this handler: `fn_next_step` raises only when the task or its policy is
  missing or the task is not runnable. The loop has just read and locked the task as queued or
  running, and every agent has a policy.
- An ambiguous result always meets a running task: `InFlightIsRunning`, which is proved.
- A `read` never ends in `CallError`: its status is part of its result.

**`SessionContract`** is the abstract specification of a session, as the one who talks to it sees it:
its status, the turn that works on a message, the latest turn if it has answered, and whose answer is
shown. A message begins a turn only when the one before has ended; delegated turns may answer
meanwhile; the session closes with its last turn, fails only without an answer, reports the answer
of the latest turn that completed, and is reopened by a message only. `TaskLifecycle` implements it.
**`TaskSessions`** holds the mapping: `Contract` takes the open root task for the turn (`OpenRoots`),
`RootAnswer` for the answered turn, and status and reply from the session's row. Several sessions may
step together, because a step of one can begin another (its compaction).

**`MCTaskLifecycle`** gives the agents names and the delegation relations values for TLC.
**`TaskLifecycle_proofs`**, **`TaskLifecycle_safety`**, **`TaskLifecycle_calls`**,
**`TaskLifecycle_sessions`** and **`TaskLifecycle_contract`** hold the proofs.
**`Schedules`** models `schedules` with a clock, the sweep, manual runs, booked costs and the
operator's edits.

**`HttpPool`** models the threads of `src/outbound.rs`: `place` says where each call is (in the job
channel, about to send, waiting, or back as a result), `flags` which cancellation flags are set,
`effects` how often a call's own request went out. `perform_http` is followed with the MCP handshake
and its fallbacks, and every way it ends is one of unsent (-1), unknown (0) or answered. The order
of the two channels is left out: nothing depends on it.

**`RuntimeWorker`** extends it with the loop of `allgres_runtime_main` and what that runs itself.

| actions | code |
|---|---|
| `SubmitResult`, `Tick`, `ClaimHttp` | harvest, `propagate_outbound_cancellations`, the pump of the HTTP queues |
| `ClaimLocal`, `BeginCall`, `Finish`, `Raise`, `Submit` | `pump_sql`, `pump_function_*`, `pump_procedure_*` with `src/sandbox.rs`, `src/function_exec.rs`, `src/procedure_exec.rs` |
| `Creates`, `Wraps`, `WrapFails` | the CREATEs of `run_guarded_build` |
| `TimerFires`, `Die`, `Crash` | the statement timer, an error nothing catches, the end of the process and its restart |
| `Install`, `Enqueue`, `Edit`, `Cancel` | the operators and the dispatcher, in sessions of their own |

A transaction is one action, but for builds and local executions, which take a step per statement.
A build creates the routine as it was written, then once more with the guard around it, and a third
time with a semicolon if that failed: `job.made` is the object as it stands in the open transaction,
and a failure, an interrupt or the end of the worker may come between any two of them. Only the
first wrapping has a subtransaction of its own; a second failure rolls the whole build back
(`RolledBack`). A call asks whether its routine is built when it is queued, when it is claimed and,
in the guard, when it runs (`Asserts`).

`Cancel` stands for `fn_cancel_session` and for `fn_oauth_device_start`, which gives up the device
exchange that it supersedes; that one is not stopped in the pool, as only outbound calls are flagged.

`view` is what the worker's session sees and `db` what is committed.
They differ only after a local execution has left its subtransaction open (fault `role_in_run`).
`CallQueue` is the abstract specification: a call is claimed once, acts at most once and never
before its claim, and ends for good. `RuntimeWorker` implements it, with `db.status` and `effects`
as the mapping. `MCRuntimeWorker` holds the instances.

**`WebServer`** models `src/web.rs`. `conn` is a connection with the place of its thread; `general`,
`auth_fail` and `tickets` are the maps behind the locks, and a step is what a thread does under one
lock. `streams`, `failures` and `admitted` are history. What it takes for granted: the peer's address
is known; the clock that a ticket or a window is compared with is read in the step that takes the
lock.

**`RpcSocket`**, which `WebServer` extends, models the exchange of an API request with the runtime
worker: `rpc` of `src/web.rs` on one side, the accept loop of `allgres_runtime_main`,
`handle_rpc_stream` and `dashboard_rpc` on the other.

| actions | code |
|---|---|
| `RpcConnect`, `RpcWrite`, `RpcRead` (in `WebServer`) | connect, write and shut down, read to the end; each fails on its own, or after five seconds |
| `RpcAccept` | the loop takes the oldest connection of the backlog |
| `RpcReceive` | the request is read, or cut, late, too long, or met before the extension was found; or it is executed in a transaction of its own |
| `RpcReply` | the answer is written, whole or not |
| `RpcPump`, `RuntimeEnds` | a pump looks for the extension; the worker ends, and its socket with every connection in it |

Of an answer its `ok` is kept: true, absent or false. `Status` is the code's rule, that only an `ok`
which is false makes the response a 400, so everything else depends on what the two sides put there
when they fail. `nr` is the place of a connection in the order of the connects, and `done` the
requests that were committed. `MCWebServer` holds the instance and `WebServer_proofs` the proofs.

**`Blocklist`** holds two pure functions: the address ranges of `src/outbound.rs` and the regular
expressions of `is_blocked_host`, over the digits of the written address.
**`ControlPlane_proofs`** holds the proofs about `Schedules` and `Blocklist`.

## Runs

| run | instance | checks | states |
|---|---|---|---|
| `calls` | one agent, two tasks, three calls, an operator who switches the agent and the provider and edits the cap, a worker that crashes or is late | `TypeOK`, `OneLiveCall`, `InFlightIsRunning`, `WithinCap`, `ModelCallsBounded`, `EndedForever` | 360,000 |
| `guard` | one task, three calls, three approvals, two edits of the rule, an autonomous agent that changes itself, all faults | `HumanIsAsked`, `SentAsApproved`, `AmbiguousNeedsHuman`, `SessionOpenIffWork`, `OneLiveCall`, `InFlightIsRunning`, `EndedForever` | 340,000 |
| `delegation` | two agents that may delegate to each other, three tasks | `SessionOpenIffWork`, `ChainsAcyclic`, `RootAnswerWins`, `ImplementsSession` | 130,000 |
| `liveness` | delegation, compaction, approvals, crashes | `EveryTaskEnds` | 34,000 |
| `schedules` | one schedule, intervals of one and two, five ticks | `TypeOK`, `NoRunPastLimit`, `NoBurst` | 290,000 |
| `worker` | three HTTP calls, a statement, a routine and its call; one HTTP thread, one fault, two edits | `TypeOK`, `InFlightExact`, `FlaggedIsLost`, `UnsentIsUnsent`, `BuiltIsCurrent`, `AlwaysGuarded`, `CancelStops`, `ImplementsCallQueue`, `RunsAsBuilt` | 150,000 |
| `web` | three connections of one address, two threads, two ticks | `TypeOK`, `ThreadsExact`, `TicketOnce`, `TicketFresh`, `RateKept`, `LockoutBounded`, `OnlyAuthorized`, `OkIsExecuted`, `ExecutedInOrder` | 840,000 |
| `circular_wait`, `lowered_cap`, `malformed_reply`, `due_schedule`, `stray_timer` | smallest instance that shows it | one property each, violated | |

The bounds are on rows. Two tasks are enough for one turn to follow another and for a late result to
meet the wrong turn. Three calls let a turn go model, tool, model with the tool call lost, or a task
ask the model once more than `max_steps` allows. Three approvals cover one that is replaced after an
edit and one more after that. The operators are divided between the runs: `calls` has the switches
that meet two tasks at once, `guard` the ones that meet an approval, `delegation` the cancellation and
the follow-up message. In `liveness` the question a human never answers is the one about an ambiguous
mutation; `await_human` leaves its task and its approval in the same state and is in `guard`. Three tasks make a
chain with an attempt to return to its first agent. `max_steps` is small but larger than the number
of steps these cases need. In `worker`, `Mixes` bounds which rows exist together: all HTTP calls
(three compete for a capacity of two), a routine with its call beside a statement, or an HTTP call
beside a build or a statement.
The embedding and probe queues are served as the OAuth queue is and the procedures as the functions,
so one of each stands for the others. A second body lets an edit overtake a build, or a call that was
claimed for the first. In `web`, three connections let two threads pass the lockout together with a
limit of one, and let a request wait in the backlog behind one that is handled while a third
connects; two ticks are as long as a ticket lives and as the general window; `Mixes` bounds which
requests are made together. Deadlock is checked in `worker`, whose loop never stops; elsewhere it is not: when the rows
are used up and every task has ended the system has nothing left to do.

**Fairness.** The worker's loop (`allgres_runtime_main`) has no exit but termination: each tick runs
the watchdog, dispatches, claims and reports, so each of these steps is weakly fair per row, and so
is the passing of time that expires an approval. Nothing is assumed of operators, models or faults.
`EveryTaskEnds` is checked for one-way delegation and a fixed cap; `circular_wait` and `lowered_cap`
show what happens without these conditions. `Schedules` assumes a clock and the worker's reports;
it assumes no fairness of `fn_pump`, which no part of the program calls.
`CancelStops` assumes that the loop goes on (some step of it is always possible) and that a thread
polls its flag, which `perform_http` does while it waits; nothing is assumed of peers.

**What the violated properties show.**

- `due_schedule`: the documentation says a due schedule is found by the next tick. The worker's tick
  calls `fn_watchdog`, `fn_dispatch_tasks` and `fn_claim_outbound`, not `fn_pump`, and only `fn_pump`
  calls `fn_run_schedules`.
- `circular_wait`: the documentation says a parent does not wait forever for a child that never
  finishes. With caps of one and no `max_turn_seconds` (the default) two parents can hold the slots
  of each other's children.
- `lowered_cap`: a comment says a running task already holds its slot. After the cap is lowered, two
  running tasks each count the other and neither is dispatched.
- `malformed_reply`: `max_steps` is said to bound a loop. A reply that makes `fn_submit_result` raise
  (a `wait` that is no boolean, an id that is no UUID) is rolled back without costing a step.
- `stray_timer`: a comment says an error in a local execution is caught so that it cannot end the
  worker. A routine that raises unwinds past `disable_timeout`; the timer stays armed and its signal
  later meets the worker outside any subtransaction.

## Proofs

The theorems hold for every value of the constants, from the named assumption of their module
(`ConstantsAssumption`, `SchedulesAssumption`, `PoolAssumption` and `WorkerAssumption`, `WebAssumption`).

| module | theorem | states |
|---|---|---|
| `TaskLifecycle_proofs` | `TypeCorrect` | `Spec => []TypeOK` |
| `TaskLifecycle_safety` | `CallsOneAtATime` | `Spec => []OneLiveCall` |
| | `CallsBelongToRunningTasks` | `Spec => []InFlightIsRunning` |
| | `HumanAskedExactly` | `Spec => []HumanIsAsked` |
| | `EndedStaysEnded` | `Spec => EndedForever` |
| `TaskLifecycle_calls` | `CallsLeaveApproved` | `Spec => []SentAsApproved` |
| | `UnknownNeedsHuman` | `Spec => []AmbiguousNeedsHuman` |
| | `ModelCallsStayBounded` | `Spec => []ModelCallsBounded` where `"raise" \notin Replies` |
| `TaskLifecycle_sessions` | `SessionsEndWithTheirTasks` | `Spec => []SessionOpenIffWork` |
| | `RootAnswerReported` | `Spec => []RootAnswerWins` |
| | `SlotsKept` | `Spec => []WithinCap` |
| | `ChainsStayAcyclic` | `Spec => []ChainsAcyclic` |
| `TaskLifecycle_contract` | `SessionsKeepTheirContract` | `Spec => ImplementsSession` |
| `ControlPlane_proofs` | `ScheduleTypes` | `Spec => []TypeOK` |
| | `SweepsAreSpaced`, `RunsStayWithinLimits` | `Spec => NoBurst`, `Spec => NoRunPastLimit` |
| | `BlocklistsAgree`, `GroupsAgree` | the two blocklists agree on every IPv4 address, and on every first group of an IPv6 address |
| `RuntimeWorker_proofs` | `WorkerTypes`, `CountExact` | `TypeOK`, `InFlightExact` |
| | `FlagsLostOnly`, `UnsentTruthful` | `FlaggedIsLost`, `UnsentIsUnsent` |
| | `BuildsCurrent`, `BuildsGuarded` | `BuiltIsCurrent`, `AlwaysGuarded` |
| | `CallsRunAsBuilt` | `Spec => RunsAsBuilt` |
| | `WorkerImplementsCallQueue` | `Spec => ImplementsCallQueue` |
| `WebServer_proofs` | `WebTypes`, `ThreadCountExact` | `TypeOK`, `ThreadsExact` |
| | `TicketsOnce`, `TicketsInTime` | `TicketOnce`, `TicketFresh` |
| | `AuthorizedOnly`, `RepliesTruthful` | `OnlyAuthorized`, `OkIsExecuted` |
| | `RpcsInOrder` | `Spec => ExecutedInOrder` |
| | `GeneralLimitKept`, `LockoutHolds` | `RateKept`, `LockoutBounded` |

`TypeOK` is not inductive: a claim reads the rule generation of the agent of the task of a call, so
`TypeInv` adds that a call or an approval in use has a task in use, and a task in use an agent and a
session. Its proof has one lemma per table (`TasksStep`, `CallsStep`, `ApprovalsStep`, `JobsStep`,
`ConfigStep`), each with a case per action.

The safety theorems share `IInv`. Alone, `OneLiveCall` is lost when an approval puts a task back in
the queue; `AskedIsIdle` says that only the approval of a guarded call leaves a live call behind, and
that approval makes the task running again. `AskedTasksWait` and `AskedOnce` keep a second approval
from doing it a second time, `WaitingIsAsked` is the other half of `HumanIsAsked`, and `GuardOfCall`
ties an approval to the task of the call it guards. A few lemmas say what a step may do to the
tables as far as `IInv` can tell (`CallSettled`, `CallPaused`, `CallSkipped`, ...), and every action
is shown to be one of those.

`TaskLifecycle_calls` adds what the history of a task's calls needs. `CallSteps` says what any step
may do to a call: create it, claim it, settle it, or nothing. From there:

- `SentAsApproved` needs `SentIsClaimed` (only a claimed call was sent) and that the approval a claim
  relied on keeps its status, its generation and its call; only asking again withdraws one, and a
  call for which a human is asked again has not been sent (`ApprovedStays`).
- `AmbiguousNeedsHuman` speaks of later calls, so it needs their order: ids are given out in order and
  a live call is the last of its task (`Ordered`). `UnknownStops` is the invariant: after a mutation
  whose outcome is unknown, either a human has approved it, or it is the last call of its task and
  the task has ended or a question about it is pending.
- `ModelCallsBounded` needs `CallsPaid`: an open task has taken a step for each of its model calls but
  the live one. It holds because every reply that reaches its task costs a step or ends the task
  (`ReplyCosts`), no step of a task is ever taken back (`StepsGrow`), and a dispatch makes no call at
  `max_steps`. A reply that makes `fn_submit_result` raise costs nothing, hence the hypothesis;
  `malformed_reply` shows what happens without it.

`TaskLifecycle_sessions` rests on `TypeInv`. `Steps` reduces every action to one of a few shapes: a
task moves on and the session is settled behind it (`MovesTo`), a task begins (`Begins`), a delegation,
a continuation or a cancellation. `SessionOpenIffWork` and `RootAnswerWins` are proved together as
`Fits`: neither the answer nor the status of a session can be kept without the other, because
`maybe_complete_session` sets both. `SlotsInv` is `WithinCap` with a generation that starts at one. A
task takes a slot only where `fn_dispatch_tasks` has counted one free (`MovesHold`); every other
resumption leaves the set of holders as it is or makes it smaller.

`ChainsAcyclic` speaks of chains of any length and is proved without induction over them, because
`Ancestors` is a least set: a set that holds a task and is closed under parents contains its chain
(`LineIsLeast`). `ChainsFit` adds that a parent is a row in use. So a new row is in no old chain
(`LineKept`), and the chain of a child is that of its parent and the child itself (`ChildLine`), one
longer and with one agent more, which the ancestor check has found to be new. `Grows` says what a
step may do to the tree, and `GrowsStep` that every action does no more.

The refinement of `SessionContract` (`TaskLifecycle_contract`) rests on `TypeInv`, `Fits` and `TurnsFit`: ids are given out in
order, a root task is open only as the latest of its session, and an open task has no answer yet.
Without the second part a session could have two turns at once, and the root that completes might
not be the one that is reported. `Promise` is what a step may do to a session short of a new message
or a cancellation: nothing that shows, an answer of a delegated turn, the end of the turn, or the end
of the session. One lemma per shape of `Steps` shows that the step keeps the promise of every session,
or is `Begin`, `FollowUp` or `Cancel` of one and keeps the promise of all others (`MovesPromise`,
`DelegatePromise`, `BeginsPromise`, `ContinuePromise`, `CancelPromise`).

`NoBurst` needs `Spaced`: the next run of a swept schedule is at least the interval of that sweep
after it. An edit may change the interval, but no edit touches `next_run_at`. `NoRunPastLimit` is an action property and follows from
the types.

The theorems about `RuntimeWorker` assume `"role_in_run" \notin Faults`: no local execution returns an
error from `drop_privileges` without raising one, which would leave a subtransaction open and make
what the worker sees differ from what is committed. Their invariant says that the session sees what
is committed, that a call which has still to act has not acted (`CallsInv`, which `UnsentIsUnsent` and
the refinement need), and that a build under way is of the body in its row unless an edit has put
the row back in the queue (`BuildsInv`). A build that is wrapping has made the bare object of the
body it claimed, in its own transaction only; `BuildStepFacts` says that what its end commits is the
guarded object, or nothing. `RunsAsBuilt` then follows from the guard: an object that exists is
guarded, a guard lets a call pass only while the row is built, and a built row has its current
object. The module first states what the steps do to the tables and
proves the types, then each part of the invariant, then the theorems.

The invariant of `WebServer` has a part for each property. `Steady` relates the place of a thread to
its request and reply. `Exchange` is about the sockets: an answer that is not a plain refusal exists
only after the commit (so a 200 can only come from one), the places in the order of the connects are
all different, at most one connection is handled at a time, and nothing that was committed or is
being handled is younger than anything in the backlog, which gives `ExecutedInOrder`. `TicketInv` adds that a ticket's name is never reused and that no ticket
is left of a stream. `RateInv` says that the window the code keeps holds every admitted request that
is still in it. `LockInv` counts the failures in the window together with the threads that are past
the lockout and may still fail; the sum stays below the limit plus the number of threads.

Only model-checked: `EveryTaskEnds` and `CancelStops`, liveness under fairness, which the proof system
cannot treat. Every other property of a passing run is proved, under the hypotheses named above.

## Not modelled, and the plan

Not modelled because it is I/O, cryptography, data or presentation: the bytes of HTTP requests and
responses and their limits, request parsing, the lexing of SQL (`src/sql_parser.rs`), encryption of
secrets, audit log, seed data, dashboard page, vector ranking. `guarded_post_json` keeps no state, and
the configuration variables are read once. `native_start_dynamic_workers` depends on the postmaster's
registration of workers. A stop the operator asks for while the worker executes a statement can only
come from another session; `Cancel` is such a step and nothing is claimed about when it comes.
An event stream asks the runtime worker again and again; those RPCs are left out, as what they return is
only shown. That a thread of the web worker which panics keeps its slot is modelled as it is, and no
property asks for the slot back. A function or procedure call whose session is cancelled runs on, which
is modelled too; `InFlightIsRunning` is about the other calls.
Accounts, team chat and memories are tables with little control of their own.

Planned, in this order:

1. `Dispatchers`: two sessions running `fn_dispatch_tasks`, or `fn_continue_session`, at once, with the
   statement snapshots of READ COMMITTED. Properties: one live call, the cap, one turn at a time.
2. `LocalExecution`: `begin_local_execution` and `assert_local_execution` around a procedure that
   calls functions while permissions and rules change.
3. `PolicyGovernance`: generations, history, proposals with a base generation, rollback, experiments,
   fixes. Properties: a stale proposal is never applied, history is complete.
4. `Memories` with compaction; `Accounts`.
5. Pure algorithms against reference definitions: `extract_first_json`, `outbound_operation_key`.
6. `TaskLifecycle` as an implementation of `CallQueue`.

## Running the checks

    tlc -workers 2 -config Calls.cfg MCTaskLifecycle
    tlc -workers 2 -config Delegation.cfg MCTaskLifecycle
    tlc -workers 2 -config Schedules.cfg Schedules
    tlc -workers 2 -config Worker.cfg MCRuntimeWorker
    tlc -workers 2 -config Web.cfg MCWebServer
    tlapm TaskLifecycle_proofs.tla
    tlapm TaskLifecycle_safety.tla
    tlapm TaskLifecycle_calls.tla
    tlapm TaskLifecycle_sessions.tla
    tlapm TaskLifecycle_contract.tla
    tlapm ControlPlane_proofs.tla
    tlapm RuntimeWorker_proofs.tla
    tlapm WebServer_proofs.tla
