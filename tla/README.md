# A TLA+ model of NomiFun's automation core

NomiFun is a local-first AI workstation: one Rust backend (`src/crates/backend`), a
React interface, a desktop shell and a web shell.  This directory specifies the part
of the backend that works without a user watching: **AutoWork**, which hands the
requirements of a tagged queue to agent sessions one after the other, the **Agent
Execution scheduler** that works off the plan of one such request, and the **input
queue** of the session that does the work, all over restarts, crashes, timeouts and user
stops.  The specifications are TLA+; TLC checks them on
small instances and TLAPS proves the main results for instances of any size.

`PROJECT.json` is the index: components, runs, the source lines each definition
models, the hazards of the code, the findings and the theorems.

## 1. Inventory

### The parts that are modelled

**Requirement queue** (`nomifun-db`: `sqlite_requirement.rs`, the triggers of
`001_canonical_baseline.sql`; `nomifun-requirement/src/service.rs`).
State: the tables `requirements` (status, tag, order, owner session, claim
generation, claim token, lease, attempt count) and `requirement_tags` (paused, by
which requirement).  Operations: create, edit, delete, claim, recover a claim, renew a
lease, resolve a claim, abandon it, park all claims of a session, sweep expired leases,
set a status, requeue, pause and resume a tag.  Hard: every statement may come from a
caller that lost its claim long ago; a lease that expires says nothing about whether the
work has stopped; nine triggers abort updates that break the protocol.
Correct when: no request runs twice without the user asking for it, a session works on
one requirement at a time, a claim given back stays dead, and no legal sequence of calls
leads to an update that a trigger refuses.

**AutoWork runner** (`nomifun-requirement/src/auto_work_runner.rs`).
State, in memory: one published loop per session (`handles`), one cleanup owner per
session (`cleanups`), a transition lock per session, the claim a loop has published.
Durable: the session's AutoWork config and its revision (`nomifun-agent-session`).
Operations: apply a config, stop the current claim, stop for a session delete, the loop
itself, the custodian of a dropped loop, the cleanup owner of a stopped one, the lease
sweeper, boot resume, process quiescence.  Hard: every `await` is a point where a
command, a user, the agent, another session, an abort, a panic or a crash can get in
between; waits have time limits, the work waited for has none.
Correct when: a session never has two workers, the running loop serves the persisted
config, a verdict reports what the execution did, a delete leaves nothing behind, and no
claim, stop or cleanup is left to nobody.

**AgentExecution** (`nomifun-agent-execution`: `scheduler.rs`, `scheduler_owned_jobs.rs`,
`scheduler_step_recovery.rs`, `attempt_runner.rs`; `nomifun-db`:
`sqlite_agent_execution*.rs`, `agent_execution_admission.rs`).
Owns the work on one request.  Durable state: the status and the lease of the Execution,
a DAG of Steps with versions, the Attempts of each Step with their review marks and
pending decisions.  In memory: one scheduling loop (a *generation*) that holds the lease,
and one retained job per Step that reserves, starts, delivers, observes and settles an
Attempt and may outlive the generation that started it.  Operations: acquire, renew and
release the lease, dispatch, reserve, start, deliver, settle, retry, skip, finalize;
pause, resume, cancel, stop a Step, retry a Step, answer a question; recovery of
Attempts nobody drives.  To the requirement queue only admission (fenced by the claim
columns), Attempt admission (fenced again), settlement, cancellation and recovery show.
Hard: writes of a generation that lost its lease, an Attempt whose delivery is uncertain
after a crash, a receipt that comes after its deadline, a start request that meets a loop
on its way out, slots that are given back by a question and taken again by its answer.
Correct when: a Step never has two native Turns at work, `max_parallel` is kept, verdicts
are what the Turns closed with, an ended Execution has nothing active, and an Execution
that may run always gets to an end or to its user.

**AgentSession input queue** (`nomifun-agent-session`: `session_input*.rs`,
`context_clear.rs`; `nomifun-app/src/router`: `session_input_intake.rs`,
`runtime_steering.rs`).
State: accepted inputs and what became of them, the queue state replayed from
`input-queue-changed` events (hold cutoff, released inputs, order, promotions,
replacements), the session head.  In memory: the drain task behind the session's
operation gate, the running Turn's inbox.  Operations: accept, replay, remove, clear,
reorder, pause, resume, promote, edit, stop before and after the claim, withdraw, clear
the context, drain, steer, block.  Hard: commands and stops do not take the gate that the
drain holds while it prepares files between two transactions.
Correct when: what the user holds does not run, what he orders runs in that order, an
edited input runs once, a command decided on an old view is refused, what is shown as
next is what starts, and no pending input is left without a task that will take it.

**AgentSession**, the rest (`nomifun-agent-session/src/store.rs`).  The event-sourced
session; of it the automation config with optimistic revisions and the delete fence.

How they interact: the user enables AutoWork for a session (route → `apply_config` →
config store → loop).  The loop claims a row, asks AgentExecution to admit an execution
for exactly that claim, waits for its receipt while renewing the lease, and projects the
receipt to a verdict on the row.  The executing agent may declare a verdict itself
through an MCP tool.  A user may stop the current claim (row first, then execution),
disable AutoWork, edit, requeue or delete requirements, resume a paused tag, or delete
the session, whose delete saga first fences the session and then calls the runner.
An Execution delivers the input of an Attempt to its session, whose Turn closes with a
receipt the scheduler observes; inputs of users and channels reach the same session
through its queue.

### Everything else

The other crates (cron, creation, knowledge, workshop, companion, channels, gateway,
realtime, voice, robot, ssh, terminal, mcp, office, browser and computer control, model
invocation, auth, system, file, the kernel and runtime of an agent turn, the shells and
the interface) are listed in `PROJECT.json` with the reason why they are not modelled.
Cron and creation have small protocols of their own and are candidates for later.

## 2. Modules

| Module | What it is |
|---|---|
| `RequirementQueue` | the durable queue; one action per SQL statement or transaction |
| `MCRequirementQueue` | symmetry for TLC |
| `RequirementQueueProofs` | theorems about the queue |
| `AutoWorkRunner` | loops, keepers, commands, coordinators and crashes, on top of the queue |
| `MCAutoWorkRunner` | symmetry for TLC |
| `AutoWorkRunnerProofs` | types of the runner, and that it implements the queue |
| `AutoWorkRunnerSafety` | theorems about workers, configs, verdicts and deletes |
| `SessionInputQueue` | the input queue of one session: clients, drain task, running Turn |
| `MCSessionInputQueue` | the module its runs check |
| `SessionInputQueueProofs` | theorems about what the input queue holds back and consumes |
| `SessionInputQueueOrder` | theorems about its order, its presentation and its drain |
| `TaskExecution` | what an Execution promises: Steps, verdicts, Turns, and nothing else |
| `AgentExecution` | one Execution: loop, lease, jobs, Attempts, recovery, user commands |
| `MCAgentExecution` | plans for TLC |
| `AgentExecutionProofs` | theorems about Steps, Attempts, slots and the end of an Execution |
| `AgentExecutionRefinement` | `AgentExecution` implements `TaskExecution` |
| `AgentExecutionSchedulable` | the scheduler never finds itself with nothing to do or to wait for |

`AutoWorkRunner` extends `RequirementQueue`: its durable steps *are* the queue's
actions.  So the queue is also the abstract specification of the whole: the run
`runner_delete` checks, and `RunnerImplementsQueue` proves, that whatever the
runner does is a behaviour of `Spec`.  The refinement mapping is the identity on the
queue's variables; its content is that every call of the runner meets the guard of a
statement and presents a claim that was really issued.

### RequirementQueue

| Variable | In the code |
|---|---|
| `row` | a row of `requirements`; `absent` before it is created, `deleted` after |
| `paused`, `pausedBy` | `requirement_tags.paused`, `.paused_requirement_id` |
| `live` | sessions whose `agent_sessions.state` is `live` |
| `claims` | for each requirement and generation, who holds the claim and the execution whose automation source names it |
| `runs` | history only: executions since the user last queued the row |

A claim token is a random blob, so it is represented by the generation it was drawn
for.  A lease matters only as unexpired or expired.  `Issued` is the set of claims ever
handed out; nothing is ever taken out of it, so a delayed, repeated or overtaken call of
any runner is simply a later action with an old member of `Issued`.  `voided` and `runs`
are history variables: no action reads them.

The triggers on `UPDATE` are the predicate `TriggersAllow`, which no action has as its
guard: that every update passes them is the property `UpdatesPassTriggers`.  The one
trigger that does abort a statement of the repository is the guard on the release of a
claim (`AbandonGuard`): `abandon_claim_before_admission_exact` does not look at
executions, so its `INSERT` either passes the guard (`AbandonClaim`) or is rolled back
with an error (`AbandonAborted`), and the runner issues both.  A trigger also compares the
lease with `active_turn_started_at`.  Leases are written as the current time plus a
positive `lease_ms` (120 s by default; zero is refused), not earlier than the claim that
set the start, so a lease that is there is later than the start as long as the clock is
not set back by more than a lease; under this assumption the condition is that an active
row has a lease, which `InProgressUpdate` asks for.

`LeadBusy` counts the executions of the queue.  The code refuses admission for any
unfinished lead Execution of the session, one the user started by hand too; such a
refusal is an error of the port, which the runner's `fault` covers.

Abstracted: titles, notes, display numbers, attachments, terminal owners (the service
refuses them), timestamps except the lease, `priority` and `created_at` as tie breakers
(the model leaves ties open).

### AutoWorkRunner

| Variable | In the code |
|---|---|
| `config` | the session's automation config and revision in the session store |
| `loop` | per instance: the task of `run_loop` with its locals, or the keeper that follows it |
| `handle`, `cleanup` | `AutoWorkRunner::handles`, `::cleanups` |
| `cmd` | the command that holds the session's transition lock, and how far it is |
| `host` | sweeper, boot resume, execution recovery, cancellations in flight, crashes; `cut`, history: sessions whose disable was committed but not carried through |

One step is at most one call to the database or to the execution port, so all
interleavings at `await`s are explored.  The task, its custodian and its cleanup owner
exclude each other by the join and the cleanup barrier, so they share a slot of `loop`
and `role` says who is at work.

| Code | Actions |
|---|---|
| `run_loop` | `LoopBegins`, `ListCancelled`, `PurgeCancelled`, `ClaimNext`, `PublishClaim`, `JudgeReceipt`, `TurnEnds`, `FinishCancelled`, `CapReached`, `TaskReturns` |
| `execute_requirement` | `Admit`, `AwaitReceipt`, `RenewTick` |
| `resolve_claim_verdict_required` and callers | `PauseForAttention`, `ReleaseClaim`, `WriteVerdict`, `ConfirmVerdict` |
| `HandleGuard::drop`, abort, panic | `DropTask` in `TaskReturns`, `AbortLands`, `TaskPanics`; `CustodianBegins` |
| `cleanup_stopped_handle`, `cleanup_abandoned_loop_claim` | `CleanupBegins`, `KeeperRecovers`, `KeeperCancels`, `KeeperEnds` |
| `apply_config`, `stop_locked`, `start_snapshot_locked`, rollback | `ApplyConfig`, `Quiesce`, `CleanupJoined`, `WaitTimesOut`, `SaveConfig`, `ResumeForEnable`, `StartFound`, `LaunchLoop`, `RollBack`, `ReplyError`; `RequestDropped` |
| `stop_for_session_delete` | `DeleteBegins`, `DeleteTakes`, `DeleteJoins`, `DeleteParks`, `DeleteCancels` |
| `start_sweeper` | `SweeperCollects`, `SweeperSweeps` |
| `stop_current_claim` | `StopCurrentClaim`, `CancellationEnds` |
| restart, `resume_binding_if_current`, `AgentExecutionEngine::recover` | `Crash`, `ResumeBinding`, `RecoverExecution` |
| the agent's declaration tool | `AgentDeclares` |
| users, executions and clocks acting on the queue | `QueueEnvironment` |

`Explored` selects the user commands and faults of a run: `enable`, `disable`, `stop`,
`delete`, `declare`, `requeue`, `resume`, `retag`, `remove`, `timeout` (waits give up),
`panic`, `drop` (the client of a config request goes away), `config fault` (a call that
reads or saves a config may fail), `fault` (any database or port call may fail, with or
without effect where the code cannot tell).  The theorems hold for every value of `Explored`.

Abstracted: the wake notification and the failure backoff (both only delay the next
claim), progress events, attachments and the prompt, the `completed` counter of a loop
without a maximum, the tag a disabled config may keep.  `apply_config`'s
`expected_revision` and `operation_id` are `None` in its only caller and left out;
`start` and `stop` have no caller outside tests.

`apply_config` is awaited in its request handler (`routes.rs`), whose future goes away
with the client: `RequestDropped` ends such a command at any of its awaits, and its lock
is free again.  The other commands are not dropped: the delete saga runs in a spawned
task (`nomi_core_session.rs:17066`), boot resume in a coordinator, cleanup owners and
custodians are spawned.  A request to stop the current claim that is dropped between its
two halves is not an action of its own; it leaves what a failing cancellation (`fault`)
leaves.  A graceful `quiesce` aborts loops
without cleanup, which for everything durable is a crash between the same two steps.

### SessionInputQueue

| Variable | In the code |
|---|---|
| `accepted`, `source`, `prefers`, `fate`, `blocked` | the `message/user-accepted` events, their delivery intent, and the events that settle or block them |
| `queue` | `QueueState` after the replay of the `input-queue-changed` events |
| `head`, `unsettled`, `busy` | `agent_session_heads`, pending effects, the runtime registry |
| `drain`, `wakes`, `retry` | the drain task that holds the operation gate with what is left of its batch, those that wait for it |
| `left` | history: what drains that failed or used up their batch left behind since the last scheduled one |
| `steerRetry` | the inbox of the running Turn |
| `view` | what a client read and whether `expected_version` would still be accepted |
| `line`, `userHeld`, `lineage` | history: what the user asked for, read by no action |

| Code | Actions |
|---|---|
| `accept_session_input`, replay of a key | `Accept`, `Replay` |
| `update_session_input_queue` | `Remove`, `ClearQueue`, `Reorder`, `Pause`, `Resume`, `Promote`, `Replace` |
| `stop_composer_source`, `cancel_composer_turn`, domain cancel, withdrawal, `clear_context` | `StopInput`, `StopTurn`, `CancelTurn`, `WithdrawRobot`, `ClearContext` |
| `drain_session_inputs` | `DrainStart`, `DrainRetry`, `DrainSelect`, `PrepareFails`, `PrepareStopped`, `ClaimRoot`, `ClaimRefused`, `Delivered`, `DeliveryFails`; cut short by `StartFails`, `DrainFails`, `DeliveryErrs`, `BatchEnds` |
| `runtime_steering` | `Steer`, `SteerBlocked` |
| the Turn and its relay | `EndTurn`, `RelayReleases`, `TurnPauses`, `TurnResumes`, `EffectUncertain`, `Reconcile` |
| restart | `Restart` |

The user's wishes are kept apart from the queue state (`line`, `userHeld`, `lineage`), so
that the properties compare two things that are computed differently.  An input is its
place in acceptance order; a body, its files and Skills are only prepared or not.
A drain reads at most `BatchLimit` inputs (64 in the code), and every `?` in it ends it
with a warning and wakes nobody.  The inputs it has not come to then wait for the next
accepted input, command, end of a Turn or restart, although the session is ready; `left`
names them, and `NoStrandedComposer` says that no other composer waits so.  `left` is kept
until a scheduled drain starts, not until the next drain: one that a replay asks for may
have its claim refused, since a blocked input of the batch is not looked at again by the
claim, and then leaves the same inputs.
Abstracted: replays of API commands by their idempotency key, a Stop that comes after
its Turn (both change nothing), a head in `failed`, and `reply_to`, which keeps an input
from being steered as another source does.

### AgentExecution and TaskExecution

| Variable | In the code |
|---|---|
| `exec`, `lease`, `live` | `agent_executions.status`, `lease_owner`, whether `lease_expires_at` is ahead |
| `step`, `backoff`, `stopped` | `agent_execution_steps.status`, `dispatch_after`, the `cancel_step` events |
| `att` | the Attempts of a Step: status, review mark, pending decision, native Turn |
| `loop` | the generation: phase, `restart_requested`, `in_flight_step_ids` of the pass |
| `job` | `step_jobs`: phase, bound Attempt, and what it can tell from the Step version |

| Code | Actions |
|---|---|
| engine commands | `Pause`, `Resume`, `Cancel`, `CancelStep`, `Retry`, `Answer` |
| `acquire_lease`, heartbeat, release, expiry | `Acquire`, `Heartbeat`, `Depart`, `LeaseLapses`, `OldLeaseLapses` |
| `process_one_pending_conversation_effect` | `AdmitDecision`, `DeliverDecision` |
| `recover_interrupted_scope` | `RecoverAttempt`, `RecoverDone` |
| `execute_loop` | `SkipBlocked`, `Dispatch`, `AwaitJobs`, `Finalize`, `IdleExit`, `LoopAborts`, `LoopFails`; `fail_if_active`: `FailIfActive` |
| `execute_agent_step_admitted` | `Prepare`, `PrepareFails`, `Admit`, `AdmitReplyLost`, `AdmitRefused`, `Begin`, `LinkFails` |
| `attempt_runner` | `Deliver`, `Observe`, `Deadline` |
| `settle_agent_outcome` | `SettleEnds`, `SettleUnarmed`, `SettleStale`, `Settle`, `SettleSuspended` |
| `recover_failed_step` | `RecoverGivesUp`, `RecoverAdopts`, `RecoverFailsStep`, `RecoverUnarmed`, `RecoverResumes`, `RecoverReceipt` |
| process, native session | `Crash`, `Boot`, `TurnCloses`, `TurnSuspends`, `TurnGoesOn`, `Cleanup` |

One transaction is one action; a job's read and the write that follows it are two
wherever another writer can come between and the write compares nothing that would tell.
Step versions are not counted: a job only ever asks whether the Step changed since it
read it (`stale`) or how often it changed since its reservation (`res`).  A data directory
belongs to one process, held by a file lock, so there is one process, which may crash and
start again; an expired lease shows a second generation beside the jobs of the first.

`TaskExecution` is the abstract specification: a Step is picked when its blockers are
done, worked on by at most one Turn, asks, and gets one verdict; a success is reported
only when no Turn is at work; the user holds, releases, stops, cancels or redoes, and the
whole may be given up as failed, which stops everything without a verdict.
`AgentExecution` implements it under the mapping at the end of the module (`Tasks ==
INSTANCE TaskExecution WITH …`): `mode` from `exec`, `work` from `step`, `picked` from the
jobs and reservations that stand for a Step, `turns` from the native Turns at work.
Leases, generations, Attempts, crashes and recovery have no counterpart there, so each of
their steps has to look like a task step or like nothing.

An error the loop cannot recover from (`LoopFails`; `ensure_work_dir` can raise one in
any pass that dispatches) fences the jobs and then ends the Execution as `failed`,
together with all its open Steps, in one write (`FailIfActive`), provided the lease still
stands and the Execution is not paused.  `LoopAborts` is the recoverable kind, which asks
for another generation.

Left out of `AgentExecution`: the restart of a Step (`restart_step.rs`,
`sqlite_agent_execution_restart.rs`), which cancels the Attempt and leaves the Step
running until its Turn is reconciled, so that `StepMatchesAttempt` holds of the other
writers only, and with it the `pending_step_restarts` that keep `Finalize` and `IdleExit`
waiting; planning, replanning, delegation and continuations;
control Steps and their loop resets; steering and stopping a Turn through the Execution;
the proof of a native pause's cleanup and the slot a parent gives up while it waits for
children; per-participant limits; templates; deletion; a receipt whose identity is
missing or ambiguous, which blocks the Attempt for review where `Reconcile` delivers
again.  A settlement that meets a write conflict ends its job and leaves the Attempt to
the next pass; the model hands the job to recovery, which comes to the same Attempt.
`fail_unschedulable` is no action
but a property (`AlwaysSchedulable`).  The code takes ready Steps in order of creation,
the model in any order.

## 3. Runs

| Run | Checks | States | Bounds |
|---|---|---|---|
| `queue_generations` | `TypeOK`, `AtMostOneRunPerQueueing`, `AbandonedClaimNeverRuns`, `AttemptBudget`, `ClaimLedger`, `UpdatesPassTriggers` | 948 k | 1 requirement, 3 generations, 2 sessions |
| `runner_config` | `RunnerTypeOK`, `OneWorkerPerTarget`, `RunningMatchesConfig` | 2.9 M | 2 tags, cap 1, 2 revisions, timeouts, panics, dropped requests, failing config calls, 1 crash |
| `runner_delete` | `DeleteLeavesNothingRunning`, `VerdictMatchesExecution`, `Spec` | 2.2 M | 2 tags, 2 generations, requeue, delete with retag, removal, faults, timeouts, panics, 1 crash |
| `runner_recovery` | `CleanupCompletes`, `ClaimNeverStuck`, `StoppedExecutionEnds` | 114 k | cap 1, stops, disable, dropped requests, 1 crash, fairness |
| `runner_keeps_claiming` | `KeepsClaiming` | 193 k | 2 requirements, stops, declarations, panics, fairness |
| `session_inputs` | `TypeOK`, `HoldsWhatTheUserHeld`, `ComposerOrder`, `PresentationMatchesDispatch`, `ViewIsCurrent`, `EditedInputRunsOnce`, `NoStrandedComposer`, `SettledIsFinal` | 5.2 M | 3 inputs, batches of 2, 3 commands or faults, 2 waiting drains |
| `execution_safety` | `TypeOK`, `OneTurnPerStep`, `ParallelLimit`, `VerdictMatchesTurn`, `TerminalIsQuiet`, `RefinesTasks` | 1.8 M | 3 Steps (two dependent), 1 slot, 2 Attempts, 1 command, 1 fault, no automatic retry |
| `execution_settles` | `StepMatchesAttempt`, `AlwaysSchedulable`, `ExecutionSettles`, `AnswersDelivered` | 176 k | 2 dependent Steps, 1 automatic retry, 2 commands, 1 fault, fairness; no refused delivery |

**Why the bounds are enough.**  A stale call needs an older and a newer generation;
three give room for one more in between (abandoned, then run, then late).  Two loop slots suffice to see a
second worker for a session: the property fails with the second one, and a third cannot
start without it.  Two config revisions cover enable–change and enable–disable races.
One crash at every possible point, because nothing in memory survives and the durable
state is again one of those explored.  An order needs three inputs to be wrong in an
interesting way (one in front, one edited, one behind), and an edit uses up one.  Three
commands or faults give pause–edit–release and stop–edit–reorder.  Two Attempts show a
Turn of the first beside one of the second; three Steps with one dependency show
dispatch, skipping and competition for the only slot at once.  Without automatic retries
a Turn that closes as failed and one whose receipt is missing end a Step alike, so
`execution_safety` has only the latter; `execution_settles` has both, with a retry (that a
retry too is a step of `TaskExecution` is part of the theorem `Refines`).  Batches of two
with three inputs make the cut of a batch happen.  One fault at every point,
since a second crash finds a durable state that one crash already produced, or one that
differs only in the number of Attempts.  Deadlock is checked in the queue's and the
runner's runs (the sweeper and the clock always have a next step, so a stuck loop shows
as a liveness violation).  A session with no inputs left and an Execution that has ended
really stop, so those runs do not check it; `NoStrandedComposer`, `AlwaysSchedulable`
and `ExecutionSettles` say instead that they stop nowhere else.

**Fairness** (`RunnerFairness`) is what tokio and the code's timers give: a spawned task
is polled until it ends, an abort lands at the next await, the `select!` in
`execute_requirement` is unbiased so renewals do not starve the receipt, a command that
holds its lock goes on unless its request is dropped, a lease nobody renews runs out, the sweeper ticks every
minute, spawned cancellations and boot recovery end.  Users, executions, panics, faults
and crashes are under no obligation.  In particular no execution has to settle, and
`ClaimNeverStuck` says nothing about a claim whose execution is still running.

The fairness of `AgentExecution` (`Fairness`) follows the same reading of tokio: the loop
and every retained job are polled (`WF` of `LoopStep`, of each `JobAdvances` and
`JobAsks`), the heartbeat renews and a dead generation's lease runs out, a dead process is
started again, the cleanup outbox cancels the Turns of finished Attempts.  `SF` of
`DispatchSome` says that a Step whose retry time comes is dispatched: the loop meanwhile
wakes for every renewal, which makes the dispatch enabled again and again, never
continuously.  `SF` of `TurnCloses` is the one assumption about the outside: a native
Turn that is at work often enough closes (its model budget and timeouts are the
session's).  Users owe nothing, so both properties allow for a question nobody answers
and an Execution nobody resumes.  Three cases are left out of `execution_settles` because
the code does not settle there: `hard` and `retry`, and a lease that runs out under a loop
that has failed, which takes two faults (section 4).

**Mutants.**  Each property has a faulty variant of one definition that breaks it (the
operators marked "Faulty variant"): a sweep that requeues expired claims, a fence that
looks only at the generation, a park that drops the claim's identity, a stop that does
not wait for the earlier cleanup, a recovery that forgets cancelled sources, an edit that
loses its hold, a refused claim that is taken for granted once its files are prepared, a
retry that does not look for an unresolved Turn, a capacity check that is one too
generous, a generation that lost its lease and asks for no successor, and so on.

## 4. What the code does not do as documented

Four runs are expected to be violated.  Each states what a comment, a document or a
test of the repository says.

| Run | Property | What TLC finds |
|---|---|---|
| `stopped_successor` | `NoSuccessorWhileStoppedLives` | after a restart, a stop between the loop's scan and its claim lets a successor be claimed while the stopped execution lives |
| `stranded_input` | `NoStrandedInput` | a Stop of a composer input that is being prepared wakes nobody, and the drain gives up; a channel input behind it stays pending in a ready session |
| `blocked_answers` | `AnswersDelivered` | with one slot, two answered questions each hold the slot the other needs; both stay `waiting_input`, nothing runs |
| `twin_reservations` | `OneActiveAttempt` | a crash leaves three reservations; the boot pass and the next one take up one each, and the dispatch after them gives the third Step a second Attempt beside its reservation |

The last one matters beyond the document it contradicts ("Each dispatch rechecks
dependencies, Step version, active Attempts").  `recover_interrupted` retains one queued
reservation and returns; `ready_steps` looks at the Step's status and `create_attempt` at
its version and the capacity, neither at active Attempts.  The older reservation can then
neither start nor end: recovery takes it up in every pass, and the Execution does not
become terminal.  No Turn runs twice (`OneTurnPerStep` is proved).

Smaller remarks, without a run of their own:

- A reconfiguration (`apply_config`) first takes the old loop's handle; when its cleanup
  outlasts `STOP_WAIT_TIMEOUT` the command fails before anything is saved, so the old
  binding stays enabled without a loop until the next enable or restart.
- `StoppedExecutionEnds` needs the port to answer: with `fault` added to its run, a stop
  whose cancellation fails and a following disable whose cleanup fails to cancel as well
  leave the stopped execution running until a restart or a later loop of the same tag.
- `pause_tag` does not look the requirement up, so one deleted between the verdict and
  the pause leaves `paused_requirement_id` naming no row.
- `set_status` is documented to reject transitions out of a terminal state including
  `failed`; it lets `failed` go back to `pending`, which the tests rely on.
- The admission fence asks for a status other than `cancelled`, not for `in_progress`:
  the execution of a parked row may go on and admit Attempts.
- Enabling AutoWork on a paused tag parks the active claims of *other* sessions in it.
- A session delete repeated after its barrier timed out no longer finds the handle and
  does not wait for the custodian; the custodian then has nothing left to settle.  This
  is why `DeleteLeavesNothingRunning` speaks of loop tasks and executions.
- The delete saga cancels the executions of rows in `needs_review` only.
- A claim whose execution was cancelled before its first Attempt is handed to
  `release_claim_exact`, which refuses as soon as an execution exists; the claim always
  goes to `needs_review` and keeps its attempt, although `stop` ("releases the in-flight
  claim (if any) back to `pending`") and `UserInterrupted` ("the claim released without
  consuming an attempt") promise otherwise.
- A disable that ends between its save and its stop, because the re-read of the config
  fails or the client goes away, leaves the loop claiming for a disabled session.
  `RunningMatchesConfig` makes this one exception (`cut`), and only for a disabled config:
  enabling again finds the loop that fits and keeps it, with the revision it had, so that
  its completion cap can no longer be persisted (`MayCommit` refuses).  That last part
  takes three revisions and is covered by the theorem, not by the run.
- An enable that ends so between its save and its start leaves an enabled config without a
  loop until the next enable or restart.  The comment at `rollback_failed_enable_locked`
  says that REST never returns an error while leaving such a binding; the `?` on the
  re-read does.  `runner_keeps_claiming` therefore has neither failing calls nor dropped
  requests.
- When `fail_if_active` finds its lease expired it writes nothing
  (`SchedulerFailureAuthority::Exit`) and asks for no successor: the Execution stays
  `running` without a loop until a command, a retained job or the next start asks for one
  (`ExecutionSettles` fails with two faults).  The same holds when its own read fails.
- `update` may change the tag of an `in_progress` row.  After a restart the session's
  loop cannot recover the row (recovery asks for its own tag), cannot claim another (the
  claim refuses an owner with an active row in any tag), and the sweeper skips owners
  with a loop: the session is blocked (`KeepsClaiming` fails with `retag` and a crash).
- A job re-reads its own Step before it reserves, not its blockers: a blocker that the
  user retries in between is pending again while the blocked Step starts.  A Step that is
  blocked while it has an active Attempt cannot be skipped either, and the loop ends and
  starts over until the Attempt is settled.
- A failure before admission that cannot be repaired is written with the lease the job
  captured; after a change of generation the write is refused again and again, and the
  Step stays pending until a restart.
- Retry sets the Execution to `running` also when it was paused or waiting; recovery can
  leave it in `waiting_input` when nothing waits any more.
- A queued input that becomes eligible for steering, and falls back, changes its
  placement without a new version of the queue; only the placement is affected, which no
  command depends on.  Steering takes inputs in acceptance order, not in the user's.

## 5. Proofs

Assumptions: `QueueAssumption` and `RunnerAssumption`: sort keys and maxima are
naturals, at least one generation and one Attempt, the outcomes are the four the port
reports, `None` is not an id.  Nothing is assumed about the size of any set, nor about
`Explored`.

**The queue** (`RequirementQueueProofs`).  The inductive invariant is
`QueueInv == TypeOK /\ ClaimLedger`.  `AtMostOneRunPerQueueing` is not inductive: that a
late admission does not start a second run depends on the current claim having none
since the row was queued as long as its own execution is absent
(`NoRunBeforeAdmission`); that in turn needs pending rows to carry no token and no runs
(`PendingRow`), future generations to be untouched (`UnusedAhead`), active rows to
belong to the holder of their generation (`ActiveRow`) and abandoned generations to be
behind the row (`AbandonedBehind`).  `RowLedger` is a predicate of one row, its claims
and its run count, so the proof first shows what each write does to one row
(`ClaimedRow`, `AbandonedRow`, `RequeuedRow`, …), lifts that to the tables
(`RowByRow`, `OneRowStep`), and then goes through the actions.

- `TypeCorrect`, `LedgerAgrees`: the two halves of the invariant.
- `NoSecondRun`: `Spec => []AtMostOneRunPerQueueing`.
- `AbandonedStaysDead`: `Spec => []AbandonedClaimNeverRuns`.
- `SingleActiveClaim`: `Spec => []OneActiveClaimPerOwner`, from the lemma that only a
  claim makes a row active (`OnlyClaimsActivate`).
- `UpdatesAreLawful`: `Spec => UpdatesPassTriggers`.  The triggers are no guards of the
  actions; that a release returns only claims without an execution comes from the guard
  table, all else from the fences of the statements and `QueueInv`.
- `BudgetKept`: `Spec => []AttemptBudget`.  The generations given back are a finite set
  of numbers up to the row's generation; a claim adds one generation and one attempt, an
  abandon moves one from the count to the set.

**The runner as a user of the queue** (`AutoWorkRunnerProofs`).  The inductive invariant is
`RunnerInv == QueueInv /\ RunnerTypeOK`.  Types alone would not do: that a verdict is a
step of the queue requires the claim a slot works on to be issued, so `RunnerTypeOK`
says at which steps a slot has a claim, that everything published, listed or scheduled
for cancellation is issued, and that a command about to start a loop knows its tag.
`IssuedGrows` carries it over every step, `RunnerRefines` maps each step to a queue step,
and `LoopStepInv`, `CommandStepInv`, `HostStepInv` preserve it slot by slot.

- `RunnerTypeCorrect`: `RunnerSpec => []RunnerTypeOK`.
- `RunnerImplementsQueue`: `RunnerSpec => Spec`.
- `RunnerNoSecondRun`, `RunnerSingleActiveClaim`, `RunnerAbandonedStaysDead`,
  `RunnerBudgetKept`, `RunnerPassesTriggers`: the queue's results, for the queue driven
  by the runner.

**The runner itself** (`AutoWorkRunnerSafety`), on top of `RunnerInv`.

- `OneWorker`: `RunnerSpec => []OneWorkerPerTarget`.  Inductive: `WorkerInv`.  Nothing in
  the code counts workers; what excludes a second one is that every unfinished instance
  has an owner (`Attended`): the session's handle, its cleanup entry, or, for a deleted
  session only, nobody (`Stray`), and that a command comes to `publish` only with both
  entries empty (`OwnerInv`).  `SlotInv` adds that a custodian is spawned once and that a
  cleanup owner at work is the one its session waits for.  Most steps leave all of this
  alone (`Onward`, `SameWorker`), so only the dozen that move ownership are looked at one
  by one.
- `LoopMatchesConfig`: `RunnerSpec => []RunningMatchesConfig`, with failing calls, dropped
  requests, panics and crashes.  It follows from `BindingInv`: while no command has begun
  to replace it the published loop fits the config, and a command about to start a loop
  carries the config as saved.  When a disable was cut short the config may be disabled,
  or saved again unchanged under a later revision, and that is all (`Fits`).
- `ReportsAreTrue`: `RunnerSpec => VerdictMatchesExecution`, from `ReceiptInv`: a receipt
  that says completed or failed is that of the claim at hand, an execution that has
  settled stays so (`History`), and the receipt is gone before the next claim.  The
  queue's own statements, of users and of the sweeper, write no verdict (`NoVerdict`).
- `DeleteIsThorough`: `RunnerSpec => DeleteLeavesNothingRunning`, from `DeleteInv`: after
  the park the session owns no claim, and parked claims that still run are among those
  the command has yet to cancel.  That the park sees all of them needs `WorkerInv` (no
  task of the session is left) and that a fenced session gets no new claim.

**AgentExecution** (`AgentExecutionProofs`).  Assumptions: `ExecutionAssumption` (a finite
set of Steps, at least one slot, limits are naturals).  The inductive invariant is
`StepInv`, a predicate of one Step, its Attempts and its job (`Local`): earlier Attempts
are over and have no Turn at work (`Old`), the newest agrees with the Step (`Entry`), and a
job whose `stale` is unset still finds what it read (`Backs`); a job that lost its Step to
another writer may believe anything, so nothing is claimed of it.  `OneTurnPerStep` and
`StepMatchesAttempt` are then consequences, neither of which is inductive alone: a late
write by a job of a dead generation is harmless only because `stale` is set by every write
that could invalidate it.  The actions are reduced to what they do to one Step
(`Rewrites`, `Sheds`, `TakesSlot`), then to the tables.

- `TypeCorrect`, `OneTurn`, `StepAgrees`, `VerdictTrue`: from `StepInv` (`RestType` for
  the variables that belong to no Step).
- `EndIsQuiet`: `Spec => []TerminalIsQuiet`.  Cancel and an error of the loop end an
  Execution with its open Steps (`EndsOpen`); completion relies on the loop having seen every Step that
  a job works on (`SeenAll`) and on recovery having left no reservation (`NoneLeft`).
- `SlotsLimited`: `Spec => []ParallelLimit`.  The property counts Steps with a slot; the
  inductive form counts places, pairs of a Step and an Attempt number (`Limited`), since a
  Step may hold two reservations (`twin_reservations`).
- `Refines` (`AgentExecutionRefinement`): `Spec => RefinesTasks`, one lemma per group of
  actions (`RefFails` for the end by an error).  With `StepInv` the Turns of a Step are the one of its newest Attempt, if that
  is at work (`TurnCount`), so each detailed step is described by what it does to status,
  newest Attempt and job of one Step.
- `Schedulable` (`AgentExecutionSchedulable`): `Spec => []AlwaysSchedulable`.  Recovery
  leaves no running Attempt that no job drives (`NoneLost`); then, of the Steps still open,
  one has no open blocker, which is `PlanAssumption`: `validate_dependency_graph` and
  `plan_materializer` reject a plan with a cycle before it is stored.

**The input queue** (`SessionInputQueueProofs`).  Assumption: `InputAssumption` (the
bounds are naturals).  The inductive invariant is `InputInv`.  That the hold is the
user's is not inductive by itself: a new input is not held only because neither the
cutoff nor the sets of released, replaced and user-held inputs name one that is still to
come (`Named`), and an input to come has no fate yet (`Arrivals`); that an edit does not
run beside its original needs lineages that point backwards (`Lineages`).  The proof
sorts the actions by what they do to these facts: those that only settle pending inputs
(`Settling`), those that leave them alone (`Unchanged`), those that move the hold
(`Holding`), and the two that add an input (`AcceptInv`, `ReplaceInv`).  Nothing is
needed about sorting, batches or the client's view, so the results hold whatever the
drain has read.

- `HoldIsTheUsers`: `Spec => []HoldsWhatTheUserHeld`.
- `EditsRunOnce`: `Spec => []EditedInputRunsOnce`.
- `NoSecondConsumption`: `Spec => SettledIsFinal`.

**The order of the input queue** (`SessionInputQueueOrder`), on top of `InputInv`.  The
model sorts by counting predecessors, so the first part is about that: of a finite,
totally ordered set every member has its own place (`Counting`, `Placing`), and filling
the composers' slots with another permutation (`QueueState::sort`) keeps every input once,
puts the composers in that permutation, leaves the inputs of other sources in their slots,
and behind a composer's slot no other source is ahead, by position, of all the composers
still to come (`Filling`, `SortedWell`).  Everything else uses these facts and not the
definition of the sort.

- `InputTypes`: `Spec => []TypeOK`.
- `ShownIsNext`: `Spec => []PresentationMatchesDispatch`: the presentation's root and the
  head of the drain's batch are the same input, computed by two routes (`SortedHead`).
- `ComposersAreServed`: `Spec => []NoStrandedComposer`.  The inductive invariant is
  `CoverInv`: with no drain scheduled and composers that may start, either all of them
  were left behind (`left`), or the session could start nothing, or the drain in progress
  still has exactly the eligible inputs in an order that is still the user's (`Fresh`).  A
  command makes the batch stale but schedules a drain; without one the batch is fresh, and
  the claim of a fresh batch's head is never refused (`FreshClaim`).  `TaskInv` says that no runtime and no other Turn comes
  between the drain's start and its delivery.
- `UsersOrderIsKept`: `Spec => []ComposerOrder`.  The inductive invariant is `Orderly`:
  positions never exceed the input's own number and differ between pending inputs, the
  permutation names accepted inputs once, and the line of the user agrees with the sort.
  That positions differ is what makes an edit safe: the new input ties with nobody.
- `FreshViewIsTheQueue`: `Spec => []ViewIsCurrent`.  Every step either makes a view stale
  or leaves the listing as it was; the one that takes work is the acceptance of another
  source's input, which does not move the version: it comes last by position, so the root
  shown stays the root (`SnapshotAccept`).

`SingleActiveClaim` and `RunnerSingleActiveClaim` have no run of their own: the theorem
covers every instance, and the property they state (`OneActiveClaimPerOwner`) is defined
in `RequirementQueue`.

**Only model-checked**: all liveness properties (`ClaimNeverStuck`, `CleanupCompletes`,
`StoppedExecutionEnds`, `KeepsClaiming`, `ExecutionSettles`, `AnswersDelivered`): fairness
and `ENABLED` are out of the prover's reach.  Every invariant and every action property of a passing run is a theorem.

## 6. Plan

1. **More of AgentExecution**: the restart of a Step, control Steps and loop resets, waits for children and the
   slots they give up, participant limits.
2. **Cron and creation**, if their protocols turn out to reach further than a test.

### Not modelled

The repository has some 920 000 lines in 1 577 files, most of them adapters (models,
channels, browser, terminal, office, voice), content pipelines, routing, storage mapping
and user interface.  The modules here cover the automation core, a small share of those
lines, and the map names only lines that a definition translates.  A model of the other
parts would either be of input and output, which a model checker says nothing about, or
of protocols of their own that share no state with this core; `PROJECT.json` lists them
one by one.

## 7. Running

    tlc -config RunnerConfig.cfg MCAutoWorkRunner
    tlapm AutoWorkRunnerProofs.tla

`Queue*.cfg` belongs to `MCRequirementQueue`, `SessionInputs.cfg` and `StrandedInput.cfg`
to `MCSessionInputQueue`, `Execution*.cfg`, `BlockedAnswers.cfg` and
`TwinReservations.cfg` to `MCAgentExecution`, all others to `MCAutoWorkRunner`.  No run takes more than about three
minutes on two cores; the proofs take some ten minutes.
