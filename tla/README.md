# Desktop Worker in TLA+

Desktop Worker lets an AI operate a Windows desktop: a planner (Claude, through
its command line) proposes one action at a time, an executor performs it, the
screen is observed again, and people watch from a control window that can stop,
pause and approve. An external agent can drive the same desktop through an MCP server, scripted
workflows run on the same executor, and an evaluation suite scores the whole. What has to be
right under concurrency and failure sits between these parts: the emergency stop, the task
loop, the approval handshake, the window's threads, the broker that runs commands, the bridge
to the agent, the planner's exchange with Claude, the workflows and the evaluation runner.
This directory specifies those parts, model-checks them, and proves their main properties.

All source paths below are relative to `src/src/desktop_worker/`.

## Running

    tlc -workers 2 -config MCTaskLoop.cfg MCTaskLoop      # any MC*.cfg with its module
    tlapm TaskLoopProofs.tla                              # any *Proofs.tla

Each `MCx.cfg` belongs to `MCx.tla`. `MCApprovalQueueShown.cfg` and `MCEvalRunnerLeftover.cfg`
use the module of the same prefix and end with a counterexample (see *Findings*).

## Inventory

| Component | State it keeps | Operations | Talks to | Hard behaviours | What makes it correct |
|---|---|---|---|---|---|
| Emergency stop (`safety/emergency_stop.py`) | two events per process, one sentinel file for all | stop, clear, pause, resume, is_stopped, check | called by every thread that acts, by the window, by `estop`/`clear-stop`, by the MCP server | no lock; file writes fail; several processes; restarts | a stop is heeded by every later look, in every process; a pause does not hide it; clear() clears |
| Task loop (`loop/task_loop.py`) | counters, history, records | run | planner, executor, observer, perceiver, stop, audit | stop and clock move between any two steps; two nested recovery loops | bounded work, unsafe actions once, limits take effect, truthful report, it ends |
| Action executor (`actions/executor.py`) | `_in_tool` | execute | stop, policy, broker, tools, input backend, audit | shared by the window's task threads; approval may take minutes | nothing runs unapproved or dry; a stop ends what runs; the nesting flag is freed |
| Permission policy and profiles (`safety/policy.py`, `safety/profiles.py`) | threshold, lists, approver | classify, requires_approval, authorize | executor, broker, tools | calls out to a person | deny by default at or above the threshold |
| Approval queue (`ui/controller.py`) | request, decision, event, semaphore | request, pending, resolve | task threads, window | three synchronisation objects, timeouts, clicks at any time | one open request; an answer belongs to its request; a click wakes |
| Control window (`ui/app_tk.py`, `__main__.py`) | what the bar shows; task threads | Run, STOP, Clear Stop, Pause, Resume, Approve, Deny, refresh | everything above | several tasks at once, stale buttons | approvals reach the right task; STOP ends tasks |
| CLI broker (`broker/cli_broker.py`, `broker/elevation.py`) | counter, session rules, history | run, launch, allow_for_session, preview | policy, elevator, files, audit | elevation can fail half-way, output files can fail, restarts | no unapproved high-risk start, no second start, honest records, outputs kept apart |
| Risk classifier (`broker/risk.py`) | none | classify_command | broker | text patterns | - |
| Input backends (`actions/backends.py`, `actions/windows_input.py`) | mouse buttons and keys held | move, click, drag, stroke, type, hotkey, clipboard | the desktop | interrupted between down and up | what is pressed is released |
| Tools (`tools/`) | registry | risk_of, run | broker, input, stop, workflows | sub-actions of one action | each sub-action looks at the stop; allow and deny lists hold |
| Claude planner (`loop/claude_cli_planner.py`) | last outcome, pictures used, prompt files | next_step, replan | broker, audit | output through numbered files; unusable answers | an answer is the answer to this question; failures are reported as such |
| Perception (`perception/`) | element cache of backends | perceive | OCR, UIA | merging and ranking two sources, two caps | what is left out is reported as left out |
| Observation (`observation/`) | file counter | observe | desktop, files | shared by two tasks | a reference names this observation |
| MCP bridge and server (`mcp_server/`) | nothing between calls | perceive, screenshot, act, act_many, click_element, stop tools | executor, perceiver, stop | the screen and the stop move during a call | a click goes where its id was seen; a batch stops at failures and reports what was done; a cut list says so |
| Orchestration (`orchestration/`) | plan, reports | plan, implement, audit, classify | role calls to Claude, task loop | answers that fit no schema | an audit that cannot be read fails |
| Evaluation (`eval/`) | budget, results, summaries | run suite, set up, run, probe, judge, reset | bridge, loop, stop | resets and set-ups fail; one budget for all cases; a probe that sets and clears the stop | scores count what ran; a pass is earned; the budget bounds the run; a stop ends it |
| Audit log, report, retention (`audit/`) | the JSON-lines file, session directories | record, read_all, summarise, prune | everyone | concurrent appends and a reader; pruning of live sessions | readable by line; the current session is kept |
| Drawing director (`drawing/`) | figure, round | draw, look, correct | geometry, planner | a correction that is worse | one refinement at most |
| Geometry (`geometry/`) | none | parse, fit, render, preview | drawing, tools | floating point | strokes stay on the canvas |
| Workflows (`workflows/`) | none | file dialog, browser, desktop file, downloads, windows | executor, input backend, desktop | other windows and programs come in between | success means that the text arrived; nothing stays pressed |
| Schema, configuration, command line (`schema/`, `config.py`, `app.py`, `__main__.py`) | none | validate, build, dispatch | all | - | invalid actions are rejected before execution |

Interaction in one line: `ui` (or another command) builds one `Session`; a *task thread*
runs the *loop*, which looks at the *stop*, *observes*, asks the *planner* (a command run by
the *broker*), and gives the action to the *executor*, which looks at the stop again, asks the
*policy* (whose approver blocks in the *approval queue* until the *window* answers) and
dispatches to the input backend, a tool or the broker. Everything is recorded in the audit log.
The *bridge*, the *workflows* and (through the bridge) the *evaluation runner* stand where the
loop stands: they give actions to the same executor under the same stop.

## Modules

| Module | Models | Checked by | Proved in |
|---|---|---|---|
| `EmergencyStop` | `safety/emergency_stop.py` | `MCEmergencyStop` | `WorkflowsProofs` |
| `TaskLoop`, implementing `TaskContract` | `loop/task_loop.py`, and the executor as the loop sees it | `MCTaskLoop` | `TaskLoopProofs` |
| `ApprovalQueue` | `ui/controller.py` with the approval bar of `ui/app_tk.py` | `MCApprovalQueue` | `ControlWindowProofs` |
| `ControlWindow`, extending `ApprovalQueue` | the wiring of `ui` in `__main__.py`, buttons of `ui/app_tk.py` | `MCControlWindow` | `ControlWindowProofs` |
| `CliBroker` | `broker/cli_broker.py`, `broker/elevation.py` | `MCCliBroker` | `CliBrokerProofs` |
| `Executor` | `actions/executor.py`, `tools/`, the gate of `safety/policy.py`, `prepare_paint` | `MCExecutor` | `ExecutorProofs` |
| `McpBridge` | `mcp_server/`, `perception/` (walk, ranking, merge, ids), the executor as the bridge sees it | `MCMcpBridge` | `McpBridgeProofs` |
| `ClaudePlanner` | `loop/claude_cli_planner.py` with the broker's numbered files | `MCClaudePlanner` | `ClaudePlannerProofs` |
| `EvalRunner` | `eval/`: runner, oracles, AI tier, shapes of the suite | `MCEvalRunner` | `EvalRunnerProofs` |
| `Workflows`, extending `InputBackend` | `workflows/`, their commands in `__main__.py`; `actions/windows_input.py` | `MCWorkflows` | `WorkflowsProofs` |

Definitions named `Mut...` are plausible mistakes in the definition that follows them.
They are used by no specification; each one, put in place of that definition, makes the
property named in `PROJECT.json` fail, which shows that the property depends on the code.

### EmergencyStop

`stopped` and `paused` are the events of each process, `sentinel` the file. A call is split
wherever another thread may run: `StopFlag`, `StopFile`; `ClearStopped`, `ClearPaused`,
`ClearFile`; `ReadFlag` (by `IsStopped`, `Check`, `PauseLoop`), `ProbeFile`, `Latch`,
`CheckPasses`. A write or removal of the file may fail silently, as in the code, and
`Restart` replaces the objects of a process and keeps the file. `standing`, `durable`,
`undisturbed` and `bound` are history: they say which stops have taken effect without a
`clear()` overlapping them, and which running calls began under one.

- `StopIsHeeded`: a call of `check()` or `is_stopped()` that began under such a stop never
  answers "carry on"; if the file was written this holds in every process and after restarts.
- `ParkedOnlyByPause`: a call returns once the pause ends or a stop stands; a worker parked
  in `check()` notices STOP.

### TaskLoop and TaskContract

`pc` is the place in `run()`, one action per branch. The planner, the desktop, the clock and
the people are nondeterminism: `PlanStep` picks any kind of action, `Observe` any screen,
`VerifyFails` any failure, and `Environment` moves between any two steps. Kinds of action are
told apart by what the loop asks of them: may it be retried (`_RETRYABLE`), does it draw.
`good`, `bad` are `successes` and `failures` (their sum is `len(records)`); `dispatched`,
`runs`, `repeats`, `late`, `through` are history. `ExecuteHalted`, `ExecuteGuard`,
`ExecuteBlocked` and `ExecuteDispatch` are `ActionExecutor.execute`.

- `UnsafeRunsOnce`, `BoundedWork`, `OneLateAction`, `StopLetsOneThrough`: what recovery can
  add to a step, and what can still happen after time has run out or STOP was pressed.
- `ReportContract`: `TaskContract` says what a `TaskReport` promises whoever reads it; the
  loop refines it with the identity on the five shared variables.
- `Termination`: under `FairSpec`, a task ends unless a pause holds it for ever.

### ApprovalQueue

`slot`, `request`, `pending`, `decision` and `event` are the fields; `place` is where each
worker stands in `request()`: the semaphore, the first locked section (`Arm`), the wait, the
second locked section (`Close`), the release. `Click` and `Signal` are the two halves of
`resolve()`: recording the decision under the lock and setting the event outside it. `shown` is what the
last `Refresh` put in the approval bar; buttons work exactly while something is shown.
Requests carry a number so that properties can say which request an answer belongs to.

- `OneOpenRequest`, `DenyByDefault`, `ClickReleases`: as their comments say, for any
  interleaving of workers, timeouts and clicks.

### ControlWindow

Extends the queue with the task threads: `Run`, then operations that look at the stop and
start at once (`BeginFree`) or ask first (`BeginGated`, `Answer`), then `Start` and `Finish`.
What an operation is (action, tool, command) does not matter here. `PressStop` and `ClearStop`
take the stop as one flag of one process: its inner steps are the subject of `EmergencyStop`. Every step
of the window is a step of the queue or leaves the queue alone, so the queue's theorems hold here.

- `RunsIfApproved`: what runs was approved, for itself, while it was the pending request.
- `StopLetsOneEach`: under a stop that stays each task starts at most one more operation, the one that
  had looked before the stop, although its approval may come long after. `through` counts them, up to two.
- `StopEndsTasks`: a lasting STOP ends every task if somebody answers the approval bar.

### CliBroker

`at` is where each caller stands in `run()` or `launch()`. The gate is `NeedsNoApproval`,
`SessionRule`, `AskApprover` and `Approve` or `Blocked`; the execution is `Launch`, or
`TakeNumber` followed by `RunElevated`, by `ElevationFails` and `FallBackInline`, or by
`RunInline`, then `WriteOutput`; every file and log operation may raise. `files` says whose
output each numbered pair of files holds, `log` is the set of the broker's audit records.

- `GatedStart`, `StartsOnce`, `HonestLog`, `OwnFiles`: as their comments say.
- Abstracted: exit codes, tails, the environment, `history` (a copy of the records in memory),
  and calls the emergency stop refuses, which change nothing.

### Executor

`at` is where each thread stands in `execute()`: the guard, the gate (`NeedsNoApproval`, or
`Ask` and `Approve` or `Deny`), the dry run, the dispatch, then inside a tool, then the way back
(`LeaveTool` is the `finally`, `Recheck` the look at the stop after a tool, `Record` the audit
record). A tool is what matters of it for the stop: an alternation of looks (`LookPasses`,
`LookHalts`; `ProbePasses` for the look that ignores a pause) and bursts of inputs (`Touch`,
`Press`, `Release`). `burst` counts the inputs ahead before the next look: one for most, up to
`PrepInputs` in `prepare_paint`, `OrbitMoves` in an orbit of `inspect_3d`. `AfterLook` and `AfterBurst`
say which tool goes where. Any look or input may be the last one (`Raises`: no window, no canvas,
a backend that fails). `inTool` is the flag `_in_tool`, one for all threads. `approved`,
`touched` and `through` are history. `check()` is one step: it passes when neither stopped nor
paused, raises when stopped, and waits otherwise; its inner steps are in `EmergencyStop`.

- `GatedTouch`, `LeftAlone`: no path through actions, tools and commands, with two threads on
  one executor, changes anything that was not approved or that a dry run should leave alone.
- `StopEndsBurst`, `StopReported`: what can still happen after STOP, over all the actions a worker
  goes on to execute, and that a tool which made inputs under a stop is not reported as done.
- `ButtonReleased`, `FlagFreed`: what a tool leaves behind, however it ends.
- `ExecuteReturns`: no action is stuck, in a tool or out of it, unless a pause holds it for ever.

### McpBridge

The server's tools are plain functions, so `pc` and `call` describe the one request being served;
`World` moves between any two of its steps: controls appear, move and vanish (`Rearrange`), windows
come to the front, other processes set and clear the stop. An action is one of five kinds (not an
object, refused by `parse_action`, of a type that cannot be looked up, denied by the policy, executable),
which is all `act` and `act_many` tell apart; `Reject`, `ParseRaises` (the `TypeError` nobody catches: the
request ends there), `Halt`, `Deny`, `Guard` and `Dispatch` are its way through the executor, and `Then` says where a batch goes after each result.
The settling pause (`Settle`) is an action whose
result nobody looks at. `Perceived` is the perception as a function: walk to a depth, rank by kind
of control (`Sooner`) and cap (`FirstOf`), add what OCR read outside the kept elements (`Merge`), filter, cap
again. A control's place stands for its bounds; ids are a function of the control and may collide.

- `BatchHonest`: what reaches the desktop and what the answer says agree, for every batch and
  failure, with and without `stop_on_failure`; an answer has its counts unless an action's type could not
  be looked up, and then nothing behind that action was done.
- `StopLetsOneThrough`: the bound of the loop holds for an agent's actions too, over calls.
- `ClickFollowsId`: between its own look and its click the world may still move (nothing locks
  it), and the property says what then remains: the click goes to a place where this call's look
  saw that id, and hits it if nothing moved.
- `CutIsTold`: three cuts can hide a control; one the walk reaches is listed or the list says it was cut.

### ClaudePlanner

One call of `next_step` or `replan` is `Ask` (with `VisionPath` deciding about a picture), `Start`
(the broker takes the next number), `Answered` (the claude program writes), `ReadStdout` (from the
numbered file, or a tail when it cannot be opened), one of `Done`, `Invalid`, `Plain`, `OnElement`
and `Raise`, then `Return` to the loop. Several planners share the counter; `ReadForeign` is a
process with a counter of its own over the same directory. An answer is told apart by what
`_plan` does with it. What the loop does with outcomes is in `TaskLoop` (`PlanDone`, `PlanAgain`,
`PlanFails`, `PlanStep`).

- `AnswerIsOwn`: an outcome is what Claude said to the question of this call.
- `VisionBounded`: a task sends no more pictures than it may, through forced pictures and failed calls.

An element's id is looked up once, in the list the question was asked with (`Resolve`), and the first that
bears it is taken. That nothing looks at the screen again before the click is a fact of the code, not a property.

### EvalRunner

A suite is a list of records: how a task runs (list of actions, probe, gated probe, probe of the
stop, AI), how long its set-up, actions and reset are, and which basic oracles judge it. The
desktop is the set `goal` of tasks whose oracle would find what it looks for: a trial's actions may reach
it, a reset that works undoes it, other programs hide it. `pc` walks through `run_suite`,
`run_trial` and the AI run, whose loop is reduced to what the budget sees of `TaskLoop`: plan,
ask again, re-plan, succeed, fail, stop short. A gated probe has its window in front or not (`MeasureGated`),
whatever the state oracles look for. A `status()` that raises is taken for no stop (`BlindLook`), before a trial
and before a task.
- `ScoresAgree`, `StopEndsSuite`: summaries, results and the note `halted` against one another,
  with a stop at any moment and a probe that sets and clears the same stop. `StopEndsSuite` counts
  the trials whose look at the stop was answered: a look that raised has not seen it.
- `PassIsEarned`: after a reset that was carried out, a state-judged trial passes only by itself.
- `AiCallsBounded`: what the budget (charged by steps) still implies for the planner's calls.
  A run that raises is charged nothing; `raised` and `lost` bound what those runs add, the budget each.

### InputBackend and Workflows

`InputBackend` gives, for each input, the list of events it is sent as. `Workflows` runs a script of
steps: each looks for a control if it must, passes the executor's look at the stop, and sends its
events one by one (`Send`), with another window, a copy to the clipboard or a stop between any two of them
and the process ended at any of them (`Kill`). What a failed step means is part of the step: "must",
"try" (goes on) or "else". `landed` records which text arrived where; it is followed only while the run
is `clean`: nobody else took the keyboard or the clipboard, and no ignored step failed. `garbled`
records that a character was sent while a key other than Shift was down. The constants are the known keys
and the inputs of the form. A drag or a stroke may raise in the middle of its moves (`BreakOff`): the
button it pressed stays down (`broke`) until something releases it. What is left down when a workflow
begins makes its run not `clean`.

- `KeysBalanced`: between actions no key is pressed, and no button but the left one of a drag that broke
  off, so no text arrives as a shortcut.
- `ReportHonest`: a file workflow that reports success left the file with its content; the others,
  on a clean run, put each text into the control it was meant for, in order.

## Runs

| Run | Bounds | States, about | What it shows |
|---|---|---|---|
| `MCEmergencyStop` | 2 processes, 3 threads, 2 of them controllers | 121 000 | the stop is heeded; calls return |
| `MCTaskLoop` | 3 kinds of action, MaxActions 3, MaxRetries 1, MaxReasks 1, StallLimit 2 | 247 000 | everything about one task |
| `MCApprovalQueue` | 2 workers with timeouts, 3 requests | 117 000 | the handshake |
| `MCControlWindow` | 2 tasks, 2 requests, no timeouts (the window gives none) | 168 000 | the window's threads |
| `MCCliBroker` | 2 callers, 2 commands, 2 calls, any restarts | 138 000 | the broker |
| `MCExecutor` | 2 threads, 10 actions of every shape, threshold of `strict`, a tool missing from the registry, PrepInputs 2, OrbitMoves 1, MaxRounds 2 | 429 000 | actions and tools on one executor |
| `MCMcpBridge` | 4 controls (two with one id, one OCR reads, one below the walk's depth), 2 places, 1 element kept, 2 windows, batches of up to 2 | 212 000 | an agent's requests on a moving screen |
| `MCClaudePlanner` | 2 planners, 3 runs of claude, 1 picture, 2 observations, symmetry of the planners | 2 800 000 | every exchange with Claude |
| `MCEvalRunner` | 4 suites of up to 3 tasks of six shapes, 2 trials, budget 2, MaxReasks 1, MaxReplans 1 | 1 560 000 | scoring, resets, budget and stop of a suite |
| `MCWorkflows` | 7 scripts, a form of 2 inputs, every way of typing | 34 000 | scripted sequences against other programs |

Why these bounds are enough to be interesting: two threads and a third party are the least
in which a stop, a look and a clear can overlap pairwise. In the loop, three steps allow
a first, a middle and a last one; one retry and one re-plan already combine in every order,
and their counters are reset by one another; two unchanged observations reach the stall.
In the queue, two workers make one wait for the slot, and a third request lets an old
answer meet a new one. The broker needs two overlapping calls, and one
restart between two calls, for its numbers to matter. The safety properties are proved for
all values; the bounds then only serve the liveness properties and the early detection of errors.

For the bridge, two actions are a first and a last one, with a result, a settling pause and a stop between
them; one kept element of four controls makes every cut happen, and two places let one control stand where
another was. For the planner, a third run lets one task ask twice while another is at its own
question; one picture is used up at once. For the suites, a second trial meets what the first left,
a second task the stop and the budget of the first. Workflows need no more than one of each script: they
share the keyboard's state and nothing else.

For the executor, two threads share the flag, and each of the ten actions is the only one of
its path: plain input, unhandled type, command, and tools that look never, first, in between, or
in an orbit. `PrepInputs` 2 and `OrbitMoves` 1 stand for 5 and 10: bursts of two inputs (the press
and its move) already tell an input in the middle of a burst from its last. Two rounds are a
first and a later look.

`MaxRequests`, `MaxCalls`, `MaxRuns`, `MaxBatch` and `MaxRounds` (looks in one tool; drawings and views are
finite) are the only bounds the code does not have: they cap numbers the code never runs out of. The smaller
`MaxReasks` and `StallLimit` stand for the 2 and 6 of the code; the proofs hold for any.

Deadlock is not checked where a system may really be at rest: `MCApprovalQueue`,
`MCCliBroker` and `MCClaudePlanner` once all numbers are used, and runs in which threads may be idle for ever.

## Fairness

- `EmergencyStop!FairSpec`: weak fairness of a thread that is inside a call. The calls are
  loops and file operations that do not wait for one another; the operating system runs them.
- `TaskLoop!FairSpec`: weak fairness of the loop. It assumes that observing, planning and
  executing return: the planner and commands run with a timeout. It does not assume that
  anybody resumes, stops or clears; that is the premise of `Termination`.
- `ApprovalQueue!FairSpec`: weak fairness of each worker inside `request()`, of the refresh
  timer and of setting the event once the decision is recorded. No click and no timeout is assumed.
- `ControlWindow!AttendedWindowSpec` adds weak fairness of clicks: somebody answers what the
  bar shows. This is an assumption about people and not about code, and `StopEndsTasks`
  needs it: the approver waits without a timeout and a stop does not wake it, so an unattended
  request keeps its task, and every task behind it in the semaphore, for ever.
- `Executor!FairSpec`: weak fairness of each thread inside `execute()`: backend calls return, the
  approver answers (as in `AttendedWindowSpec`). Failures (`Raises`) are not counted on, and no
  stop or resume is assumed: that is the premise of `ExecuteReturns`.
- `McpBridge`, `ClaudePlanner`, `EvalRunner` and `Workflows` state safety only and have no fairness:
  whether a request, a call, a trial or a step ends is the executor's `ExecuteReturns` and the loop's `Termination`.

## Proofs

Every theorem is for all values of the constants under the assumption named in the module.

| Theorem | States | Argument |
|---|---|---|
| `WorkflowsProofs!StopHeeded` (of `EmergencyStop!Spec`) | `[](TypeOK /\ StopIsHeeded)` | `HeededInv`: no clear() is under way while a stop stands; a standing stop shows in the flag or the file; a call that began under one is not past the point where it meets it |
| `TaskLoopProofs!LoopTypes`, `NoBlindRetry`, `BoundedRecovery`, `TimeTakesEffect`, `StopTakesEffect` | `TypeOK`; `UnsafeRunsOnce`; `BoundedWork`; `OneLateAction`; `StopLetsOneThrough` | `LoopInv`, one group of counters at a time: where `attempts`, `replans`, `runs` and `repeats` stand at each place, with the arithmetic of `ActionsPerStep` in lemmas of its own |
| `TaskLoopProofs!LoopKeepsContract` | `Spec => TaskContract!Spec` | step by step under `LoopInv`: a recorded success is `StepSucceeds`, an end is one of the two ends, all else stutters |
| `ControlWindowProofs!OneAtATime`, `DenyUnlessApproved` (of `ApprovalQueue!Spec`) | `TypeOK /\ OneOpenRequest`; `DenyByDefault` | `QueueInv`: the worker in the slot owns the open request, and a recorded Approve is in `yes` for it |
| `ControlWindowProofs!StopsLetOneEach` (of `WindowSpec`) | `[]StopLetsOneEach` | `NoneThroughYet` (part of `WindowInv`): a task past its look, asking or allowed, has started nothing under the present stop |
| `ControlWindowProofs!RunsOnlyIfApproved` | `[]RunsIfApproved` | `WindowInv` on top of `QueueInv`: a thread that is not asking is not in the queue, so the request it was answered for is still its own |
| `CliBrokerProofs!BrokerGate`, `NoSecondStart`, `BrokerLog`, `FilesApart` | `TypeOK /\ GatedStart`; `StartsOnce`; `HonestLog`; `OwnFiles` | `BrokerInv`: calls in progress have ids of their own and no record yet, and have started only behind the point of starting |
| `ExecutorProofs!NothingUnapproved`, `RefusedLeavesAlone`, `StopTakesEffect`, `StopIsReported`, `ButtonsUp`, `ToolsCleanUp` | `TypeOK /\ GatedTouch`; `LeftAlone`; `StopEndsBurst`; `StopReported`; `ButtonReleased`; `FlagFreed` | `ExecutorInv`, worker by worker: the inputs made since the stop plus those left in the burst never exceed the longest burst, and no place before a look has any; who acts leaves the others' part of the invariant alone |
| `McpBridgeProofs!BridgeInvariant`, `BridgeTypes`, `StopBoundsAgent`, `BatchesHonest` | `BridgeInv`; `TypeOK`; `StopLetsOneThrough`; `BatchHonest` | `BridgeInv`: once an action got through a stop no other has passed its look while it stays; at each place the results so far are those of the first actions of the batch, and a batch ends early only at a failure or at an action that raises |
| `McpBridgeProofs!ClicksFollowIds`, `CutsAreTold` | `ClickFollowsId`; `CutIsTold` | `ClickInv`, `PerceiveInv` (parts of `BridgeInv`): what a look lists bears its id and was on the screen, is where it was while nothing moves, and is all of the walk unless the list is cut; a click passes the match only with an element of its id, of which one comes first |
| `McpBridgeProofs!CapKeepsFirst` | the cap keeps min(walk, `MaxElements`) elements, all of them before any it drops | the number of elements before each is a bijection of the walk onto `0 .. Cardinality(Walk) - 1` |
| `ClaudePlannerProofs!PlannerInvariant`, `PlannerTypes`, `PicturesBounded`, `AnswersOwn` | `PlannerInv`; `TypeOK`; `VisionBounded`; `AnswerIsOwn` | `PlannerInv`: a picture is counted before it is sent; the number of a run in progress is no other planner's, its file holds what Claude said to it, and what is parsed is that or nothing usable |
| `EvalRunnerProofs!EvalInvariant`, `EvalTypes`, `StopEnds`, `PassesEarned`, `BudgetKept`, `ScoresCount` | `EvalInv`; `TypeOK`; `StopEndsSuite`; `PassIsEarned`; `AiCallsBounded`; `ScoresAgree` | `EvalInv`: results are those of the trials before this one, in turn, each once (so that counting them adds one); a summary is its task's count; `halted` and a missing trial come together; `made` and `clean` follow the goal of the trial through its places; the calls of an AI run are at most its steps, begun ones included, times their price |
| `WorkflowsProofs!KeysAreBalanced`, `ReportsAreHonest` | `KeysBalanced`; `ReportHonest` | `WorkflowInv`: what is left of an action releases every key that is down (`Settled`, from `Tidy` of every plan of `InputBackend`) and does so from a button left down too, because only a drag can break off and it holds no other (`LeftOnly`); each step leaves the keyboard where the next one needs it and has typed as many texts as its place says (`ScriptsFit`, `TextInv`); a file is verified on both ways to success |

The properties are not inductive by themselves. `StopIsHeeded`, for example, speaks of finished
calls only; what carries it is that *unfinished* ones still have the flag or the file ahead.

Type correctness is proved for every module with proofs and not repeated as a run; only
`EvalRunner!TypeOK`, whose lists may not run past their ends, is a run's invariant as well.

Two devices recur. A least element (`FirstMatch`, `SmallestOf` in `McpBridgeProofs`) comes from the
library's well-foundedness of the natural numbers, applied to the set of candidates. Counting (`ScoresAgree`,
`CutIsTold`, the cap) comes from its theorems on finite sets: one element added is one more, a subset
as large as the whole is the whole. `McpBridge` keeps an observation's elements as a set ordered by `Sooner` for that
reason; `CapKeepsFirst` shows that this is the sorted and sliced list of `rank_and_cap`.

Only model-checked: the liveness properties (`ParkedOnlyByPause`, `Termination`,
`ClickReleases`, `StopEndsTasks`, `ExecuteReturns`), which need fairness and `ENABLED`, out of
the prover's reach.

A form may have any number of inputs: its script is a function of the place, not a fold, so what stands
at a place follows by division (`FormSteps`) and no induction over the form is needed. What the three kinds
of interference leave of `ReportHonest` is in its own hypothesis, `clean`; `KeysBalanced` has none but `~cut`, and
names the one button a drag may leave (`broke`).

## Findings

Two runs end with a counterexample on purpose: each states what a document or comment says
and TLC shows a behaviour of the code that does otherwise.

1. `ApprovedAsShown` (`MCApprovalQueueShown`): `resolve()` answers whatever is pending. Two clicks on
   Approve before the next refresh can approve a second request nobody has seen.
2. `LeftoverIsTold` (`MCEvalRunnerLeftover`): `_safe_reset` promises to surface a failing reset, but only
   one that *raises* is noted: a reset whose actions come back `ok: False` counts as done, and the
   next trial may pass on what the trial before it left. (Set-up results are looked at, lines 162-168.)

Observations without a run, found while modelling. Some bound what a property can say:

Stop, loop, window, broker, executor

- `is_stopped()` may see the file, `clear()` reset the flag and remove the file, and `is_stopped()`
  then latch the flag: after `clear()` the process is halted again (`safety/emergency_stop.py:61`).
- the action limit counts steps; retried and re-planned actions are not counted. `BoundedRecovery`
  is the limit the code does keep.
- the stop is looked at before an approval and not after it: an operation approved after STOP starts
  under the stop, and ends with its first burst (`StopEndsBurst`).
- output files are numbered from one in every process, in a session directory whose name is fixed:
  earlier records then name another run's output. `AnswerIsOwn` has to except it (`ReadForeign`).
- `_in_tool` is meant to keep a tool from calling a tool, but it is shared by the tasks of the window:
  a tool of one task is refused as nested while another's runs.
- `execute()` says that a sub-action which tripped the stop is propagated as a halt
  (`actions/executor.py:186`), but `sketch`, `drag_drop`, `orbit` and `inspect_3d` turn the stop into a
  failure first: their action is recorded as failed, not halted (`Halting`).
- `prepare_paint` calls its inputs "estop-gated" and an orbit of `inspect_3d` is one sub-step: up to
  five and eleven inputs follow a single look. `StopEndsBurst` is the bound that does hold.
- a pause during `orbit` parks the thread with the middle button down until the pause or a stop ends it.
- `check()`'s docstring says the pause loop is not a busy loop, but `_paused.wait(0.1)` returns
  at once while paused.
- `run()` of the broker raises without an audit record when a command's output cannot be decoded
  or written, so the log is honest (`HonestLog`) and not complete.

Bridge

- a type that is a list or an object raises `TypeError` in `parse_action` (`schema/actions.py:203`; its docstring names
  `ActionValidationError` for unknown types), which `act` does not catch: `act_many` ends without `completed` and
  `failedAt` after earlier actions ran, even with `stop_on_failure` off (`ParseRaises`).
- the hint to "narrow with control_type/..." (`mcp_server/bridge.py:374`, `server.py:40`) cannot bring
  back an element the cap of the walk dropped: the filters apply after it. Controls below `max_depth` are cut without being
  counted: `CutIsTold` leaves them out (`Deep`).
- `click_element` looks without a screenshot, so the id of an element only OCR found is always refused.
- ids may collide; the first listed is clicked. Nothing locks the screen between the look and the click.
- `_state_signature`'s docstring says it has an element count (`bridge.py:108`); it has none.
- with `stop_on_failure` off, `failedAt` is the last failure, and a failed settling pause is not reported.

Evaluation

- an AI run that was skipped for its budget, raised, or found nobody logged in counts for an infeasible
  task as correctly refused (`payload.ok` is false). `eval/tierb.py:11` says an exhausted budget
  halts the suite; it only skips.
- `tierb.py:185` takes steps for the number of Claude calls: re-asks and re-plans are not counted. `eval/tierb.py:28`
  says the suite cannot exceed a total cost, but a run that raises (lines 87-93) charges nothing, whatever steps it took,
  and the next run has the whole rest again. `AiCallsBounded` is what does hold of both.
- a `status()` that raises counts as not stopped (`eval/runner.py:116`): each trial it precedes begins
  under the stop. `StopEndsSuite` leaves these out.
- a suite halted in the middle of a task goes on with the next task when the stop was cleared meanwhile,
  and keeps its note `halted`; the probe of the stop clears a stop the user set.
- B-FILE-CREATE has no reset (`eval/suite.py:582`): a later trial passes on the file of an earlier one.

Planner

- an answer whose action has a list for its `type` raises `TypeError` out of `_plan` (`Raise`): the
  last outcome stays and the task ends.
- the prompt lists `max_elements` elements, `_resolve_element` searches all; `last_infeasible` is reset only
  by the next "done"; the exit code of claude is not looked at.

Workflows and input

- `clipboard_set` returns silently when another program holds the clipboard: a long text then pastes
  whatever was there, and the action is ok (`CopyText`).
- `fill_field` ignores the result of its click; the foreground is asked for once, before typing.
- `drag_drop` "performs a press-move-release drag" (`workflows/window.py:9`), but a negative `durationMs` passes
  `schema/actions.py:113` and raises in `time.sleep` after the press (`actions/windows_input.py:226`); there is no `finally`,
  and the process goes on with the button down (`BreakOff`). The tool `drag_drop` clamps the duration, the action does not.
- an unknown key sends nothing and succeeds. A process ended inside a combination or a drag leaves
  what it pressed down (`cut`).
- after an ignored step that failed, the text may arrive elsewhere and success is reported all the same:
  `ReportHonest` excepts these runs (`clean`), for the code does not look.
- `create-file` types its text even if no editor came up, and the verification may find an earlier file.

## Not modelled, and why

- Orchestration (`orchestration/`): one sequential pass: plan, implement each task with the loop, audit
  by roles, classify. No state is shared and nothing is retried; an audit that cannot be parsed counts
  as failed. What can go wrong in time is in the parts it calls, which are modelled.
- Drawing director (`drawing/`): one sequential pass: candidates, Claude's choice among them, a drawing, a look, and
  at most one refined drawing, which is not looked at again. What is better is Claude's judgement.
- Risk classifier (`broker/risk.py`) and redaction: regular expressions over text.
- The wait for a download (`workflows/downloads.py`): one sequential poll that compares two listings and acts on
  nothing. A directory that cannot be listed counts as empty, so that every file there then is new.
- The Win+D of `show_desktop` before `create_desktop_text_file` (a fallback that sends four events in one call),
  and `hard_cap`, the walk's own limit (`perception/uia_backend.py:254`, `312`): at the defaults it lies above the
  cap of `rank_and_cap`, so a list it shortens is cut and said to be cut anyway.
- Geometry: floating point; of it only the inputs of `prepare_paint` matter to the stop.
- Audit log's readers, report and retention; the window's timeline and preview; the numbering of
  the observer's files by two tasks: left out of the models, with hazards that say so.
- OCR passes, UI Automation, SendInput's structures, timing, colours and the Tk layout are outside a model
  checker's reach.

With more room the next step would be the audit trail with its reader and the window's refresh
(appends, half-written lines, pruning of live sessions), then the observer shared by two tasks.
