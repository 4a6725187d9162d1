# smart_talkflow: formal models and proofs

smart_talkflow is an agent that turns a sentence ("book me room 3 for Tuesday at
ten") into calls of an office-automation (OA) system. One model call picks the
tools, each tool is a *workflow* (a saga of HTTP calls with a compensation
branch), a second model call writes the reply. What can go wrong is not in the
sentences but underneath: an instance stops in the middle of a saga, two
instances recover the same process, a call is applied and its answer lost, two
requests ask for the same booking at once, a client closes the stream.

This directory holds TLA+ models of those parts, TLC runs on small instances and
TLAPS proofs for all instances. `PROJECT.json` lists the components, runs,
mutants, hazards and theorems, and gives for every definition the source lines
it stands for (`src/src/...` is the Python code, `src/SSD/...` its design
documents, `src/tests/...` its tests).

## 1. Inventory

| Component | State it keeps | Operations | Correct when |
|---|---|---|---|
| **Workflow engine** `orchestrator/workflow_engine.py`, `orchestrator/base.py` | the generator of a workflow, `step_results` | `drive`, `_exec_step`, `compensate`, `replay_steps` | steps run in order, once; a failure is compensated; a replay stands where the process stood |
| **Meeting-room workflow, OA adapter** `orchestrator/workflow/meeting_room.py`, `adapters/` | `booking_id` in the generator; the booking at OA | submit, approve, update use status, cancel | no booking stays behind a failure; cancel is the last word |
| **Process tracker** `repository/process_tracker.py` | table `process`: status, `heartbeat_at` | `acquire_or_create`, `transition_status`, `flush_heartbeat`, `detect`, `acquire_recovery_lock` | one row per key; a terminal status stays; one executor per row |
| **Step tracker** `repository/step_tracker.py` | table `process_step` | `create_step`, `finish_step`, `list_completed_steps` | what is recorded was done; what was done and not recorded does no harm |
| **Idempotency gate, dispatcher** `orchestrator/idempotency.py`, `dispatcher.py` | none of its own | authenticate, authorize, check, execute, `_finalize` | one execution per key; the answer for a known key is true |
| **Watchdog, downgrade** `runtime/heartbeat.py`, `orchestrator/downgrade.py`, `main.py` | the round's list of rows | detect, lock, replay, compensate, close | no row stays `running`; never against a live worker |
| **Conversation** `engine/query.py`, `runtime/runner.py` | tool uses, tasks, `workflow_queue`, `tool_results` | `Query.run` and its tasks | each tool use gets one result; every turn ends |
| **Role cache** `permission/permission.py` | redis entry per workflow | `get_allowed_roles`, `is_allowed`, `invalidate` | a check goes by a policy that is not older than the last `invalidate`; an old entry goes |
| **JWKS cache, authentication** `security/jwks_client.py`, `api/deps.py` | redis entry | load, find key, forced refresh | a published key is never "unknown"; a withdrawn key goes with the entry; no request waits for ever |
| **Prompt repository** `prompts/system_prompt.py` | a git clone on disk, shared by all turns | clone, fetch, checkout, reset, read, fall back | a prompt is no older than the request for it unless an older git command overtakes; a fallback has a reason; the program's own checkout stays as it is |
| **LLM clients** `engine/client/` | none | stream, convert messages | tool uses and results survive the conversion |
| **HTTP entry** `api/router.py`, `main.py` | the request's task | authenticate, stream the turn | nothing of its own |
| **Credentials** `services/credential.py`, `utils/api_key_util.py` | none | sign the delegation headers of a call | plain data handling |
| **Infrastructure** `infra/`, `conf/` | pools, settings | session, HTTP client, logging | commit or roll back; calls time out |

How they interact: a request is authenticated (the key set comes from redis or
from the SSO), builds its two system prompts (git in one directory, which all
requests of an instance share) and starts one coroutine of `Query.run`. It
starts a task per tool use, and each task runs `dispatcher.execute`, which
passes through the gate (the role cache over `workflow_role`, then `process`)
into `drive`; `drive` calls OA through the adapter and writes `process_step`.
The results come back through one `asyncio.Queue`. The only state shared by
*instances* is the database, redis and OA; a watchdog and a worker meet in the
rows of `process` and in the booking, never in memory.

What makes it hard:

* **Concurrency.** Every `await` lets another coroutine in; every transaction
  boundary lets another instance in. `transition_status` reads and writes in one
  transaction, but its UPDATE has no condition on the status.
* **Failure in the middle.** A step is three transactions and an HTTP call
  (heartbeat, `create_step`, call, `finish_step`); a crash, a database error or
  a lost answer may fall between any two.
* **Recovery by replay.** The watchdog rebuilds the generator from the completed
  rows and throws the compensation into it. What was not recorded did not
  happen, as far as recovery knows.
* **Time.** A heartbeat older than `process_heartbeat_timeout` means "dead",
  although a slow step, or a heartbeat that was not written, means it just as
  well.
* **Caches without an order of writes.** A read-through cache awaits redis, the
  source and redis again. What is written last need not be what was read last,
  and `invalidate` deletes an entry, not a fill on its way.
* **One directory, many processes.** A git command belongs to a turn but works
  on a directory that belongs to all, reads before it writes, and outlives the
  turn if that is cancelled.
* **Errors of different kinds.** Some handlers catch `SQLAlchemyError`, some
  `Exception`, some nothing, and which one it is decides between a swallowed
  error, a failed process without compensation and a dead watchdog.

The hazards this leads to are listed one by one, with their lines and the
properties that watch them, under `hazards` in `PROJECT.json`.

## 2. Plan

| # | Module | What it is | State |
|---|---|---|---|
| 1 | `MeetingRoomWorkflow`, `StepTable` | plan and effect of the calls; the recorded rows and the replay point | done |
| 2 | `ProcessLifecycle` | worker, watchdogs, tables, OA, faults | done |
| 3 | `ProcessContract` | abstract specification of a process; `ProcessLifecycle` implements it | done |
| 4 | `ProcessLifecycleProofs`, `ProcessExclusionProofs`, `ProcessOutcomeProofs` | the safety invariants of `ProcessLifecycle`, each on top of the one before | done |
| 5 | `IdempotencyGate`, `AtomicGate` | the race for a key; the atomic decision it implements | done |
| 6 | `IdempotencyGateProofs` | the gate's invariants and the refinement | done |
| 7 | `Conversation`, `ConversationProofs` | the fan-in of `Query.run` and the messages of the second call | done |
| 8 | `RoleCache`, `JwksCache`, `AccessControl`, `AccessControlProofs` | the two read-through caches, composed as the two gates of a request | done |
| 9 | `PromptRepository`, `PromptRepositoryProofs` | many turns over one clone | done |
| 10 | `ProcessContractProofs` | the safety part of `ProcessContract`: row by row through any faults, and as a refinement through one | done |
| 11 | gate and lifecycle composed: a request's answer against the booking | today `Settle` abstracts the lifecycle | open |

## 3. Modules and code

### ProcessLifecycle (with StepTable and MeetingRoomWorkflow)

A worker (named by its process) and a watchdog (named by its instance) are both
*executors*: the code shares `_exec_step`, `compensate` and `transition_status`
between them, so the model shares the actions. `pc` says where an executor
stands:

| `pc` | in the code |
|---|---|
| `idle`, `sleep` | no request yet; the watchdog in `asyncio.sleep` |
| `begin` | before `flush_heartbeat` and `create_step` of a step |
| `call` | before the HTTP call |
| `good`, `bad` | the call's `StepResult`, before `finish_step` |
| `read`, `write` | `transition_status` between SELECT and UPDATE |
| `scan`, `replay` | `handle_processes` before the lock; after it |
| `done`, `dead` | task finished; gone with a crash, or ended by an exception |

`rebuild` is what a recovery will find for a row: the workflow and its input, a
workflow that is no longer registered, or an input that no longer validates.
`mishap` is a history variable: it notes on which rows the heartbeat expired
beside an executor at work, and where `drive` itself took an exception.

`local` is what the generator and the engine loop remember: the step being
executed, its number, whether `booking_id` is bound, whether `create_step`
returned an id, and the verdict on the way to `transition_status`.

| Action | Code |
|---|---|
| `Admit` | the new row, `BaseWorkflow.execute`, first `send` of `drive` |
| `BeginStep`, `CallOA`, `EndStep` | `_exec_step` cut at its awaits; `EndStep` is `finish_step` with the part of `drive` or `compensate` up to the next step |
| `Advance`, `Compensate`, `EndPlan` | how the generator goes on: `send`, `throw(Compensate)`, `StopIteration` |
| `DriveRaises` | the last `except Exception` of `drive` |
| `ReadStatus`, `WriteStatus`, `FinalizeLost` | `transition_status`, its failure |
| `Detect`, `Claim`, `Skip` | `detect`, `acquire_recovery_lock` |
| `ReplayUnregistered`, `ReplayUnparsable`, `Replay` | `handle_processes` after the lock |
| `RoundAborts`, `WatchdogRaises` | exceptions seen by `heartbeat_watchdog` |
| `Expire` | `heartbeat_at` passes the timeout |
| `LateArrives`, `Crash`, `Restart` | OA, the OS process, the supervisor |

Time is reduced to the age of the heartbeat of each row, in steps: `new`
(written since the last step began), `fresh` (as it began), `old` (at least a
whole step before it), `expired`. `BeginStep` makes it fresh; if
`flush_heartbeat` fails, which it swallows, the heartbeat ages instead
(`Older`). With an executor at work there are two ways to `expired`: one step
outlasts the timeout, which is the fault `slow`; or a heartbeat was lost, the
fault `beat`, and two steps together outlast it, which needs nothing more (two
HTTP timeouts of 30 s are the 60 s of `process_heartbeat_timeout`). Either way
the row is `overdue`, and otherwise it is `InTime`. On an overdue row the code
lets a watchdog work beside a live worker, and what follows from one executor
per row is lost: `SingleExecutor`, `CallsAreSaga`, `TerminalStable` and the
properties of the outcome are stated for rows in time, and TLC finds each of
them violated without that condition. `NeverRerun` and `CancelHasTarget` need no
such condition. (The design, `src/SSD/失活流程降级落地计划.md:102`, takes a heartbeat that
is not renewed for the sign that the process is gone; in the code it may be
either of the two.)

The faults are named and counted. A run states which kinds may happen (`Faults`)
and how many (`MaxFaults`), so a counterexample says which fault it needed. What
is not a fault needs no budget: OA may refuse any call at any time.

Not in the model: what the steps carry (names, payloads, metadata), the audit
row of the adapter, `operator_context`, log lines.

### ProcessContract

What a caller may rely on, in two variables: the row resolves once, its booking
follows the plan or is withdrawn, completed means active, nothing changes
afterwards. The refinement mapping is the identity on `status` and `booking`.
Two properties say how far `ProcessLifecycle` implements it:

* `RowsKeepContract`, an action property: through any number of faults of any
  kind, a step on a row that is in time and has no timed-out call on its way to
  OA is one of the contract, with a single exception: a recovery completes a row
  in whose table a compensation row hides a missing step.
* `KeepsContract`: with at most one fault, which is no slow step, no lost
  heartbeat and no late call, there is no exception, and
  `ProcessContract!Safety` holds as a whole. Its liveness (`Resolution`) is what
  `RunningResolves` states. The run for both leaves out "driver" as well, which
  may end the watchdog and with it the liveness; the theorem about
  `KeepsContract` covers it.

### IdempotencyGate and AtomicGate

`dispatcher.execute` up to the workflow. The database is modelled by what
`acquire_or_create` relies on: a SELECT sees committed rows; an INSERT of a key
whose index entry belongs to an open transaction waits for that transaction; it
raises `IntegrityError` if the row is committed by then. `insert` is the set of
open inserts. A commit that fails may have taken effect. A row is settled from
outside, as `ProcessLifecycle` does it: `Settlers` are the request's own
`_finalize` and the watchdogs, and each of them is a `transition_status`, cut
between its SELECT with the test in Python (`SettleRead`) and its UPDATE, which
tests nothing (`SettleWrite`). Two of them may overlap, and then the later
outcome replaces the one that a request was told in between; `contended`
remembers on which keys that can have happened. Keys are abstract and distinct:
with the one workflow name (20 characters) and the 128 characters of a business
key, the truncation of `build_idempotency_key` at 160 cannot happen. A failed
key is refused at once, as `src/README.md:269` and `idempotency.py:3` have it;
the feature list at `src/README.md:74`, which lets it through by a retry count,
is out of date.

`AtomicGate` decides a request in one step: the first of a key creates the row
and executes, every other one is told the status the row has at that moment. The
refinement mapping keeps `row` and gives a request what `Given` says: an
execution, an answer, an exception, or nothing yet. A commit is the moment at
which an executing request is decided; a request that lost the race is decided
at its second SELECT. A settlement may put one outcome in the place of another.

### Conversation

`Query.run` as one coroutine, a task per validated tool use and the queue. What
`dispatcher.execute` does inside a task is seen as its consumer sees it: short
circuit, step results, one `WorkflowResult`, `_finalize`, an exception in the
gate or in the finalize. `Leave` is the client going away: the response task is
cancelled where it stands, and only `gather` passes that on to the tasks.
`History` is the list `messages` before the second call, reduced to what its
blocks are (a text, which tool uses, how many results for each); `Convert` is
what the client of the configured vendor makes of a message: Anthropic's maps
block for block, OpenAI's joins the text blocks.

### JwksCache, RoleCache and AccessControl

A request first authenticates: `Present` reads the key id of its token,
`GetKeys`, `FetchKeys`, `StoreKeys` are the three awaits of `_load_jwks`,
`FindKey` is `get_sign_key` with the verification after it. A found key is
accepted or not as its signature, expiry and claims are (a free choice). Then,
when the model has named a workflow, `Dispatch` starts the check of the roles:
`GetRoles`, `SelectRoles`, `FillRoles` are the three awaits of
`get_allowed_roles`. Around them the SSO rotates its keys (`Rotate`), the staff
edits the rows and invalidates (`EditPolicy`, `Invalidate`), entries expire
(`KeysExpire`, `RolesExpire`), and every await may fail (`AuthFails`,
`CheckFails`). `RedisEntry` holds what the two caches share. `AccessControl` is
their composition over the same requests; `Respond` lets the next request take
the place of one that is over, so that a bounded set of requests is an endless
sequence of them.

History variables carry what the properties speak of: `missed`, that a request's
key was unpublished at some time of the request; `since`, the policies a check
may go by: those in force since the last `invalidate` before it; `behind`, the
checks about to write, or answered from, a set that was selected before an
`invalidate` and outlives it. That last case is real: the docstrings
(`permission/permission.py:5` and `:58`) and `src/README.md:76` say that an edit
followed by `invalidate` takes effect at once, and a fill that is between its
SELECT and its `redis.set` undoes the `invalidate` for a whole TTL.
`AnswerIsRecent` says that this is the only way to an outdated answer, and
`EntrySettles` that the entry is right in the end.

### PromptRepository

Each turn builds two prompts, one after the other (`stage`), and each of them
runs git over `.prompt/remote`. `dir` is that directory: absent, empty (made for
a clone that failed), with a clone at work in it, or a clone. `remote`,
`tracking` and `work` are versions: of the remote repository, of the
remote-tracking branch and of the working tree. `Choose` is the test for the
directory with its `mkdir`; `CloneDone` and `CloneFails` belong to the clone's
process, which goes on when its turn is cancelled.

A git command is not one step either. `git` says what the command of a turn is
at, `hand` which version it has read: `FetchStart` reads the remote's refs and
`FetchEnd` sets the remote-tracking branch to them; `ResetStart` resolves the
branch, `ResetWrites` takes the index lock and begins to replace files,
`ResetEnd` is done. Between these, other turns' commands come in, so a fetch or
a reset can put an older version over a newer one. Only the index lock keeps two
resets from writing together; a command that finds it taken fails (`GitFails`),
as does a fetch when git notices that the branch moved under it. A command whose
turn was cancelled goes on to its end. `Read` is `is_file` with `read_text`:
while another turn's reset replaces the file (`Replacing`) it finds the old one,
the new one or none, and in `ReadRaises` the file goes between the two.

In a directory that holds no clone, git looks for a repository above it: if the
program runs from a checkout (`Enclosed`), `fetch`, `checkout` and `reset
--hard` work on that one (`GitOutside`), which `outer` records. `reasons` is
history: what came in the way of a stage. `failed` is a git command that failed,
`unfinished` a clone that was not done, `rewritten` the reset of another turn
that began to replace files, `overtaken` an older version that a command of
another turn put in the place of a newer one. `ServedIsCurrent` and
`LocalHasReason` say which of these can cost a turn the current prompt, and
which can cost it the remote one. The comment at `system_prompt.py:171`
("提示词仓库始终以远程为准", the prompts always go by the remote) has no such exceptions;
without `overtaken` in `ServedIsCurrent` TLC finds the turn whose own commands
all succeeded and that reads an older version than it asked for.

Taken for granted: the prompt files exist in the remote repository and are not
empty, and whoever pushes there only moves it forward. A git command ends in the
model by its own step; `_run_git` has no timeout.

## 4. Runs

| Run | Instance | Shows |
|---|---|---|
| `lifecycle_faults` | 1 process in any condition, 2 instances, any 3 faults of all 8 kinds | types, no re-run, one executor, the calls of a row are a saga, no cancel without a booking, completed means active, a told success stands, a recorded submission is cancelled before its row fails, terminal status stable, rows keep the contract |
| `lifecycle_contract` | 2 processes, one of them unregistered, 1 instance, 1 fault of crash, db, disconnect, lost | refinement of `ProcessContract`; every running row of a round resolves |
| `idempotency_race` | 3 requests on one key, 1 without; worker and watchdog settle the row; 2 failing transactions | at most one execution per key; hits are true unless settlements overlapped; each request is decided atomically; who waits for an index entry waits for a commit; none waits for ever |
| `conversation_turn` | 2 workflows of up to 2 steps, 1 invalid tool use, 2 faults of every kind | fan-in keeps order and count; the second call has one result per tool use; what a leaving client cancels; the consumer never waits in vain, and the turn is answered, unless the gate raises |
| `request_access` | 2 request slots, 1 key id, 1 role that one operator has; rotations, edits, expiries and errors at any time | a published key passes; answers are recent; withdrawn keys and old roles go; every request gets through |
| `prompts` | 2 turns, 3 versions, a branch configured, inside a checkout | prompts are current unless an older git command overtook; a fallback has a reason; when the own checkout is touched |

Six more runs show where the code does less than its documents say; each is one
property and one counterexample:

| Run | What happens |
|---|---|
| `completed_cancelled` | Crash after step 2; recovery cancels and records the cancel as number 3, the number of the missing step; crash again before the status. Now every number has a completed row, and the next recovery closes the cancelled process as completed. |
| `orphan_booking` | OA accepts the submission, the answer is lost (or the submission arrives after its timeout); `booking_id` is `None`, so nothing is cancelled, and the user reads "已取消". |
| `watchdog_dies` | One row whose input no longer validates ends the watchdog task; the other rows wait until a restart. |
| `conversation_hangs` | The permission or idempotency check raises inside a task; its result never comes and `queue.get()` waits for ever. |
| `openai_reply` | The OpenAI client joins the text blocks of each message; tool uses and tool results are no text, so the second call gets two empty messages. |
| `prompts_stuck` | The directory is made before the clone and stays when the clone fails; every later turn fetches in it, which fails or works on the program's own checkout, and none clones again. |

`completed_cancelled` is why `CompletedIsActive` excludes rows whose step table
holds such a compensation row (`HidesMissingStep`): with the exclusion the
property holds through any faults, without it two crashes break it.
`prompts_stuck` is why `LocalHasReason` allows for `dir = "empty"`, and
`conversation_hangs` why `AnsweredUnlessGateRaises` allows for a silent task.

**Why the bounds are enough.** Processes share nothing but the watchdogs, whose
rounds handle one row after the other; so one process shows what happens to a
row, and two are needed only for what a round does to its *other* rows
(`lifecycle_contract`, `watchdog_dies`). Two instances give two watchdogs racing
for a row, and one that survives the other. Three faults let a recovery fail
twice and be repeated. The plan has its real three steps. Three requests on a
key are an inserter, a waiter, and one that comes late; two failing transactions
let both of the first fail; a worker and a watchdog are two settlements that
overlap. That rows of different keys share nothing is not checked but proved.
Two concurrent workflows show every interleaving of two streams in one queue;
two steps are the least that can be out of order. A request slot is used again
and again, so two slots are all pairs of overlapping requests; an entry in redis
matters to a request for the presence of its one key id, and to a check for
whether its policy admits the operator, so one id and one role, which one
operator has and the other has not, give every answer, the empty policy that
admits everyone among them. Three versions let the remote move on twice, before
and during a stage; two turns of two stages each let every command of one meet
every command of the other, and the theorems are about any number of them.
Symmetry is used over the instances in `lifecycle_faults` and over the turns in
the prompt runs, which check no liveness and where nothing distinguishes the
members.

`CHECK_DEADLOCK FALSE` stands where the system may stop for good: a turn, a set
of requests or the prompts of all turns are over, and in `lifecycle_faults` and
`watchdog_dies` the watchdog may be dead.

**Fairness.** Weak fairness of an executor's own next step (the event loop runs
what is ready, HTTP calls end by their 30 s timeouts), of the watchdog's next
step, of `Expire` when nobody works on the row (time passes), of `Restart` (a
stopped instance comes back). No fairness for clients (`Admit`, `Leave`), for
faults or for a late call. In `IdempotencyGate` a transaction that waits for an
index entry is woken when the entry is released; in `Conversation` the consumer
and each task take their next step; in `AccessControl` so does each request, and
redis drops an entry when its time to live is over. Nothing makes requests
arrive, the SSO rotate or the staff invalidate. `PromptRepository` states no
fairness, because nothing bounds the time git takes.

## 5. Proofs

Every theorem holds for all values of the constants that satisfy the `ASSUME`s
of its module (types of the constants, names that differ); no bound of a run
enters a proof.

**ProcessLifecycle.** Each module extends the one before.

* `ProcessLifecycleProofs`. `TypeCorrect`: `TypeOK` is not inductive, since that
  a step number stays inside the plan depends on which call an executor is at.
  The invariant `Shape` adds `ExecutorInv`: inside a step of the plan the number
  is the call's position; the step of a compensation is at least 2 and at most
  one more than the plan; a worker's job is itself; a busy executor has a
  process. `NoRerun`: `History` says that nothing was sent for a row that does
  not exist, and that as long as a worker is at a forward call, everything sent
  for its process is the part of the plan before that call, or a cancel by a
  watchdog. Most actions send nothing and move no worker to a later call: such a
  step is `Calm`, and `CalmHistory` shows once that it keeps `History`. Rows
  that are overdue are covered.
* `ProcessExclusionProofs`. `ExclusiveInv`: on a row in time, whoever works
  keeps its heartbeat from expiring and the row running, and is alone. `Claim`
  is the only way for a second executor to get at an existing row, and it needs
  an expired heartbeat. From it follow `OneExecutor` and, because a
  `WriteStatus` then finds the status its `ReadStatus` saw, `TerminalStays`. For
  `SagasOnly` two more facts are needed: a worker that is still on its plan has
  not been compensated by anybody, and what was sent for its row is exactly the
  plan before its step; once a cancel was sent, whoever works on the row can
  only send another one.
* `ProcessOutcomeProofs`. `BookingInv`: a bound `booking_id`, a compensation, an
  accepted call and a completed row each stand for a booking at OA; it needs no
  `InTime`. With it `CancelTargets`. `RecordInv` says that a row of the step
  table records a call that was sent, under its place in the plan. `FailedInv`
  follows a failure from the executor that is about to write it back to the
  cancel that was sent: `FailureIsCancelled`. `OutcomeInv`: on its plan the
  worker's last answer is the truth about the booking; once the three steps are
  recorded the booking is active, nothing is on its way, and nobody takes a step
  any more; so a replay that finds every number recorded finds either those rows
  or a compensation in the place of one. `CompletedMeansActive` and, with
  `PromiseInv`, `PromisesStand`.
* `ProcessContractProofs`. `Ground`: a worker before a call of its plan finds
  the booking in the state the call before left, so an accepted call moves it
  along `NextBooking` (`CallIsWork`); a status is written on a running row, and
  "completed" only over an active booking or a hidden step (`WriteIsResolve`).
  That is `RowContract`, for any faults. `EngineKeepsContract` removes the
  exception under `SingleFault` (`MaxFaults <= 1`, and none of "slow", "beat"
  and "late" among the `Faults`). Then no heartbeat ever gets `old`
  (`Punctual`), so every row stays in time; and a table with a row under every
  number, one of them a compensation's, needs a compensation whose number the
  missing step should have; a worker's own compensation stands right behind the
  number of a step that is *not* recorded (`StepMissing`), so a recovery wrote
  it; a recovery works on a running row without its worker, so the one fault has
  been spent (`AtWork`); and with none left the recovery gets to its verdict
  "failed" (`RecoveryFails`), so nobody ever replays that table. TLC checked
  these invariants on small instances before they were proved.
  `OneFaultIsNotEnough` is the corollary for run `completed_cancelled`: its
  counterexample needs both of its crashes.

`Settle` of `IdempotencyGate` stands for the lifecycle of a row there, and
leaves it to two settlements to overlap; that they do not on a row in time is
what `OneExecutor` proves here, and that the outcome stays, `TerminalStays`.

**IdempotencyGateProofs.** The invariant `Inv` adds to `TypeOK` that an open
insert stands for a key without a committed row (`Holder`), that two open
inserts never hold one key (`IndexUnique`), and that behind an execution or a
collision there is a committed row (`Backed`). `Settling` says of a settler that
has read a row that nobody else has, and that the row is still `running`, unless
the key is `contended`: so the UPDATE that tests nothing overwrites an outcome
only there (`HitsAreTrue`). Two lemmas carry most actions: `HarmlessStep` for
requests that move without touching the table, and `RowAppears` for a commit,
also one whose acknowledgement is lost. `GateIsAtomic` proves the refinement:
with `RefineInv` every step of the gate is a step of `AtomicGate` or changes
neither `row` nor what a request was given. `WaitingEnds` is the state-level
half of "none waits for ever": an entry is held by a request that is about to
commit and by nobody else (`Holder`), whose commit or failure gives it up.

**ConversationProofs.** What the client was shown and what is still queued are
one sequence, `shown \o queue`; putting appends to it and taking only moves the
border. `StreamInv`: it is in order, and every message in it is accounted for by
the place of its task. `ResultsInv`: `tool_results` has one entry for each
workflow whose completion was shown, all different. When the consumer stops
there are at least as many entries as validated tool uses, and `EnoughIsAll`, a
pigeonhole argument on finite sets, makes them all of them (`EachUseIsAnswered`,
`ReplySeesAllResults`, the latter for Anthropic's client).
`ConsumerNeverStarves` turns the argument around: while the consumer goes on it
has fewer entries than tool uses, so one result was not shown; `ServedInv` says
that a task past its workflow has put its result, so that one is queued, still
to be put, or belongs to a task that raised at the gate, the hang of run
`conversation_hangs`.

**PromptRepositoryProofs.** The invariant is per turn (`TurnInv`): where its
place, its git command and the directory fit together (`Placed`), which prompts
are not built yet, and `Fresh`: unless the stage was disturbed, what the next
step of the turn goes by is at least as new as the remote was when the stage
began. That is the version in the hand of its own fetch or reset, the
remote-tracking branch behind its fetch, the working tree behind its reset, and
what another turn's reset is just writing there. Another turn's `FetchEnd` or
`ResetWrites` can break `Fresh` only with an older version in its hand, and then
it notes `overtaken`. For `LocalHasReason`: a reset that is replacing the files
while a turn reads began to do so during that turn's stage, where it noted
`rewritten` (`Warned`), because one reset writes at a time (`Locked`) and the
turn held the lock for its own reset in between. `OneClone` is what lets
`CloneDone` speak for the one turn that waits for it.

**AccessControlProofs.** For `PublishedKeysPass`: if a request in its forced
refresh holds a set without its key, the key was not published when that set was
fetched. For `AnswersAreRecent`: what a check has in hand and what the cache
holds is among the policies since the last `invalidate`, unless the check is
`behind` or the entry `suspect`.

**Only model-checked.** Everything that says "in the end": `RunningResolves`,
`EveryRequestLeaves`, `AnsweredUnlessGateRaises`, `WithdrawnKeyGoes`,
`EntrySettles`, `RequestsGetThrough`; fairness and ENABLED are outside of what
the prover handles. Every invariant and every action property of a passing run
is a theorem, and so are both refinements. The counterexamples are TLC's by
nature.

## 6. Not modelled

* Credentials: pure functions that build and sign headers.
* The development mode of authentication (a trusted header), and signature and
  claims of a token, which are one free choice.
* The vendors' streams and the aggregation of their chunks.
* The choice between a custom prompt file and the built-in text, and all texts.
* Configuration, logging, connection pools, exception handlers, trace ids: no
  behaviour of their own.
* `services/email.py`, `services/memory.py` and the CRM, ECS and ERP adapters
  are empty files.
* The wording of events and replies, and what the model says.
