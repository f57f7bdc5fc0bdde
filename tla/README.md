# A TLA+ verification of kirara-ai

kirara-ai (`src/kirara_ai`) connects chat networks to language models. A message
arrives through an IM adapter, is de-duplicated, is matched by a dispatch rule,
runs through a workflow or an agent that calls language models and tools, and
the answer is rendered into pages that a durable queue delivers to the chat
network. This directory models the parts of it that are hard to test, checks
them with TLC and proves the central properties with TLAPS.

## 1. Inventory

### 1.1 Components

| Component | Source (`src/kirara_ai/`) | State | Operations |
|---|---|---|---|
| OneBot outbox | `plugins/im_onebot_adapter/outbox.py` | rows of `onebot_outbox_deliveries`, a lock table per service | enqueue, deliver, resume_pending, recover_on_startup |
| Telegram outbox | `plugins/im_telegram_adapter/outbox.py` | rows per adapter instance, replayable inbound receipts | the same, claim/complete/retry/recover inbound |
| QQBot outbox | `plugins/im_qqbot_adapter/outbox.py` | rows with an upload phase and a saved media handle | the same with upload |
| WeCom outbox | `plugins/im_wecom_adapter/outbox.py` | rows without retry or order | enqueue, deliver, recover |
| Inbound receipts | `im/inbound_receipts.py` | one row per upstream event (Telegram and WeCom have tables of their own) | claim, complete, retry, recover_on_startup |
| IM manager, adapters | `im/manager.py`, `plugins/im_*_adapter/adapter.py` | adapter registry, running flags, connections | create, start, stop, replace |
| Retry schedule, pacing | `im/outbox_backoff.py`, `plugins/im_onebot_adapter/pacing.py` | none | delay of an attempt, wait before a page |
| Circuit breaker | `llm/resilience.py` | state, outcomes window, probe permit, in-flight count | acquire, record_success/failure/cancelled, reconfigure, restore |
| Circuit store | `llm/circuit_store.py` | one JSON file | save, restore, forget |
| Model manager | `llm/llm_manager.py` | active providers, breakers | chat with failover and retries, streams, load/unload |
| Cancellation, rate limit | `llm/cancellation.py`, `llm/rate_limit.py` | running requests, buckets | register, cancel, acquire |
| Agent runtime | `agent_runtime/` | sessions, pending confirmations, hooks | runs, tool calls, confirmations |
| MCP | `mcp_module/` | server connections, confirmations, audit log | connect, call, issue/consume a confirmation |
| Workflow engine | `workflow/core/execution/executor.py` | running blocks, results | schedule blocks, branch, loop |
| Dispatch | `workflow/core/dispatch/` | ordered rules | match a message, dispatch it |
| Resource lifecycle | `plugin_manager/resource_lifecycle.py` | installed versions, registry file, backups | install, update, enable, disable, restore, remove |
| Scheduler | `scheduler/scheduler.py` | providers due for a detection | run_once, apply, roll back |
| File transactions | `workflow/persistence.py` | journals, staged files, backups | commit, roll back, recover |
| Memory, media, tracing | `memory/`, `media/`, `tracing/` | stored entries, references, trace rows | store, query, clean up |
| Backup | `backup/service.py` | archive, data directory | create, restore with rollback |
| Web API, config, events, IoC | `web/`, `config/`, `events/`, `ioc/` | configuration file, sessions, listeners | CRUD, login, publish |

### 1.2 How they interact

* The adapters call the receipts before dispatching an event and the outbox to
  send the reply; a heartbeat of the upstream triggers `resume_pending`.
* The model manager asks a provider's breaker for a permit before each provider
  it tries, and reports every outcome to it; breaker state is saved to the
  circuit store and restored on start-up.
* The web API starts, stops and replaces adapters while their handlers run, and
  edits the list of providers while the scheduler asks one for its models: both
  share the list, the file and the loaded adapters, under a lock that some
  requests take and others do not.
* The dispatcher runs a workflow, whose blocks hand coroutines back to the event
  loop from their thread, or an agent, whose turns share a session store and
  may wait for a person's confirmation.
* The registries of workflows and rules and the price catalogue write through
  the file transactions of `workflow/persistence.py`.

### 1.3 What is hard

Adapters, queues, receipts, the scheduler and the web API run on one asyncio
loop: state is consistent between two awaits, and anything may change across
one. Workflow blocks and model requests run in threads and share the breakers,
the table of breakers and `circuit-state.json` with the loop; each breaker and
the file have a lock of their own, and nothing covers two of them together.
The process may die between a send and the record of its outcome; the upstream
may deliver an event again, answer late, refuse, or carry out a request whose
caller has given up; the web API replaces adapters and providers while their
handlers and requests run. `PROJECT.json` lists the places under `hazards`.

### 1.4 What makes each part correct

| Component | Correct when |
|---|---|
| Outboxes | a page is carried out at most once and never before an earlier page of its chat; a page whose outcome is unknown is never sent again; every stored page settles |
| Inbound receipts | an event has one handler at a time, is answered once, is not processed again after completion, and is never blocked for good |
| Circuit breaker | a failing provider is isolated in time, one probe at a time goes through, trust returns after the configured successes, permits come back |
| Circuit store | what is on disk is the isolation in force; a restart restores it, a reset withdraws it |
| Model manager | every request ends; a reader gets the text of one attempt; retries and fail-over stay within their bounds |
| IM manager, adapters | an adapter is started once, what is stopped does not go on working, a replaced one leaves nothing behind |
| Workflow engine | a block runs once and after its predecessors, loops and timeouts end |
| Scheduler, providers | a detection does not undo an edit made meanwhile; a failed save leaves memory and disk equal; what serves is what is configured |
| File transactions | after an error or a crash a group of files is old or new as a whole |
| MCP, agent runtime | a confirmation is used once, for the call it was given for; the stored history has no gaps; every turn ends |
| Backup, resource lifecycle | after a failure or a crash the data is either the old or the new state |
| Dispatch | the rule of highest priority that matches handles the message |

## 2. Plan

The order follows what a user would see: replies sent twice, lost or cut first,
then requests and turns that never end, then data that a crash leaves in halves.

| Step | Module | Models | Status |
|---|---|---|---|
| 1 | `OneBotOutbox` | OneBot queue | checked and proved |
| 2 | `CircuitBreaker`, `LLMFailover` | breaker, store and model manager | checked and proved |
| 3 | `InboundReceipts` | receipts and the handlers of all four channels that use them | checked and proved |
| 4 | `PlatformOutbox` | the queues of Telegram, QQBot and WeCom | checked and proved |
| 5 | `AtomicFiles`, `FileTransaction` | what a recoverable write promises, and the journal that implements it | refinement checked and proved |
| 6 | `AgentRuntime` | turns, tools, confirmations, delegation, stored history | checked and proved |
| 7 | `WorkflowExecutor` | order of blocks, branches, loops, the time limit against block threads | checked and proved |
| 8 | `ResourceLifecycle` | versions, permissions and backups of a managed resource | checked and proved |
| 9 | `ProviderConfig` | edits of the providers against the detection of models | checked and proved |
| 10 | `AdapterLifecycle` | `im/manager.py` and `web/api/im/routes.py`: start, stop and replacement of adapters, the stand-alone server before the recovery | planned |
| 11 | `McpConnections`, `BackupRestore` | connection of MCP servers and their caches; replacement of components with rollback | planned |
| 12 | `Dispatcher`, `Backoff` | choice of the rule, retry schedule and pacing as functions checked against a reference definition | planned |

Every safety property the runs check has a theorem (section 5). What is left is
steps 10 to 12, each with its theorems.

## 3. Modules

| Module | Role |
|---|---|
| `OneBotOutbox` | the queue of OneBot |
| `PlatformOutbox` | the queues of the other channels |
| `InboundReceipts` | receipts, handlers, adapters |
| `CircuitBreaker` | a breaker as a value; each method is an operator on it |
| `LLMFailover` | requests, providers, file and administration; extends `CircuitBreaker` |
| `AgentRuntime` | the turns of one chat session |
| `WorkflowExecutor` | one run of a workflow |
| `ProviderConfig` | the list of providers in memory, in the file and in service |
| `AtomicFiles` | abstract specification of a recoverable write |
| `FileTransaction` | the journal; its recovered files implement `AtomicFiles` |
| `ResourceLifecycle` | one managed resource |
| `MC...` | the functions and symmetry sets the configurations refer to |
| `...Proofs` | theorems and their lemmas; `ModelManagerProofs` has those of `LLMFailover` and of `ProviderConfig` |

Operators named `X_Y` next to an operator `X` (marked "Mutant") are faulty
versions of `X`; no specification uses them. They show that the properties
can fail: with `X_Y` in place of `X`, TLC finds the property violated. Every
module defines its type invariant `TypeOK` (`ConfigTypeOK` in `ProviderConfig`,
whose theorems share a module with those of `LLMFailover`); it holds in the
instances below, the runs of `OneBotOutbox` and `LLMFailover` keep checking it,
and it is proved for every module (as a part of `Inv` in `FileTransactionProofs`).

### 3.1 OneBotOutbox

A worker is a call of `deliver()`; its program counter names the await it is
at: the contended lock, the back-off sleep or the upstream action. `status`,
`seqno` and `attempts` are columns of the table and survive a crash; `locks`,
`lock` and the users count (the workers that refer to a lock state) are the
`_recipient_locks` of a service. `Deliver`, `Acquire` and `Wake` end at the
next await, going through `_deliver_recipient_through` on the way; `Accepted`,
`Unknown`, `Refused`, `Failed` are the branches after the upstream call,
`Cancelled` the cancellation of the coroutine, `StoreFails` a commit that
raises. `Perform` is the upstream carrying out a request, possibly after its
caller stopped waiting. The history `lost` holds the rows the outcome of which
could not be stored: such a row stays in `sending`, the search for a blocking
predecessor does not stop at it, and later pages pass it. Payloads, timestamps
and delays are left out: a retry-wait row is due when its worker wakes.

### 3.2 CircuitBreaker and LLMFailover

A breaker is a record of the fields of the Python object; time is the bit
`ripe` ("the recovery time has passed"), set by `Ripen`. A request is a thread
with a program counter: `select` (the loop over candidates, `acquire()`),
`attempt` (the head of the retry loop), `call` (waiting for the provider),
`snapshot` and `save` (the two halves of `CircuitBreakerStore.save`, of which
only the second holds the lock of the file), `backoff`. Plain and streamed
requests share the actions; `Chunk` and `CloseStream` exist for streams only.
A request reports to the breaker object that admitted it: when the table gets
another object (`Unload`, `ResetRebuild`), the requests at the old one become
orphans, and their reports have no effect on the table. `Restart`, `Unload`,
`Load`, `RefreshSettings` and the three steps of `reset_provider_circuit` are
the administration. `streak`, `given` and `probing` are histories.

Copying all breakers in `save()` and `load_backend` are one step each; the
iteration over the table may in fact fail when the table changes size, which
is one of the failures `WritesFail` stands for. Thresholds are constants, the
same for all providers. `Candidates` stands for `get_provider_candidates`: a
function from the loaded providers to the queue of each request.

### 3.3 InboundReceipts

A handler is a call of `_handle_message` (OneBot), `_dispatch_inbound` (QQBot),
`_process_update` (Telegram) or of WeCom's callback with its `dispatch_message`;
`kind` gives each adapter its channel. It waits for the conversion (WeCom),
for the dispatch, for the send of the reply (WeCom) or for the failure notice.
The methods of the receipt services do not wait and are part of the step that
calls them. What the channels share is written once; where they differ:

* **Telegram** keeps the payload of the update. `Start` recovers the rows and
  gives what is retryable to the recovery task (`due`), which claims each update
  like a delivered one (`Replay`); `stop()` cancels that task and waits for the
  handlers of the library, which fetches one update after the other.
* **WeCom** drops messages without identity and those in `reply_tasks`
  (`known`, emptied by `Forget` after five minutes), sends its reply through the
  outbox under an identity made of the event's (`row`, `Send`, `Accepted`,
  `NotAccepted`), completes the receipt when the reply is accepted and again
  when the dispatch returns, and `stop()` cancels its background tasks. Its
  receipts carry no adapter, so any WeCom adapter recovers all of them
  (`SameTable`). Passive replies (accounts that may not send) are left out, and
  so is a row that waits for another message of the same chat.
* **OneBot and QQBot** process an event without a key without a receipt, and
  their `stop()` leaves the handlers running.

`Start` may raise after the recovery. Commits that raise are `OutcomeLost`,
`ReplayLost`, `ReportLost` and `CompletionLost`, after what each caller does
with the error. The history `outlived` holds the events whose row a start has
opened under a handler that goes on.

### 3.4 PlatformOutbox

One recipient of one service: rows are numbered by their sequence, and a task
is a `send_message` or a `deliver()`. `kind` selects the retries of Telegram,
the upload phase of QQBot with its own counter and stored handle, or WeCom,
which does neither and keeps no order. Crash, recovery and `resume_pending`
are as in the code; `lost` and `left` remember rows whose outcome could not be
stored or which a task gave up. The table of locks is a single lock here; that
the table provides one is what `OneBotOutbox` shows for the same code.

### 3.5 AtomicFiles and FileTransaction

`FileTransaction` has one variable per kind of file (targets, staged files,
backups, journals). The steps of `commit`, `_rollback_entries`, `_cleanup_entries`
and `recover_directory` are, for each entry, its publication, its rollback and the
removal of its two auxiliary files (staged file first), and every write or removal
of the journal; each may raise, before or after it has had its effect, and the
process may die between any two. Three things are one step although they are several
operations on files: the writes of the journal before and after an entry
(`publishing`, `published`), which a recovery treats like `prepared`, belong to the
entry; the two removals of an entry are one step when they succeed; and everything
before the journal is in place (`_prepare_entries`) is one step (`Prepare`), because no
recovery looks at staged files and backups without a journal (`PrepareFails`). The
first write of the journal may also raise when the journal is in place already, from
the `fsync` of the directory: `commit` then removes the staged files and backups
entry by entry and the journal last (`discard`, `Clean`, `Close`), any of which may
raise or be cut short. The history `torn` holds the transactions that have lost
staged files in this way while their journal is there.

Entries are published in any order. Two callers are told apart in `Init`: the price
catalogue recovers the directory before it writes, a registry only when it is
loaded. `AfterRecovery` is what the recovery of the next start would make of the
files; under this mapping every step of the journal is a step of `AtomicFiles`
(`Propose` when the journal becomes `prepared`, `Commit`, `Withdraw`) or a stutter,
as long as nothing is torn. `AtomicFiles` says what holds otherwise: while `broken`
nothing is promised (`Break`, `Broken`), and when it is over without a crash the
files are those of the last commit again (`Mend`).

### 3.6 AgentRuntime

A coroutine of `run()` or `confirm()` stands at one of its awaits: hooks, the
model, a tool, a delegated turn, the channel. `Confirm` and `Settles` claim a
record and store the outcome of its call, `Completes` ends a turn; `conf` is `pending.json` with the states of
`SessionStore`, `history` what `save_history` stores. What a turn has seen is
kept as the set of earlier turns in its messages. `Dispatched` are the agents that
dispatch rules run; the others are reached by delegation only.

`claim_pending` returns the status of a record that is not awaiting, and `confirm()`
goes on when that status is `executing`; it does not matter who has set it. So
`Confirm` takes a record that is executing as well, restores the turn from it and
carries the call out once more: while the first confirmation waits for the hook,
the tool or the model, or after it was cancelled or died with the process. The
history `again` counts such confirmations of each record, `MaxRepeats` bounds them,
and `Repeated(t)` says that turn `t` has had one. Left out: prompts, skills,
memory, compaction and the resolution of bindings; a hook agrees or refuses.

### 3.7 WorkflowExecutor

The workflow is chosen in `Init`: any shapes of the blocks and any `graph`, which
gives for each block the blocks its wires lead to, in their order. The shape of a
block is its kind, whether its wired inputs are nullable, and whether it declares an
input that no wire leads to (a nullable one, or a required one, which keeps it from
ever running). The run begins with the blocks that declare no inputs (`Entry`).
A block without wires that declares an input is never visited.

`stack` holds the calls of `_execute_nodes` with the blocks each has still to visit;
a block runs in a thread (`running`), ends with a result or raises. `given` says on
which wires its result has a value: on all of them, or, for the kind `partial`
(`FunctionCalling` returns `resp` or `tool_call`), on any set of them. `CanExecute` is
the check of `_can_execute`: sources with results, and a value for every required
input (`Satisfied`); a block that fails it is passed over. `_gather_inputs` then
reads the output of every wire, so a nullable input whose wire has no value ends the
run with an error (`Visit`). Two simplifications: every wire leads to an input of its
own, and the wired inputs of one block are all nullable or all required.

The time limit (`Timeout`) and a cancellation of the run (`Cancel`) meet it at any
moment; `MayCancel` says whether there is the latter. A block of kind `send` or `tool`
hands a coroutine to the loop and waits for it, with and without a time limit.

### 3.8 ResourceLifecycle

The record in memory, the registry file, the directory of each version and the
backups of one resource. An operation holds the lock of the service, so the
steps of two do not interleave; each consists of the directory operations and
the registry write in the order of the code, with a crash between any two and a
write that may fail. Archives are numbers; validation, the audit log, catalogues
and downloads are left out.

### 3.9 ProviderConfig

A request that edits the list is one step (it does not wait between its checks
and the end of the write) taken when `CONFIG_UPDATE_LOCK` is free; import and
restore ask for no lock. A detection (the scheduler's `run_once`, the request
that applies detected models) waits for the lock, the provider's answer and,
in the scheduler, for the thread that writes the file; the write and its result
are one step. A load may fail and a write may fail or be cut off (`Broken`).
`LoadAll` says at once what loading the entries one after the other leaves.
`doubled` are names that stand for two configurations (an import over a loaded
provider, a rename onto another), `dirty` says that a request has left memory
and file different.

## 4. Runs

Passing runs (all complete; the bounds are constants of the modules and the
values are in the `.cfg` files):

| Run | Question | Why the bounds are enough |
|---|---|---|
| `onebot_outbox` | do the locks exclude, is a page carried out twice or out of order, does every page settle? | two pages of one chat beside one of another, two calls, one fault, and the first page may lose the commit of its outcome: every outcome, the lost one included, meets every wait of the other call and the next page of the chat; the theorems have no bounds and let the commit of any page be lost. The order has an exception, stated in `InOrder`: a page whose outcome was lost, and those behind it |
| `platform_outbox` | the same for the other three queues, and is anything pending forgotten? | three kinds, two pages, two tasks, two attempts, one lost commit, one crash: a retry, an upload and a recovery each meet a second task |
| `inbound_receipts_live` | one handler per event, no row without a handler, completed is final, one reply, nothing stays blocked, updates are replayed | four pairs of channels (OneBot, Telegram and WeCom beside OneBot, WeCom beside WeCom), two deliveries of an event with a key beside one without, two handlers, a crash, a stop and a lost outcome: a redelivery or a replay meets every state of the first handler |
| `llm_failover_safety` | is a closed breaker below its threshold, does trust return after two successes only? | two requests with a retry each report four outcomes: an opening, a late report and two successes; two administrative operations (restart, reset, edit) and failing writes anywhere |
| `llm_failover_live` | does a reader get one attempt's text, does every request end? | a cancellable plain request beside a stream with a second provider: every path from a partial output to another attempt |
| `agent_runtime` | is a confirmed call carried out once, and once more at most for each confirmation that finds its record executing; but for turns with such a confirmation, are the rounds bounded and is the answer shown once; is a settled record final, has the history gaps, does every turn end? | two coroutines and two turns, an agent that is dispatched and its teammate, one record, one repeated confirmation, one edit, one failing write: overlapping turns, a delegated turn, a confirmation while the first one is at its hook, its tool or its model, and one after the first was stopped all occur |
| `workflow_executor` | does a block run once and after its sources, is any passed over, does the run end? | all graphs of three blocks with up to two wires out of each (joins, cycles, two wires between a pair), seven looks of a block (sending, partial, nullable inputs, an unwired input of either kind, condition, loop) in every combination, with and without a limit and a cancellation |
| `file_transaction` | does a group of files change as a whole, is anything resurrected, does a start end? The first and the last except writes that were torn while being discarded (see below) | two transactions on two files, two crashes, two errors for the catalogue and one for a registry (see below): a rollback that fails, a recovery that is cut short and repeated, a discard that is cut short between two files |
| `resource_lifecycle` | can what is registered be had again, is what is enabled confirmed, is any directory orphaned? | two versions, two archives, one failing write, one crash: an update, a restore of each kind and a removal fit in a row |
| `provider_config` | is what serves registered and configured, do memory and file agree, is a stale catalogue stored, does a failed write take a provider out of service, does every detection end? | two names, two configurations, a scheduled and a requested detection, two edits (so that a provider is deleted and made anew during one answer), one bad load, one bad write |

`CHECK_DEADLOCK FALSE` is set where the system may come to rest: all pages
settled, all requests ended, all bounds used up.

Runs that refute a statement of the documentation or of a comment; each one is
a finding in `PROJECT.json`, with the line quoted:

| Run | Statement | What TLC shows |
|---|---|---|
| `llm_failover_probe_lost` | half-open is a step of the recovery | a request past its deadline leaves without a report and takes the probe permit with it, for ever |
| `workflow_tool` | a run lasts `max_execution_time` at most | a chat block with tools is in its thread when the time limit is reached (the run has a limit and no cancellation); leaving the thread pool blocks the loop the thread is waiting for |

### Observations

The following come from writing the models. Where TLC shows one, the module is
named: the stronger property is refuted by the same specification.

* `OneBotOutbox`: with two services on one table a row is sent twice, because
  neither the locks nor the recovery are scoped by adapter; starting a second
  adapter quarantines the page the first has in flight, and the outcome of that
  page overwrites the quarantine. A page whose outcome could not be committed
  (`outbox.py:487`) stays in `sending`; since only quarantined and dead pages block
  their chat, later pages overtake it until the next start quarantines it. Without
  that exception TLC refutes `InOrder`.
* `LLMFailover`: one permit for a probe does not mean one request, for the
  success of another gives back a permit it does not hold; an older snapshot may
  be written last, and an edit through `unload_backend` then loses the isolation;
  a save between the steps of a reset restores what was reset. The request of
  `llm_failover_probe_lost` also stays counted in `in_flight`.
* `InboundReceipts`: a crash between the reply and `complete()` makes a second
  reply with OneBot, QQBot and Telegram (the comment at
  `im_onebot_adapter/adapter.py:1837` and `QQ_ONEBOT_OPERATIONS.md:388` say it
  does not); with WeCom it does not. A second message sent in one WeCom
  dispatch has the identity of the first and is silently not sent. Starting one
  WeCom adapter opens the rows of another. `QQ_ONEBOT_OPERATIONS.md:379` speaks
  of one receipts table for four channels, Telegram and WeCom have their own.
* `PlatformOutbox`: where an order is kept, it has a gap behind a page whose
  outcome was not stored. Only the first page that is not accepted is looked at
  (`im_telegram_adapter/outbox.py:447`, `im_qqbot_adapter/outbox.py:311`). With three
  pages, when the first is left in `sending` by a lost commit and the second is
  dead, the third is begun; that the page before a received one was received
  or itself lost is refuted by this model.
* `FileTransaction`: a registry, which does not recover before it writes, can
  have two open journals after two errors, and the older may be completed last:
  an error of a publication, then one that keeps the journal from being marked
  as rolling back, leaves it `prepared`, and the next write opens a second one.
  A write can also be torn: when the first write of the journal raises after
  `os.replace` (from the `fsync` of the directory), the journal is in place, and
  `commit` removes the staged files before it (`persistence.py:74-83`). A crash or an
  error in between leaves a prepared journal without some staged files. The next
  recovery publishes the rest of the group, or, when a target that is missing has
  lost its staged file, raises `Cannot recover missing staged file` at every start.
  The comment at `persistence.py:77-79` ("The journal is not durable yet, so no
  recovery agent can own these preparation artifacts") is not true of this case,
  and neither is the promise at lines 42-45. Without the exception for `torn`
  TLC refutes `AllOrNothing` in six states.
* `AgentRuntime`: turns that overlap lose each other's messages. A confirmation
  that comes a second time while the record is `executing` is not refused:
  `claim_pending` returns `executing` for it (`session_store.py:263-264`) and
  `confirm()` goes on with that status (`executor.py:673`), so the tool is called
  again, the turn asks the model again and its answer is shown again. The same
  happens when the first confirmation was cancelled or died with the process.
  The branch that would refuse it (`ConfirmationInProgress`, `executor.py:3077`, and its
  wording at `dispatcher.py:577`) is never reached.
  `tests/agent_runtime/test_session_persistence.py:650`
  (`test_two_runtime_instances_cannot_execute_one_confirmation_twice`) claims the
  contrary and passes because its fakes never wait. With `1` in place of
  `1 + again[c]` in `ConfirmedOnce` TLC refutes it in nine states: a turn asks for a
  confirmation, a first `confirm()` calls the tool, a second one is let in while the
  first is at the tool, and calls it again.
* `WorkflowExecutor`: condition and loop blocks that have inputs always fail,
  because `run_in_executor` takes no keyword arguments; the body of a loop is
  executed once. `FunctionCalling` returns one of its two outputs, so the block
  behind the other wire is passed over when its input is required, and the whole run
  fails (a `KeyError` in `_gather_inputs`) when its input is nullable.
* `ResourceLifecycle`: a crash between `os.replace` and the registry write
  leaves a version that cannot be installed; `restore_backup` forgets newer
  versions and replaces a directory without a backup of it; `update_archive`
  keeps an enabled resource enabled when the permissions are the same, although
  its docstring (line 666) says it stays disabled until confirmed.
* `ProviderConfig`: the "already loaded" check of `load_backend`
  (`llm_manager.py:202`) never objects, so an import over a loaded provider, or a
  rename onto an existing name, leaves the old adapter serving; a provider that
  is enabled but not loaded cannot be deleted; one whose creation fails to load
  stays in memory and is saved by the next write; a failed restore leaves all
  providers unloaded; the comment at `web/api/llm/routes.py:1561` says the lock is not held
  during a detection, but the decorator holds it; `config.yaml` is written in
  place, and a save after a torn write copies the broken file over `.bak`.
* Not modelled, read only: `update_adapter` writes a snapshot of the configuration
  taken before its awaits, and `is_running` is set after one; a stop of an MCP
  server that is connecting returns at once, a refresh may leave the task of a
  connecting server behind, and a server whose list of tools could not be loaded
  stays connected without tools; a backup made while the application writes may
  fail its own inspection, and a death between two component moves of a restore
  leaves a mix for the operator, who has the rollback archive.

### Fairness

* OneBot: the loop runs a coroutine whose await is over (WF); the asyncio lock
  serves waiters in order (SF on `Acquire`); the upstream call is bounded by
  `wait_for` (WF on its result); heartbeats call `resume_pending` again and
  again (SF on `Deliver`); the container restarts the process (WF on `Start`).
* Other queues: SF on the steps of each task, because `asyncio.Lock` serves
  waiters in order and the upstream calls have time limits.
* LLM: threads run (WF on the local steps); the clock advances (WF on
  `DeadlinePasses` and `Ripen`); the wait polls every 50 ms and ends by an
  answer, an error, the deadline or the cancellation; the consumer of a stream
  reads on or closes it (WF on the disjunction). Nothing is assumed about
  answers of a provider.
* Inbound: conversion, send and dispatch each end in one of their ways, the
  notice is bounded, the recovery task goes on with the next update, the process
  is started again. The steps are weakly fair; a delivery by the upstream is not.
* Agents: a coroutine at an await goes on (WF): models, tools and hooks have
  time limits. Nobody has to confirm anything: a turn that waits for a
  confirmation has ended.
* Workflows: the executor and the thread of a block go on, and the time limit
  is reached (WF). That a block which waits for the loop is not served while the
  loop waits for its thread is part of the model.
* Files: the process goes on, and starts again after a crash (WF).
* Providers: a detection goes on (WF): HTTP requests have time limits, the lock
  is free again after each edit, the writing thread ends.

## 5. Proofs

The theorems hold for every value of the constants allowed by the named
assumption of each module (`OutboxAssumption`, `BreakerAssumption`,
`FailoverAssumption`, `ReceiptsAssumption`, `PlatformAssumption`,
`TransactionAssumption`, `RuntimeAssumption`, `WorkflowAssumption`,
`LifecycleAssumption`, `ProviderAssumption`). These only type the constants, make thresholds and limits
positive where the constructors of the code do, keep `None` apart from the values
it stands beside, and say that there is an agent, a permission, a finite workflow
and, at the first start, a list of providers with different names; TLC evaluates them on every run. Two
theorems of `OneBotOutboxProofs` (`SingleService`) and those of
`FileTransactionProofs` (`Careful`) have a
hypothesis more, which is named in the statement. Each module proves one
inductive invariant: it holds initially, every action preserves it (one step per
action), and it implies the property.

**OneBotOutboxProofs.** `TypeCorrect` and `MutualExclusion` need no
restriction. Exclusion is not inductive by itself: `LockInv` adds that a busy
worker refers to the very lock state the table holds for its recipient, which
is what dropping a lock state too early would break. `NoDuplicates` assumes
one service on the table (with two it is false, see the observations);
`SafeInv` relates the upstream to the rows: what the upstream has or had is the
last attempt of a row that is not waiting to be sent. `InOrderDelivery` has the same
assumption and lets the commit of any row be lost. `OrderInv` says that a row is
attempted only after all its predecessors were accepted, or at or behind a row of
`lost`, and that a row in flight outside `lost` has a worker; the latter is what a
lost commit breaks for the row itself, and what keeps the others in order.

**ModelManagerProofs, failover.** `Inv` is `TypeOK`, a fact about each request (output
handed out means one attempt, and a retry or another provider is reached only
without output) and `BreakersOK` (a closed breaker is below the threshold, and
its count of recoveries is at most the successes seen since the last failure).
`BreakerOpensInTime`, `OneAttempt` and `TrustEarned` follow; the lemmas about
the methods of a breaker (`SuccessKeeps`, `FailureKeeps`, `RestoreKeeps`, ...)
carry the argument, so that a step of the manager only has to say which method
it applies. A restored breaker brings the successes it had before the restart,
so the history `streak` restarts from that number.

**ModelManagerProofs, providers.** `ConfigInv` has five parts. `ListInv`: only
doubled names occur twice in the list, and every other name is served as
configured (`ServedAt`: no adapter of the name but the registered one, and that one
made of its enabled entry). It is stated name by name, so that a step only has to
say what it does to one name and that it keeps the others: `Kept` and `Out` say
this of the manager, `Carries` of the list, and the lemmas about `LoadBackend`,
`UnloadBackend`, `LoadAll`, `UnloadAll`, `Put`, `With`, `Append` and `RemoveAt` are in these
terms. That names are unique is what makes the first entry of a name, which
`load_backend` takes, the entry that was edited. `Detections`: whoever saves holds
the lock, so at most one does, and the adapter a detection asked has the
configuration of the fingerprint it noted, which makes the comparison under the
lock enough for `CataloguesAreFresh`. `FileKept` strengthens `MemoryIsFile` by
what the file holds during a save: what `Undone` would put back, as long as
nobody else has written, and the list afterwards; without it a failed write of the
scheduler could not be shown to leave memory and file equal. `FilesTyped` and
`Counted` type the rest. `ServesWhatIsConfigured`, `FileFollowsMemory` and
`ConfigTypeCorrect` are implied; `ProvidersStayLoaded` is proved with the
preservation of `ListInv`, action by action.

**InboundReceiptsProofs.** `OwnWrites` says once for all steps of a handler
what they do: they touch the row of its event only, never undo `completed`, and
open the row only when the handler stops working. `CompletedStays` follows from
it. `NeverAbandoned` needs one more fact, `RepliedDone`: WeCom leaves the row
alone when its dispatch raises after the reply, and then the reply has completed
it; `GivenUp` says that a handler that stops working has given up its row or
could not store that. `OneHandlerPerEvent` rests on `Owned`: a handler at work on
an event outside `outlived` has the row in processing or completed, so that
`claim()` gives it to nobody else, and no second handler works on it. The
theorems hold for any mix of channels and for any number of adapters on one
WeCom table.

`OneReplyPerEvent` needs to know who may still reply. For the channels that
reply at once (`RepliedOnce`) a reply is followed by `completed`, and until then the
handler that has sent it owns the row, so `claim()` lets nobody reply again; a
handler that is dispatching has not replied. For WeCom (`SentOnce`) it is the
outbox that remembers: only one handler sends at a time, no reply has arrived
before it, and a row that may still be sent although its reply may have arrived
exists only between a crash and the start that quarantines it, when the adapter is
stopped and nobody works on the event. `Channels` says which handlers may wait
for a send. The exceptions of `AnsweredOnce` are those of the code, and each is
used: TLC refutes the property without it.

**PlatformOutboxProofs.** `Base` adds to the types that the one task at work
holds the lock (`LockInv`) and that a row in flight has a task (`RowInv`).
`NoDuplicates` rests on `SentInv`, a row that may still be sent has not been
received; `InOrder` on `OrderInv`, everything before a row that is received or
being worked on was accepted or is at or behind a lost one; `NothingForgotten` on
`CoverInv`, every row of a started queue is settled, in `due`, or in the range of
a task. `OutcomesAreFinal` needs `Base` only. The loop of
`_deliver_recipient_through` looks for the first row that is not accepted
(`First`); that there is a first one follows from the well-foundedness of strict
subsets.

**WorkflowExecutorProofs.** `BlocksRunOnce` rests on `RunInv`: a normal block
has a result exactly when it was executed, then with the results of its sources and
a value on every wire to it, and only loops wait below on the
stack. `NoneSkipped` rests on `ListInv`: a block that is due has a result, is being
executed, or is still to be visited on some list of the stack. Due is a normal block
that declares no inputs, or has wires from normal blocks only, all of which have
results, and has a value for every required input (`Ready`). The interesting step is
the return of a block: it puts the targets of its wires on a list, which is exactly
where its last source being met makes another block due. Values do not appear later:
a normal block has its result once, and `given` with it (`StaysSupplied`).

**AgentRuntimeProofs.** `Base` says who works on what: a coroutine that a
delegation waits for is the only one and ends with its parent (`TreeInv`),
whoever carries out a confirmed call has claimed its record (`PlaceInv`), and a
turn whose confirmations have not come again has one holder, a coroutine or a
waiting record (`HolderInv`); the last is why a confirmation and a late coroutine
cannot both answer. `PerformInv` counts: the calls carried out for a record and the
coroutines that wait for its hook are together at most the claims of the record,
the first and the repeated ones; this gives `ConfirmedOnce` with any number of
repetitions. `RoundInv` (the requests of a turn are at most its rounds, in the
coroutine and in the stored record) and `ShownInv` (a turn that is held has not been
shown) speak of turns without repeated confirmations, as the properties do; `SeenInv`
(what a coroutine, a record or a history has seen is closed under what the turns in
it had seen) speaks of all.

**ResourceLifecycleProofs.** `ProperInv`: memory and file agree and know their
current version, and so will what an operation writes. `PermissionInv`: memory
and that next record are enabled only as agreed. `OrphanInv`: a directory is
explained by the record, by `stuck`, or by the operation under way. `CoverInv` is the
argument for `InstalledIsRecoverable`: only the current version depends on its
directory, every other archive of the record has a backup or was discarded by a
removal or replaced, and so has the current one before an operation touches its
directory.

**FileTransactionProofs.** `Careful` names the caller the promise is made to: one
that recovers the directory before it writes, or is hit by at most one error. It
is needed, as the observation on two errors shows, and the price catalogue
satisfies it for any number of errors. The invariant has two layers. `Base` always
holds: at most one transaction is pending and it is newer than what is settled
(`OrderInv`), and where the process stands with it (`StepInv`, `CallerInv`).
`Contentful` holds as long as no write was torn, or the one being discarded at the
moment is the only one (`Sound`): the staged files, targets and backups of a prepared
transaction suffice to complete or to withdraw it, those of one that is rolling back
to finish that, and with none pending the files are those of the last commit
(`DiskContent`, `StepContent`). From both a lemma says what a recovery would find in
each state, and others map every step to `Propose`, `Commit`, `Withdraw` or a stutter
of `AtomicFiles` as long as nothing is torn, and to `Break`, `Broken` or `Mend`
otherwise: `GroupsAreAtomic` is the refinement that the run checks. `CommitsAreOrdered`
needs `Base` only and so has no exception for torn writes.

Only model-checked:

* the liveness properties (`EventuallySettled`, `DeliverEnds`, `EveryRequestEnds`,
  `EveryTurnEnds`, `RunEnds`, `StartEnds`, `DetectionsEnd`, `EventuallyUnblocked`,
  `Replayed`): liveness under fairness is beyond the prover;
* the two runs that refute a statement, whose traces are the result.

## 6. What is not modelled

The components with status `not_modelled` in `PROJECT.json`, each with its
reason. Within the modelled parts: wording, payloads, delays and their
computation (`outbox_backoff.py`, `pacing.py`), the statistics shown to an
operator, changes of thresholds at run time. The largest files not reached are
conversions of text (`im/text_render.py`), download and validation of archives
(`plugin_manager/resource_catalog.py`, most of `resource_lifecycle.py`), prompt
assembly (most of `agent_runtime/core.py`), release scripts (`scripts/`) and the
handlers of the web API that only read or format; they keep no state that two
actors share.
