# TLA+ models of ZTermy

ZTermy is an SSH terminal for Windows (Qt 6, C++23, about 138 000 lines under
`src/src`). This directory holds TLA+ models of the parts of it where threads,
callbacks and failures meet, the TLC configurations that check them on small
instances, and proofs for every instance that TLAPS checks. Paths below are
relative to the repository root as it appears in `PROJECT.json` (`src/src/...`
for code, `src/docs/...` for documents).

    TransferQueue ─┬─ TransferManager ── TransferProperties ── TransferManagerProofs
                   │                         └ TransferLifecycle (implemented)
                   └─ TransferBatches ── TransferBatchesProofs (with Loops)
    HostKeyPrompts ── HostKeyProperties ── HostKeyProofs
    ForwardingClient
    SshSession ── SshSessionProofs
    AiTurn ── AiTurnProofs (with Loops)
    LastKnownGood ── Credentials ─┬─ MCCredentials
          └ SavedDocument         └─ CredentialsProofs
            (implemented)

A line is EXTENDS; "implemented" marks an abstract specification that is
instantiated with a refinement mapping.

To check a model: `tlc -config TransferPairCenter.cfg TransferProperties.tla`
(the module of each configuration is in the table of runs). To check a proof:
`tlapm HostKeyProofs.tla`. The few theorems about `ForwardingClient` are in the module
itself; `Loops` is what the proofs about handlers that loop share.

## 1. The system

One GUI thread owns every QObject: `AppController`, the transfer manager, the
sessions' front ends, the QML models. Everything that can block (SSH, SFTP,
files, HTTP) runs on a `std::jthread` with a stop token. A worker never calls
the GUI side directly: it posts a closure with a queued
`QMetaObject::invokeMethod`, which the event loop runs later, in order, unless
its receiver is gone. The GUI side talks back through atomics, mutexes with
condition variables, and the stop token; in a few places it *joins* a worker
and blocks. That is where most hazards come from: what a closure finds when it
runs is not what the worker saw when it posted it.

### Inventory

| component | state it keeps | operations | talks to | what is hard | what makes it correct |
|---|---|---|---|---|---|
| Transfer queue (`domain/sftp/TransferQueue`) | tasks with status, bytes, error | enqueue, takeNext, pause, resume, cancel, retry, complete, fail, dismiss | transfer manager | a status is all the scheduler sees of a thread | transitions follow the table; slots are bounded |
| Transfer manager (`application/sftp/TransferManager`) | queue, `m_work`, `m_workers`, conflict requests | the calls of the Transfer Center and of batches, `schedule`, result handlers, shutdown | executor threads (posts), journal (file), AppController (signals) | late and duplicate results, joins on the GUI thread, crash between change and journal | status matches thread; nothing lost, nothing comes back; everybody is served |
| Transfer executor | one open file pair, a `.ztermy-part` file | prepare, copy loop, commit, cleanup | SFTP client, disk, stop token | a stop or failure at each step; resume from a partial | nothing replaced without a decision; partial kept on pause, removed on cancel |
| Transfer recovery journal | `transfer_recovery.json` | save, load | transfer manager | crash | holds exactly the unfinished transfers |
| Transfer batches (`TransferBatchCoordinator`) | batches, entries, planner threads, pause-all flag, a 750 ms save timer | enqueue, plan, cancel, pause, retry, dismiss, recover | transfer manager (unfiltered calls on every child, snapshots back) | planner against cancel; two journals that age differently | completed means every file is; a restart loses no child |
| Host key prompt (`AppController`, `HostKeyPrompt.qml`) | one dialog, four owner fields | show, accept, reject, clear | every connecting thread (question, slot, wait) | many askers, one dialog; stale dialogs; joins | an answer reaches the question that was on the screen; everybody is answered |
| SSH connection bootstrap | route of hops, authentication attempts | resolve, connect, verify, authenticate per hop | sessions, transfers, rules, known-hosts store | stop at any point | no channel before the key is trusted |
| SSH terminal session | phase, input queue, snapshot, decision slot, worker | start, reconnect, close, write, resize | AppController (signals), libssh2 | events of the previous run, reconnect timers, last frame | events of an old run change nothing; input in order |
| Port forwarding (`PortForwardingJob`, rules) | rule, worker, up to 32 clients with two 256 KiB buffers, SOCKS5 state | start, stop, accept, pump, close | AppController (snapshots, prompts), libssh2 | half-closes, backpressure, slots, join on stop | bytes in order and complete; slots come back; stop ends |
| SFTP session and client | command queue, request generation, worker | list, mutate, resume, disconnect | directory model, libssh2 | answers for an older directory, reconnect | only the newest listing is shown |
| libssh2 transport | socket, session, channels | non-blocking calls with deadlines | everything above | timeouts during close | resources are freed once |
| AI turn runner and dispatch ledger | attempt, tool calls, budget, ledger of call ids | start, cancel, stream events, tool completion, retry | provider client (callbacks), tool dispatchers | callbacks of an old attempt, retry after a side effect, re-entrancy | a tool call runs once; a turn ends once |
| AI permission, guard, tools | policy, pending approvals, command tracker | classify, ask, dispatch | turn runner, terminals | approval for a call that is over | nothing runs without its approval |
| AI providers, conversations | HTTP replies, documents | stream, compact, redact, save | turn runner | parsing | conversions |
| MCP runtime | servers, pending requests | start, call, restart | AI tools, child processes | answer after a restart | answer goes to its request |
| Local terminal session | ConPTY process, engine | start, write, resize, close | AppController | process exit against close | as SSH session |
| Terminal engine, command blocks | screen, scrollback, blocks | feed, query, evict | sessions, rendering | bounds | blocks match the scrollback |
| Last-known-good files | primary, backup | load, save | every store | crash between two writes | a valid document survives |
| Credential vaults and migration | two vaults, a setting | read, write, migrate, roll back | keychain, settings | failure half-way, crash before the setting is saved | no secret lost |
| Keychain, profiles, known hosts | documents | edit, migrate | connections | locking, crash | references resolve |
| Workspace and windows | split trees, tabs, windows | split, close, move | AppController | handover between windows | each tab in one window |
| Scripts, history, logging, telemetry, settings, QML, Win32 | values | validate, format, paint | - | little state | conversions |

Each component, modelled or not, is in `PROJECT.json` with the reason for its
status; the hazards listed there name the line at which each one bites.

## 2. What is modelled, and how it corresponds to the code

### 2.1 Transfers: `TransferQueue`, `TransferManager`

`TransferQueue` is the transition table (`canTransition`) and one operator per
queue operation. A task is `[st, bytes, code]`; an operation that the code
rejects returns its task unchanged, because callers look at the result only in
assertions. The journal is here too: which tasks are recoverable, what is kept
of them, what a restart makes of an entry.

`TransferManager` is the GUI side and the worker threads.

| variable | code |
|---|---|
| `task`, `order` | `TransferQueue::m_tasks` |
| `work`, `opts` | `m_work`: its keys, and the conflict action in an entry |
| `asked` | conflict dialogs without an answer |
| `worker` | `m_workers`; slot `dup` is the thread that a failed `emplace` destroys |
| `events` | closures posted by the workers, oldest first |
| `gui` | what the GUI thread does: `idle` in its loop, inside `schedule()`, or inside a join that blocks it |
| `partial`, `dest`, `cleaning` | the partial file, the destination, the cleanup thread |
| `journal` | `transfer_recovery.json` |

Every public call is one action and includes the snapshot it publishes and the
journal it writes. `schedule()` starts one task per step (`StartNext`), so that
workers run between two starts. A worker is a chain of steps: credentials,
connect, prepare, copy, commit, and exactly one final event; `Prepare` and
`CopyStopped` follow the order of checks in `executeDownload` and
`executeUpload`. Joins on the GUI thread (`joinWorker`, `joinDuplicate`) are
states in which no other GUI action is enabled. `Crash` keeps the files and
forgets everything else; `Restart` is `enableRecovery()`.

Who calls matters. The Transfer Center offers a call only in some statuses
(`CenterOffers`, from `TransferCenter.qml`), while the batch coordinator applies
a call to every child whatever its status; `Callers` selects them.

Abstractions: a file is its length in chunks (`Size`); the journal is written
in one step (`QSaveFile`); the upload's rename is one step, which may succeed on
the server and still be reported as failed. A source may turn out shorter than it was (the
copy ends early, commits and counts as delivered, as in the code) but does not grow. Speeds,
names, the 10 000 task limit and the rename decision (a new path, not a new state) are left out.

`TransferLifecycle` is the abstract specification: a transfer waits, holds one
of `Limit` slots, rests until the user acts, or is over. `ImplementsLifecycle`
(in `TransferProperties`) maps statuses to its phases.

### 2.2 Host key questions: `HostKeyPrompts`

Four kinds of connection ask (a terminal, its SFTP panel, a transfer, a
forwarding rule), each on its own thread, once per unknown key of its route; one
dialog shows them. `conn` is a connection thread with its answer slot
(`awaiting`, `decision`, the stop token), `events` the posted questions,
`prompt` the dialog with AppController's four owner fields. The model keeps the
differences between the slots: a terminal session takes only the first answer,
an SFTP session and a transfer the last, a rule takes answers when it does not
wait and its wait has no stop token. `Deliver` is the handler of a posted
question: those of tabs take the dialog over and leave the owner fields of a transfer or a
rule as they are, so that the answer goes there; those of transfers and rules answer
"reject" when the dialog is taken. The ghost fields `shown` (the question that
was on the screen) and `run`, `hop` exist for the properties.

The dialog covers the main window (`HostKeyPrompt.qml`), so while it is up the
user starts or closes tabs only from detached windows, and rules and transfers
start only by themselves; `Uncovered` and the guards `~prompt.visible` say so.

### 2.3 One forwarded connection: `ForwardingClient`

`pumpEstablishedClient()` step by step: read, write, end of stream, fetch,
flush, shut. Bytes stay in order by construction of `ByteQueue`, so a stream is
four counters: sent, read, written, taken. Between two steps the client and the
remote end send, take, end or reset as they like, and any call may fail. The two
ends are external; everything else is the code's.

### 2.4 Batches: `TransferBatches`

The coordinator above the manager, over the same task records. `batch`, `entry`,
`planner`, `held`, `timer` and `file` are `m_batches`, the entries' statuses,
`m_planners` with a posted outcome, `m_pauseAllRequested`, the 750 ms recovery
timer and the batch file. Every handler of the GUI thread is one action and
applies the manager's calls one after the other, each with the snapshot it emits
(`CallEach`, `CallOffered`, `OnBatches`, `ClearEach`, `PlaceEach`: recursive
functions whose n-th value is the state after n calls), because a crash can fall
between any two of them (`Handler`), be they for the children of one batch (`Calling`,
`Clearing`), of the next, or for the transfers of none. The manager
is reduced to its queue, its providers and the results its workers may post;
what the reduction takes for granted (a task that can be queued has its
provider, no slot stays free, the journal is current) is what the runs and
theorems of `TransferManager` say. A planner is told to stop and may yet
post a plan. Which decision the user takes about a conflict shows in what the worker may then
answer (`Answers`): Skip and Replace complete, Cancel ends as a stop does, Rename to a path that
exists fails. Left out: directory entries, byte counts, the limit of 32 batches.

### 2.5 A turn of the assistant: `AiTurn`

`AiTurnRunner` with the provider's client below it and AppController's tool
handlers, dispatch ledgers and approvals around it, for one tab. Everything runs on the
GUI thread, so a handler is one step, its nested calls included; what
interleaves is what the handlers wait for: replies (`net`), the user (`action`,
`mcp`), the MCP server (`server`), timers and the SFTP session (`ticks`), the connection of the tab
(`link`, `gen`). A directory or file read over SFTP has no timer, and `stopSftpSession()` answers
nobody (`SftpStops`); an answer over 64 KiB is taken neither by the ledger nor by the runner, while
its timer or request is gone (`AnswerTooLarge`, fault `"large"`). An aborted reply still reports that it finished, in a step of its own.

A call is its id, its tool and the response that made it; a provider either names its calls
afresh or reuses ids. What the permission rules and the guard decide is a free
choice, `"unstartable"`, `"oversize"`, `"network"` are failures of the
provider's request. Abstractions: the terminal states of a ledger record are one
(`"over"`: which one changes no decision), a request is known by its turn, which
makes the next when the one before is released, a reconnect that succeeds does so at once, write ownership and the time
budget are left out. Commands that need a terminal to write to and those that need none (a runbook, a
transfer to queue) are one tool: the model lets the second sort ask or finish while the tab is not connected,
and does not remember at the approval which sort it was.

### 2.6 Files and secrets: `LastKnownGood`, `Credentials`

`LastKnownGood` is `LastKnownGoodFile`: a primary and a backup, each replaced
atomically, so a save is two steps with a crash, a failure or neither after each
(`Abandon`). Between saves one of the two files may be damaged while the other is whole,
and a newer version may save a document this one must not touch. `SavedDocument`
is what that promises: the latest document, one earlier, and no replacement
before the latest is the earlier one.

`Credentials` puts the settings file on top, whose documents are the vault it selects.
Each operation of AppController and `CredentialVaultCoordinator` (save, forget,
migrate with and without cleanup, clear) is a list of writes, a file to save, and
the undoing of the writes in reverse when one fails; each write is a step, up to
`MaxFaults` of them fail, undoing included, and the program may die after each. A write that
cannot be undone is passed over, as in the code, and no report tells of it; `op.left` keeps it for
the properties.
Left out: encryption, the portable vault's own file, the assistant's secrets.

### 2.7 A terminal session: `SshSession`

The session object, its worker and the part of the tab that follows its signals
and reconnects. Publishing a frame and delivering one are split at every access
to what the two threads share (`ses`: the waiting frame, the dirty flag, the
scheduled flag, the command queue); between two accesses a thread is one step.
Events carry no run number in the code; the `run` field written into them here
is read by the properties only. `Attempt`, `TimePasses` and `timers` are
`scheduleSshReconnect` with its generation check; `worker.at = "readOnly"` is the
loop that keeps an ended terminal usable.

Left out: geometry and resizes, telemetry and keepalive (they only choose when a
run fails), encoding, status texts, exceptions, and a picture the engine cannot take
(`SshTerminalPresentation.cpp:97-103` returns with the dirty flag cleared: the output then waits for
the next one). Merged: setting the dirty
flag belongs to the worker's step that changed the engine.

## 3. The runs

| run | question | properties |
|---|---|---|
| `TransferBatchCalls` | one upload onto an existing file, both callers, every call, decision and fault, crashes and restarts | `TypeOK`, `QueuedHasWork`, `JournalCurrent`, `FinishedStays`, `OverwriteDecided`, `CompletedMeansDelivered` |
| `TransferPairCenter` | an upload and a download onto an existing file compete for one slot under the Transfer Center's calls, with faults, shutdowns, crashes, restarts | `ThreadMatchesStatus`, `SlotLimit`, `WorkConserving`, `ImplementsLifecycle` |
| `TransferProgress` | a download onto an existing file and another over one slot, with conflicts, pauses, cancels and every way to fail: does a cancel settle, and is every queued transfer taken | `CancelSettles`, `QueuedIsTaken` (liveness) |
| `TransferBatches` | a batch of two files under every call, with a planner that is too late, refused children, failures, crashes at any call, restarts | `EntriesMirrorTasks`, `CompletedMeansSettled`, `DismissLeavesNothing`, `CancelledPlanQueuesNothing`, `PauseAllHolds` |
| `HostKeyQuestions` | a terminal, its panel and a transfer with two-hop routes over two runs, while the tab closes, the panel restarts, the transfer pauses, the program quits | `AcceptedAsShown`, `QuestionKept` |
| `HostKeyBackground` | a transfer, a rule and a terminal compete over two runs, while the tab closes, the rule stops, the program quits | `DialogHasOwner`, `EveryQuestionAnswered` (liveness) |
| `ForwardingPump` | more bytes than a buffer each way; half-closes, resets, errors at every step | `TypeOK`, `FinishedIsComplete`, `EndOfStreamLast`, `DownstreamFlows`, `EndedConnectionLeaves` (liveness) |
| `SshSession` | a terminal that fails, reconnects, is closed and reopened, with output, synchronized output, scrolling and typing at every point | `LastOutputIsShown`, `InputIsNotReplayed`, `StaleEventsChangeNothing` |
| `AiTurn` | two turns whose provider names its calls alike, a full ledger, a lost connection that is given up, answers too large | `PendingIsAwaited`, `EffectsOnce`, `ApprovalsMatchLedger`, `RetryRepeatsNothing`, `LateEndIsIgnored` |
| `AiTurnEnds` | one turn with commands, MCP calls and SFTP reads, a retry, a pause, a lost connection, also given up, a stopping SFTP session, answers too large | `AnswererKept`, `TurnEnds` (liveness) |
| `Credentials` | a profile with two credentials, three operations, two faults in each, crashes, damaged files | `CopySurvives`, `AsBeforeOrAsAsked`, `FailureRestores`, `ImplementsSavedDocument` |
| `SshReconnectBudget` | refuted: ADR 0045 | `RetriesBounded` |

Each property of a passing run is also checked against a seeded fault (the
operators whose comment begins "Seeded fault"), which must break it; so none
holds only because the model is too small. A type invariant is checked where the
run has time for it; for the transfers, the pump, the dialog and the turn it is a theorem.

**Bounds.** `Size` is 1: a transfer then has a state before, in and after its
copy, a partial of zero and of full length. Two tasks and one slot are the least
in which a slot is contended. `Backlog` bounds how busy the event loop may be
when the user acts: with 2, a call meets a thread's final event, or its progress,
that is posted and not yet delivered. A batch of two files has one that runs, fails or is
refused while its sibling waits, and an existing one asks a conflict. `Runs` is 2, and `Hops` is where
answers are checked (`HostKeyQuestions`): an answer to the first run or hop is stale for the second; the
liveness of `HostKeyBackground` has a tab, a transfer and a rule, so every kind of take-over, with one hop.
The pump
runs with a buffer of 3, chunks of 2, room 1 and 5 bytes each way: a chunk can be
too large for the rest of the buffer, and more is sent than buffer and reader
take. `SshSession` has two runs, two reconnect generations, and one of each thing
that can be printed, typed and scrolled, with a queue of one: the second run meets
what is left of the first; it is the largest instance (12 million states, about
two minutes), and a second input or chunk multiplies it beyond use; what it says of input is
proved for any number. `AiTurn` has a ledger as large as a turn's budget, so a second turn evicts the first one's
records. `AiTurnEnds` offers SFTP reads and not the waits that have a timer (`"read"`): they take the same path with less
that can go wrong. Three credential operations are a migration, one back, and a
change of a profile between or after them; secrets are symmetric, which is sound because no liveness is
checked there. The proofs need no bound.

**Deadlock** is not checked: a program whose transfers are over, whose
connections or turns have ended, or whose client is erased rests until the user acts.

**Fairness.** Transfers: the event loop runs and gets to a posted event however often the user calls in
between (`SF`: the queue of events is served in order), `schedule()` runs, every worker step
is eventually taken because each remote operation has a deadline
(`SftpClient.cpp`, 30 s, and the connect and authentication timeouts), shutdown goes
through. Nothing obliges the user. Host keys: posted closures are delivered, a
woken thread runs, the user answers a dialog on the screen, a stopped connection
ends. Forwarding: the worker makes a pass at least every 8 ms
(`idlePollInterval`); that the ends read is a premise of the properties, not of
the specification. Assistant: replies and MCP calls end (both have timeouts), timers
fire, an SFTP session that is not stopped answers (each of its operations has the deadline of 30 s), a pending
reconnect is attempted or given up; nothing obliges the user, and `TurnEnds` allows a turn to
wait for an approval, and one that has lost its answerer to wait for ever.

### Disagreements between code and documents

One is a run: an SSH host that stays away after a connection of thirty seconds is
retried for ever, because the time of that connection is never reset
(`AppController.cpp:7832`; ADR 0045 bounds the count). The others were met while
modelling. Where a property states the document's sentence, it is defined in its
module under "does not keep", and TLC refutes it with the constants given here
(those not named are empty sets, or 1, or 0 for bounds of faults and retries):

| property | constants | what happens |
|---|---|---|
| `ActiveHasThread` | `Tasks={t1}`, `Existing={t1}`, `Callers={"center"}`, `Calls={"retry"}`, `Decisions={"cancel"}` | a conflict answered with *Cancel* re-runs the task; its `Cancelled` result moves it to Cancelling after its worker was erased, and it keeps its slot (ADR 0033). The same after a credential error: `Calls={"cancel"}`, `Faults={"credential"}` |
| `CompletionAccepted` | `Tasks={t1}`, `Callers={"center"}`, `Calls={"pause"}` | a pause that crosses the final result leaves a completed file in Pausing: the assertion in `handleResult` fails, or the slot is kept |
| `PauseAccepted` | `Tasks={t1}`, `Callers={"batch"}`, `Calls={"pause","resume"}` | two batch pauses and a resume give the first worker's Paused result to the second run |
| `LiveThreadsWithinLimit` | `Tasks={t1,t2}`, `Callers={"center"}`, `Calls={"cancel","pause"}` | cancel-all on a pausing transfer frees the slot of a live worker (ADR 0026) |
| `CancelledLeavesNoPartial` | `Tasks={t1}`, `Callers={"center"}`, `Calls={"cancel"}` | a cancel that ends a blocked read leaves the partial (ADR 0043) |
| `PausedKeepsBytes` | `Tasks={t1}`, `Size=2`, `Callers={"center"}`, `Calls={"pause","resume"}` | a pause before the copy loop records zero bytes; the next run deletes the partial (ADR 0043) |
| `CompletedBatchIsSettled` | `Batches={b1}`, `Files=1`, `Faults={"io","crash"}` | a file fails, and its batch shows Completed after a crash and restart: `updateBatchStatus` counts no Interrupted entry (V2_12_SCOPE; ADR 0051 has partial failures inspected and retried) |
| `DecisionStaysWithAsker` | `Tabs={t}`, `Rules={r}` | a tab that asks while a rule's question is up takes the dialog over, and the answer goes to the rule (ADR 0008) |
| `NoStaleConfirmation` | `Tabs={t}`, `Runs=3`; or `Rules={r}`, `Runs=3`, `Calls={"stopRule"}` | a terminal that reconnects from a detached window under an old dialog takes its answer; a rule that was started again takes the answer to a question its former job left in the event queue (ADR 0005) |
| `JoinedWorkerCanEnd` | `Rules={r}`, `Calls={"stopRule"}` | a rule stopped just before it asks makes the GUI thread join a worker that waits for the GUI thread (V2_10_SCOPE) |
| `RulePromptIsCurrent` | `Rules={r}`, `Runs=2`, `Calls={"stopRule"}` | a stopped job's question is shown as its successor's (V2_10_SCOPE) |
| `SlowReaderKeepsConnection` | `MaxBuffered=4`, `Chunk=2`, `Room=1`, `Total=6` | a connection whose reader is slow is closed, not slowed down, when a read brings more than the rest of the 256 KiB buffer (V2_10_SCOPE) |
| `AnsweredForItself` | `Turns=1`, `MaxCalls=2`, `Capacity=2`, `Offered={"command"}`, `Names={"reused"}` | a second command under the id of an earlier one is answered with the earlier one's outcome (AI_ARCHITECTURE) |

`ActiveHasThread` and `CompletionAccepted` are the two ways a transfer loses its slot for ever: `CancelSettles` leaves out
the answers the first is about (`AsksForAttention`), `QueuedIsTaken` holds until every slot is lost (`SlotLost`).

Seen in the models and bounded out or stated more weakly where a property touches them:

* SSH: what a run that never connected was to show (its retained history) is dropped at
  its end when a frame still waits, and appears with the next view command
  (`SshTerminalSession.cpp:1579`), hence `up` in `LastOutputIsShown`; the last frame of a
  run can be drawn over a newer view of the read-only loop, so that property speaks of
  output and not of scrolling.
* Batches: after a refused child a batch counts as Failed with its siblings running, and a dismiss leaves
  them behind (the premise of `DismissLeavesNothing`); cancelling all marks a
  Completed batch Cancelled until the next snapshot; a batch that was restored with a failed
  status is not saved again, so a second restart loses it; a batch still being
  walked is never saved, and a crash inside `completePlanning` leaves children without one.
* Host keys: a question is lost when a tab overwrites that of another tab or panel, or closes with the dialog it had
  taken over from a transfer or a rule: the two exceptions of `QuestionKept`.
* Assistant: three steps leave a turn to wait for a tool nobody will answer, until the user cancels it
  (`LeavesUnanswered`, the exceptions of `AnswererKept`). A lost connection raises the generation at once, an MCP
  answer of the old one is then dropped, and the reconnect that would cancel the turn is given up; `stopSftpSession()`
  (`AppController.cpp:8345`) drops the session that was asked for a directory or a file; an answer over 64 KiB is refused
  (`AiTurnRunner.cpp:141`) after its timer, request or pending call is gone. Of the last the code says that it "would
  otherwise leave the turn waiting forever" and that it is surfaced (`AppController.cpp:13752`): the tab shows an error,
  the runner keeps waiting.
* Assistant: approving a command discards the closure that would cancel it, so its ledger record may stay
  "running"; a cancelled MCP call is recorded as failed; closing a tab does not clear the MCP ledger;
  an approval does not check write ownership again. `Faults` `"quick"` lets a
  stale timer answer the next turn; no run uses it, because it needs two turns within one timer period.
* Credentials: after a migration with cleanup, damaged settings fall back to a backup that names the
  emptied vault; clearing the vault in use
  resets the reference to the login only; a failed settings save leaves copies in the target vault; settings that
  cannot be read for a moment make the program start with the previous generation and build its next save on it.
* Credentials: a rollback that fails itself is only logged (`AppController.cpp:1958`). The user reads that "Credentials were
  restored because host profiles could not be updated." (`:14345`) also when restoring them failed, and that a migration
  "was rolled back because verification failed." (`:1953`) also when its rollback was incomplete, as
  `CredentialVaultCoordinator.cpp:179-183` returns the same code for both. The model reports a plain failure, and
  `FailureRestores` excepts the secrets whose own undoing failed (`op.left`).

## 4. What is proved

TLAPS checks the theorems of eight modules, for every value of the constants that
satisfies the named assumptions (`Limit`, `Size`, `Chunk`, `Runs`, ... positive; `Tasks` finite).

| theorem | statement | argument |
|---|---|---|
| `TransferManagerProofs!TypeCorrect` | `Spec => []TypeOK` | `TypeOK` is inductive. One lemma per operation of the queue gives the type of what it returns; one per group of actions keeps the whole. `Events` and `Workers` carry byte counts within `Size`, which is what the copy loop's guard and `ResumeOffset` are needed for. |
| `TransferManagerProofs!SlotLimitHolds` | `Spec => []SlotLimit` | No queue operation outside `schedule()` makes a task active (`QuietOperations`, `QuietSettled`), so a step either adds no task to the active ones (`NoNewSlot`) or is `schedule()` taking one while a slot is free (`OneNewSlot`); the cardinality follows. |
| `TransferManagerProofs!QueuedHasWorkHolds` | `Spec => []QueuedHasWork` | Inductive together with `TypeOK`: whatever erases an entry of `m_work` leaves its task in a status other than Queued (`NotQueuedBy`, `NotQueuedByResult`), and whatever queues a task has found its entry. |
| `TransferManagerProofs!WorkConservingHolds` | `Spec => []WorkConserving` | Not inductive: a handler may wait in a join and then return to the loop without a `schedule()`. `ServedAtRest` asks the same of that wait; each step then frees nothing and queues nothing (`NothingFreed`), leaves nobody queued, or is the end of `schedule()`, which stops only when slots or waiting tasks are used up. |
| `TransferManagerProofs!JournalCurrentHolds` | `Spec => []JournalCurrent` | Each step publishes, touches neither queue nor journal, or is `schedule()` taking a task (`StepRecorded`). `JournalHolds` strengthens the property: inside `schedule()` the journal may keep an entry too many, never one too few; it equals the queue also while an event's handler waits in a join; and it has no entry for what is over. |
| `TransferManagerProofs!FinishedStaysHolds` | `Spec => FinishedStays` | No operation leads out of Completed or Cancelled (`OverOperations`), and a restart finds no entry (the last part of `JournalHolds`). |
| `TransferManagerProofs!ManagerImplements` | `Spec => ImplementsLifecycle` | Every step moves the phase of one task as the lifecycle allows, forgets one, interrupts what a restart finds, or changes no phase. That a task takes a slot only while one is free is the guard of `schedule()`; that a restart lets only unfinished tasks come back, and nothing outside the queue has an entry, is `JournalHolds`. |
| `TransferManagerProofs!OverwriteDecidedHolds` | `Spec => []OverwriteDecided` | What a thread may do to the destination is decided before it copies: a thread past its checks either found no file there or was started with the decision to replace it, and a decision reaches a thread only through its entry in `m_work`. The entry of an asked task has none yet. |
| `TransferManagerProofs!CompletedMeansDeliveredHolds` | `Spec => CompletedMeansDelivered` | A posted Completed result is that of a thread that committed its file or was told to skip, and nothing later takes the file away (`Delivered`); a task that is Completed got there by such a result or by the answer to skip. |
| `TransferManagerProofs!ThreadMatchesStatusHolds` | `"batch" \notin Callers` => `Spec => []ThreadMatchesStatus` | Each status allows a thread, a posted result, or neither, and at most one in all; the premise is the Transfer Center's restriction to calls that fit the status, without which the property is false (`PauseAccepted` below "Disagreements"). |
| `TransferBatchesProofs!BatchesInvariant`, `EntriesAlwaysMirror`, `CompletedIsSettled` | `Spec => []BatchInv`, `[]EntriesMirrorTasks`, `[]CompletedMeansSettled` | What a call must find and leave has two parts. `Base` holds between any two calls, so also where a crash falls: the entries of a batch come and go together and fit its status, a batch without a plan has no task, and what is completed is in place. `Shown` holds once the queue was shown: the entries mirror the tasks, and a batch that looks over is quiet. `ScheduleFacts` and `CallFacts` say that each accepted call turns the first into both, the `...Reaches` lemmas carry that through the loops of calls; a batch marked as cancelled needs its own argument (`CancelLoop`: the mark is replaced by the first task that accepts, or nothing of the batch was left to accept). A restart finds only what the file and the journal hold (`FileTrue`, `LoadedFacts`). |
| `TransferBatchesProofs!CancelledPlanIsDropped` | `Spec => CancelledPlanQueuesNothing` | No call makes a new task old (`SameQueue`); only `EnqueueChild` does, for the batch whose planner has ended, and `PlannersAwaited` says that this batch has no plan and is being discovered or was cancelled. |
| `TransferBatchesProofs!PausedStaysPaused` | `Spec => PauseAllHolds` | `Calm`: a result, a cancel or a shown queue queues nothing that did not wait or run, a child placed while everything is paused is paused before anybody is called back (`PausedAtOnce`), a conflict met by a task on its way out is not retried (`NotRetried`), and what a restart brings back is paused or failed. |
| `TransferBatchesProofs!DismissedLeavesNothing` | `Spec => DismissLeavesNothing` | A batch that looks over is quiet (`OverIsQuiet`), so each of its tasks accepts the dismiss (`DismissLoop`); when several batches are cleared, a batch set going by the slots an earlier one freed is kept (`ClearedFrom`). |
| `HostKeyProofs!DialogHasOwnerHolds`, `TypeCorrect` | `Spec => []DialogHasOwner`, `[]TypeOK` | A handler gives the dialog to the asker of the question it was posted, so the types of the posted questions come first: a question is only posted by a connection that was started (`StartedHasRun`), and a tab that is heard is open. A closing tab and a joined rule clear what they own. |
| `HostKeyProofs!BackgroundKeepsQuestions` | `Tabs = {}` or `"closeTab" \notin Calls` => `Spec => [](\A a \in Background : NotLost(a))` | For a transfer or rule with any number of tabs: its question is queued, shown with it as the owner, or answered (`Asked`). `Deliver` answers "reject" at once when the dialog is taken, and a tab that takes a background asker's dialog over leaves the owner field, which is enough to be answered. The premise matters: a closing tab hides a dialog a worker still owns. |
| `HostKeyProofs!QuestionKeptHolds` | `Spec => QuestionKept` | For each kind of asker an invariant without the claim that questions are kept (`AskedInv({})`, `TabInv({})`) and a step lemma that says of whoever still has its question before a step that it has it after, or that the step is the one exception of its kind. Which of a tab's two sessions an answer reaches depends on whether the panel was started, so what keeps a terminal's question is that a panel shown in the dialog has been (`PanelShown`). |
| `HostKeyProofs!AcceptedAsShownHolds` | `Spec => []AcceptedAsShown` | For a transfer the question it waits for is the only one of its own that is posted, shown or answered, because its slot is emptied before the next one is posted and its thread is gone before the next run; a dialog that names it shows that question or one of a tab that took it over (`Posed`). |
| `SshSessionProofs!InputIsNotReplayedHolds` | `Spec => []InputIsNotReplayed` | The property speaks of what was received only. Read in the order received, batch of the worker, queue, the inputs all belong to the present run, once and in order (`InputsInOrder`); a new run starts with all three empty because the end of the last one emptied them. |
| `SshSessionProofs!StaleEventsChangeNothingHolds` | `Spec => StaleEventsChangeNothing` | The reports a run posts are delivered in order and its last is that it ended, from which on its tab can be started again; so what is in the queue of an earlier run when the next one runs can only be frames. |
| `SshSessionProofs!LastOutputIsShownHolds` | `Spec => []LastOutputIsShown` | One invariant per place of the two threads: wherever the worker is between changing the engine and publishing, and the GUI thread between taking a frame and drawing it, the newest output is in the engine with the dirty flag set, in the waiting frame with a delivery scheduled, in the frame being drawn, or on the screen. |
| `AiTurnProofs!PendingAlwaysAwaited`, `ApprovalsAlwaysMatch`, `TypeCorrect` | `"quick" \notin Faults` => `Spec => []PendingIsAwaited`, `[]ApprovalsMatchLedger`, `[]TypeOK` | A handler works on a whole state, so the invariant is `Good` of that state. `Waits` ties the cancel closure the runner keeps to the tool of the call it has reached; `Asked` ties to that closure who may be asked, and says that a timer and an approval are never for the same turn at once; `CommandsShown` and `McpCallsShown` turn that around, for the records that await an approval. Inside `executeNextTool()`, between two calls, nobody is asked (`NobodyAsked`), so each call may ask at most about itself (`CommandToolStays`, `McpToolStays`), and `RoundsReach` carries that through the loop. Every end of a wait takes the approval away and moves its record on (`ActionLeaves`, `McpCallLeaves`, `CancelStays`). |
| `AiTurnProofs!RetriesRepeatNothing`, `LateEndsIgnored` | the same premise, `Spec => RetryRepeatsNothing`, `LateEndIsIgnored` | `Marked`: a turn that had an effect remembers it, also when the effect was that of an approval. No handler raises the retries or releases a request (`Onward`) except `handleFinished()` (`Repeats`), which looks at the mark, and at whose request has ended. |
| `AiTurnProofs!AnswererIsKept` | `"quick" \notin Faults` => `Spec => AnswererKept` | Each handler is shown to keep the answerer (`Keeps`): a call that is left open has just got an approval, a request or a timer, and what takes one of them away ends the wait in the same handler (`CompleteStays`, `CancelStays`). An MCP answer that is dropped is not that of the call in flight, or is of an earlier generation (`Matches`); the generation only moves on when the turn is cancelled in the same step, or will be by a pending reconnect (`Linked`). What is left are the three steps of `LeavesUnanswered`. |
| `AiTurnProofs!EffectsHappenOnce` | `"quick" \notin Faults`, `MaxCalls + Turns <= Capacity + 2` => `Spec => []EffectsOnce` | `Tidy`: until its last call, the ledgers remember every effect of the running turn. `Neat` orders the records of a ledger by turn, no key twice, with at most one unfinished record per earlier turn; `Book` adds that a turn's records are among the last, as many as it used of its budget, that only the open call is unfinished, and that a call with an effect has a started record. `makeRoom()` evicts the oldest record that is over, so before a turn's last call it evicts none of its own (`EvictedIsOld`, the premise); a name used again is then found by `begin()` (`BeginKeeps`), and an approval finds its record not yet started, so it has had no effect (`EffectGrows`). `TurnBooks` carries this through transitions, `TurnCloses` through the answer to a call. |
| `CredentialsProofs!DocumentSurvives`, `FileImplements` | `FileSpec => []CopySurvives`, `ImplementsSavedDocument` | `BackedUpFirst`: when the primary is about to be replaced it is in the backup. Then a replaced primary leaves one good file, and a replacement is `Replace` of `SavedDocument`, whose guard is exactly that. |
| `CredentialsProofs!SettingsSurvive`, `SettingsImplement` | `Spec => ...`, the same two | Every operation on credentials moves the settings file by a step of `FileNext` or not at all. |
| `CredentialsProofs!AsBeforeOrAsAskedHolds` | `Spec => []AsBeforeOrAsAsked` | No key of a vault is written twice by one operation (`OneWriteEach`), so each write leaves what the operation is meant to leave there and each undoing what was there before (`Promised`); and when the setting that selects the target of a migration is saved, all that is asked for is in it (`Arrives`). |
| `CredentialsProofs!FailureRestoresHolds` | `Spec => FailureRestores` | `Restorable`: the remembered secrets of the writes made, and the present ones where no such write and none whose undoing failed went, are those the operation found. No key is written twice (`OneWriteEach`), so an undoing that fails touches no other secret; when nothing is left to undo, all but those are as they were. |
| `ForwardingClient!TypeCorrect` | `Spec => []TypeOK` | inductive; `ByteQueue::append`'s refusal bounds the buffers |
| `ForwardingClient!FinishedIsCompleteHolds`, `EndOfStreamLastHolds` | `Spec => []...` | neither is inductive alone: a closed read side must also mean that the stream has ended with nothing unread, and a sent end of stream that the buffer is empty and stays so. `ClosedInOrder` adds both. |

The inductive invariants behind these theorems were model-checked before they were proved.

Only model-checked: everything else in the table of runs. The liveness properties
(`CancelSettles`, `QueuedIsTaken`, `EveryQuestionAnswered`, `DownstreamFlows`, `EndedConnectionLeaves`, `TurnEnds`) rest
on fairness, which the prover does not handle.
The premises of the theorems about turns. `"quick" \notin Faults` is that of the runs: the timer of a cancelled turn
ends before the user sends the next message. `EffectsOnce` needs room in the ledger: a command that was
approved and then cancelled leaves a running record, which is never evicted, so each earlier turn may hold one
place, and the calls of the running turn need the others. The code's 24 calls and 256 records leave that room for
234 turns (clearing the conversation gives it back, which the theorem does not use); with one call, three turns and a ledger of one, TLC finds the
invariant `Tidy` broken, so the premise is used.
The loops of `TransferBatches` and `AiTurn` are recursive functions over the number of calls made, and the
induction over that number uses sets, not the library's induction theorem: the numbers for which a claim
holds are a set, and the least number outside it is the contradiction (`Ascent`, `UpTo`); that
the recursive definition denotes a function at all is `LoopRuns`, what it keeps is `LoopStays`.
The dialog's properties are proved for instances with tabs that close and take the dialog over, what these do being part of
their statement; only `BackgroundKeepsQuestions`, which excepts nothing, needs that no tab closes.

## 5. Not modelled, and why

`PROJECT.json`, "components", gives the reason for each part. The models cover the
places where threads, callbacks, crashes and failures decide what is correct, a
small share of the lines: most of the program is elsewhere, and of another kind.

* Painting, layout, parsers, codecs, validators, formatters and serialisers
  (`TerminalItem`, `main.cpp`, most of `AppController.cpp`, the engine, the
  provider parsers): conversions of data, which unit tests cover and whose
  models would be transliterations.
* libssh2, Winsock, Win32 and Qt calls: the environment of the models.
* The accept loop, client slots and SOCKS5 handshake of a forwarding rule: the
  code sets no deadline for a handshake or an idle client, so what one would state of the slots
  does not hold by design, and the pump, where the bytes are, is modelled on its own.
* SFTP directory requests, the local terminal session, MCP discovery: the same patterns as
  the modelled ones (a generation checked on arrival, a worker with a final
  event, a request with an answer) on less state.

Within the modelled parts: what an accepted key does to the known-hosts file,
authentication, the upload's backup-and-rename sequence as separate steps, a
journal that cannot be written, a file somebody else creates during a copy (so the check-then-replace
of the executor is covered for the decision only), a tool that answers on the spot with more than 64 KiB
(which ends the turn with a protocol error), and what the sections above name as left out.

## 6. Plan

1. `TransferBatches` on the whole manager instead of its reduction: the reduction is argued in
   2.4 and not checked as a refinement.
2. `ForwardingRule`: accept loop, 32 slots, SOCKS5, stale snapshots; uses `ForwardingClient`
   as the behaviour of one slot. Worth it once a deadline exists to state something about.
3. `SshSession` composed with `HostKeyPrompts` through the answer slot, which both have for themselves now.
4. `AiTurn` with timers of an earlier turn told apart, to do without `"quick" \notin Faults`, and with the
   room a ledger needs stated of the records it holds instead of the number of turns.
5. Candidates after that: SFTP request generations, MCP request identifiers, the
   workspace's split tree, command blocks.
