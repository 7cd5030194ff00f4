# A verification development for claudex

claudex is a local gateway between Claude Code and several model providers. It
keeps a pool of registered Claude accounts and can spread sessions over them
("balanced routing"), it translates between the Claude protocol and that of
other backends, and it drives ChatGPT Pro in a browser for long-running asks.
This directory holds TLA+ models of its core, the TLC runs that check them, and
TLAPS proofs of the results that matter most. Paths below are relative to
`src/claudex/` of the repository.

Everything in the daemon runs on one asyncio event loop, so two coroutines
interleave only at an `await`; the exceptions are the writer thread of the
runtime state store, worker threads for file operations, and other processes
(the command line), which are kept out by file locks. The models follow that:
what a coroutine does between two awaits is one atomic action, and the writer
thread takes a step of its own for every critical section of its condition
variable and every transaction.

## 1. Inventory

Each part: its state; its operations; who calls it; what is hard; what makes it
correct.

**Runtime state store** (`balanced/state_store.py`, `state_model.py`).
State: a coalescing queue, a retry track, barriers, sequence numbers, the epoch
in memory; tables `pins`, `cooldowns`, `usage_observations`,
`capability_evidence`, `meta` in SQLite. Operations: upserts and deletes of
rows, the last-seen heartbeat, epoch rotation and invalidation, deletion of an
incarnation, restore, close, open. Called by the router, the poller, and the
runtime. Hard: callers and writer thread interleave, commits fail and are
retried while newer writes go ahead, the process dies. Correct when: no retry
undoes a newer write, nothing that was wiped comes back, every caller that
waits is told, and told the truth.

**Balanced router: pins and migration** (`balanced/router.py`,
`relay/balanced.py`, `relay/registered.py`, `relay/common.py`). State: session
pins, migration reservations and tokens, in-flight counts M(a), durability
barriers, cooldowns, capability evidence. Operations: place a session, begin
and end an attempt, reserve, commit and resolve a migration, remove an account,
evict, purge, restore. Called by every balanced request and by the account
administration. Hard: requests of one session race for its migration, and are
cancelled, fail or outlive the account they use; the durable write of a pin is
a task of its own. Correct when: only the migration in flight moves a pin,
counts are exact on every path, nothing leaks, nobody waits for ever.

**Balanced runtime lifecycle** (`balanced/runtime.py`, the routing handler of
`admin/settings.py`, the dispatch of `relay/balanced.py` and
`relay/endpoints.py`, the lifespan of `server.py`). State: status, transition
event, request slots, epoch, router, store, poll driver, persisted and
published mode. Operations: enable, exit, shutdown, restore at startup, admit
and release a request. Hard: transitions overlap requests and streams, are
cancelled or fail half-way, and the process dies in between. Correct when: an
admitted request keeps its router and store, no request is routed by an epoch
that is not the one on disk, and every transition and wait ends.

**Account selection** (`balanced/selection.py`). Pure: candidates, pressure and
its floor, headroom, emergency weights, the family gate. Correct when an account
that could serve can be drawn.

**Usage polling** (`balanced/polling.py`, `claude/account_usage_cache.py`,
`claude/usage.py`). State: last call, pending manual refreshes, cache entries, a
global cooldown. Hard: the background tick, manual refreshes and the dashboard
share one lock and one budget. Correct when there is one upstream call at a
time, none too early and none in a cooldown, and every caller is answered.

**Account registry** (`claude/accounts.py`, `account_store.py`,
`account_model.py`). State: `registry.json`, one directory for each account,
staging directories and tombstones. Operations: add, update credentials, mark
for reauthentication, remove, recover. Hard: a crash or a loss of power between
any two file operations, and a failure of the sync after the commit point.
Correct when a registered account has its files and what was answered stays
true.

**Account credentials** (`claude/auth.py`, `account_profile.py`,
`providers/auth_support.py`; `codex_auth`, `kimi_auth`, `grok_auth` alike).
State: tokens on disk with a generation. Hard: a refresh answered after a new
login, two refreshers, cancellation during publication. Correct when newer
credentials are never overwritten and a single-use token is spent once.

**Login sessions** (`claude/login_session.py`, `capture.py`, `keychain.py`,
`gptpro/login_session.py`, `gptpro/login.py`). A driver around an external login
process. Hard: cancel, confirm, denial, time-out and process end race with the
registry. Correct when a login answers what happened and never destroys a newer
one.

**Ambient account** (`claude/ambient_account.py`). The login of the host itself
as one more candidate, read from the keychain through a cache.

**Fallback pool and cooldowns** (`claude/account_pool.py`,
`account_attempts.py`, `quota_429.py`, `session_fingerprint.py`). Cooldowns in
memory and on disk, the chain of attempts of one request, Retry-After, the
incident log. Correct when a cooldown that was acknowledged is kept, a client
that waits as told is served, no usable account is passed over, and the log is
readable after any crash.

**Ask jobs** (`gptpro/jobs/`, `mcp_tools.py`). State: jobs, conversation owners.
Operations: start, recover, status, result, sweep, close. Hard: asks and
recoveries of one conversation queue up with a deadline; a conversation id
becomes known only during the ask; a prompt may be sent again as an attachment.
Correct when a conversation has one running ask, what clients are shown leads
back to the right turn, and every job ends.

**Ask runtime** (`gptpro/runtime.py`, `conversation.py`, `retry.py`). State: the
warm browser context under its profile lock, an admission gate, the poller of
detached turns and its deliveries. Hard: resizing the gate while asks wait, a
turn registered while the poller ends, a context discarded under a user.
Correct when admissions never exceed the limit in force, no permit and no lock
is lost, and every registered turn is resolved.

**Ask page driving** (`gptpro/ask.py`, `attachments.py`, `locators.py`,
`attachment_diagnostics.py`, `selectors.py`, `generated_files.py`, `browser.py`,
`session.py`). Drives one page of an external site through an ask; a book of
CSS selectors that heals itself. Hard: the page, the network events, the
deadline and a cancellation all interfere. Correct when what is reported about
the prompt is true at any moment at which the ask may be cut off.

**Protocol translation** (`translate/`, the streaming loop of
`relay/openai_backend.py`). State: per stream, open blocks and buffered function
calls; none for the history that comes back with the next request. Hard: a
backend interleaves, repeats and omits. Correct when the client reads a
well-formed message with each text and each call once, and what it sends back is
what the backend said, each signature with its own call.

**Provider clients, other relays** (`providers/`, `relay/`, `compaction.py`,
`upstream_errors.py`). Per request, almost without shared state.

**Settings, administration, MCP endpoint, command line, dashboard** (`config/`,
`admin/`, `mcp_server.py`, `cli/`, `dashboard/`, `usage/`). Settings are
replaced atomically under `admin_lock`; the MCP runtime is made lazily and
given up for a login.

How they interact. A balanced request: `relay/endpoints` reads the mode and
dispatches; the runtime admits the request to a slot; the router places or
finds the session's pin; a task submits the pin to the store, and the request
waits for its durability barrier; the attempt goes upstream with the account's
credentials; its answer may install a cooldown and start a migration to another
account; the slot is released when the body has ended. An ask: an MCP tool call
makes a job; the job claims its conversation and calls the ask runtime, which
admits it, opens a page and runs the stages of the ask; when others wait, the
sent turn is handed to the poller. The administrator logs accounts in, removes
them from the registry and then from the router, and changes the mode through
the runtime.

The hazards of these paths, each at its line and with the properties that would
catch it, are listed in `PROJECT.json`.

## 2. Plan

Done, with proofs: the store; pins and migration; the lifecycle and usage
polling; asks from the tool call to the page, with the runtime, its gate and the
attachments; the account registry with logins and credentials; the fallback and
balanced chains with selection, cooldowns and the incident log; the stream that
the translator writes. Done without: the contents of that stream, call by call,
and the history on its way back.

Next, in this order:

1. Proof: `CallsReachTheClientWhole` of `ResponseStream`. Its invariant has to
   say which call of the backend each buffered call can still be, whatever
   identities its events left out, through the two identifications of a listed
   call.
2. Tool declarations with their control events (`translate/tool_protocol.py`)
   and the rewriting of schemas, as operators over small histories.
3. The credentials of the other providers, as an instance of the refresh in
   `AccountLogins` without a registry.
4. The compaction reroute record and the transport manager of `mcp_server.py`.

Abstract specifications in use: `BoundedAdmission` (what an admission limit
promises), implemented by `AdmissionGate`, which `AskRuntime` implements in
turn; `ClaudeStream` (what a streamed Claude message promises its reader),
implemented by `ResponseStream`.

## 3. Modules

### StateStore, StateStoreProofs

`pending`, `retrying`, `closed`, `next`, `committed`, `memEpoch` and `degraded`
are the attributes of `ClaudePoolRuntimeStateStore` under its lock. `writer` and
`job` are the position of the writer thread: "waiting" in `_wait_for_next_job`,
"attempting" inside the transaction of `_attempt`, "committed" after COMMIT and
before the acknowledgement. `outcome` is what each caller's `PendingWrite`
shows. `rows` and `diskEpoch` are the database. A row keeps the incarnation and
the epoch it names and the sequence number of the payload that wrote it.

The `Submit...` actions are the public methods, each with its scope, fence,
barrier and priority as in the code, and with the coalescing and flushing of
`_submit`. `DebounceEnds` is time passing. `TakePending` and `TakeRetry` pick the
next job as `_wait_for_next_job` does; `Commit`, `FailTransient`, `FailForGood`
(SQLITE_FULL, or closing) and `FailIntegrity` are the ends of a transaction,
each failure either before or at COMMIT, when memory has already been changed by
the job; `Acknowledge` retires older retries and wakes the waiters. `Close` and
`Stop` are close and the end of the thread; `Crash` loses memory and keeps the
database; `Reopen` starts anew. `applied`, `durable` and `wiped` are history.

### PinMigration, PinMigrationProofs

One session, its requests, the accounts. `turn` names the request that is
between two awaits. A request is "placed" while it waits for the barrier of its
pin, "connecting" and "upstream" in an attempt, "refused" between a 429 and the
durability of its cooldown, "committed" when its 2xx has moved the pin and it
waits for the new barrier, "waiting" for another request's migration,
"streaming" while a relay owns the token. `Arrive`, `BeginAttempt`,
`QuotaRefused`, `Answered`, `Commit`, `CommitLost`, `Reserve`, `WaitForMigration`
and the rest are the stretches of `_serve_balanced_pinned_message` and
`_attempt_with_account`, with the router methods they call. A durability task is
`submit_new_pin_durability`: it submits the pin as it then is (`TaskStarts`), or
cannot, because there is no store or it refuses (`NotSubmitted`); the store makes
the writes of the pin in order or gives one up (`WriteCommits`, `WriteFails`);
`TaskEnds` resolves the barrier either way. `failed` is history: the barriers
whose last write was not made. `RegistryRemoves` and `RouterRemoves`
are the two steps of removing an account: in between, requests still see it.

`Faults` says what goes wrong: a transport error, a removed account, an evicted
or expired pin, a cancelled request, a pin's write that fails, at most
`MaxFaults` times. Other sessions
are the pressure that evicts. Cooldowns are a set of accounts; they end at any
time. Attempt ids, which are random in the code, are made of who moves which pin
entry where: a request tries an account once for each entry.

### BalancedRuntime, BalancedRuntimeProofs

`status`, `epoch`, `store` and `driver` are the runtime; `persisted` and
`published` the mode in the settings file and in `app.state.config`; `op` is the
operation under way (there is one at a time: the handlers hold `admin_lock`, the
methods the lifecycle lock); `rotation` the `PendingWrite` of its epoch
rotation. An epoch stands for itself and its pins. `Enable`, `Publish` and
`EnableFails` are `prepare_and_publish`; `BeginExit`, `AbortExit`, `CommitExit`,
`PublishExit` and `CloseAfterExit` are `exit_mode` and `_finalize_exit`, split
where they await; `Switch` and `ExitInactive` are the changes that touch no
runtime; `Shutdown` to `End`, `Crash` and `Restart` are the lifespan of the
server. `Arrive`, `Resume` and `Finish` are a request.

An operation starts only when no woken request is still to run: asyncio wakes
waiters in the turn in which the event is set, before a later request of the
administrator can run. The writer thread appears as `RotationCommits` and
`RotationFails`; that the store settles every write while its writer runs is
`EveryWriteSettles` of `StateStore`.

### AdmissionGate, BoundedAdmission

`_AdmissionGate` of `gptpro/runtime.py` over `asyncio.Semaphore`: `permits`,
`waiters` and `woken` are the semaphore with its futures, `debt` is
`_pending_shrink`. `Acquire`, `Awake` and `Withdraw` are the stretches of an
acquire (at once; after a wake-up; cancelled, with or without a permit already
assigned), `Release` and `SetLimit` the other two methods. `BoundedAdmission` is
the promise: nobody enters unless fewer are inside than the limit of that
moment. A lowered limit turns nobody out.

### DetachPoller, AskRuntime, AskRuntimeProofs (with the gate and the jobs)

`AskRuntime` EXTENDS the gate and INSTANCEs the poller, over the same
variables. `pc` is where a call of `ask` or `recover` is, `work` where the task
`_execute_in_page` that drives its page is; the two end independently, which is
where permits could be lost. `context`, `launches`, `alive`, `profile` are the
browser: what `_context` holds, which browser processes run, who has the
profile lock. `opener` and `dropper` are the holder of `_initialization_lock`
while it launches or closes. `Crash` ends the browser process under everybody;
`OthersUseProfile` is a login child or a doctor; `LaunchFails`, `Discard` and
`Close` are the error paths and `aclose`.

In `DetachPoller` a future that was cancelled tells the poller through a
callback that runs later (`hooks`), and a cancelled task notices later
(`stopping`): these are the windows in which a registration meets a poller
about to end. `poller` = "closing" is the `finally` of the task, "dead" a task
that is done and still referenced. A delivery task saves an answer with files.
`Discard` takes the poller out of use and closes it in the ask that found the
context dead: `ending` says that this close is under way, `old` where it has
each pending future (registered, a delivery not started, a delivery saving), and
`OldDeliveriesClosed`, `OldPollerClosed` and `OldDeliverySettles` are its
stretches. When the ask is cancelled there (`CloseCutOff`), the rest of the close
does not run: what was registered stays pending, and a delivery that saves goes
on by itself ("adrift"). `forgotten` is history: the futures that a cancellation,
here or in the `finally` of the poller's task, left to nobody.
A delivery that is cancelled before its first step never leaves `_deliveries`
("stuck"): the model has it, and no property denies it.

### BackendFetch

Pure: a backend reply as status, mitigation header, challenge marks and body;
`Classify` and `Reported` are the classification of `gptpro/retry.py`; `AnswerOf`
is the extraction of the ask's turn from a conversation, where the site may have
regenerated, branched or gone on; `PollResult` is one poll of the detached
turns. Used by `AskTurn` (which actions a reply can have) and by the poller
(whether it settles, delivers or fails).

### AskJobs

A job is a record (`state`, `thread`, `marker`, `submission`) and a task
(`task`, `awaited`); `owners` is `_conversation_owners`, `bindings` the session
bindings of `threads.py`, `login` and `warm` the lazy runtime of
`mcp_server.py`, `closing` the shutdown. `ClaimOrWait` is the loop around the
release event: it re-checks the owner after every wake-up. `MarkerNamed`,
`Click`, `ConversationNamed`, `Detached`, `Answered`, `Recovered` and `Failed`
are the callbacks and ends of one call of the runtime; `RetryAsAttachment` is
the second call with a new marker. `prompts` and `saved` are history: which
prompt ChatGPT received, and what a status showed a client.

### Locators, AskTurn, AskTurnProofs

`Locators` is `LocatorBook` with the part of the ask that uses it: `record` has
each target's selector, its failures in a row and its suspension; `pending` is
the find that awaits its first use; `lock` the per-target lock of `_rediscover`.
`SiteMoves` changes the markup, `SuspensionPasses` is time.

`AskTurn` EXTENDS it with `_AskExecution`: `pc` follows `run()` through
navigation, composer, binding, attachments, reading of the turns, filling, the
modal and readiness checks, the click, the echo, the monitoring of the answer
and the raw fetch. Next to the stages run the `Surroundings`: network responses
and stream requests that the listeners record, completion reports, the site
itself (`ServerWorks`, `PageSends`), the deadline and a cancellation. `server`
is the truth about the prompt, `submission` what the ask records of it. One ask
is `Followed` through all of this; the other one stops mattering after its echo
and shares the book.

### Attachments (proved in AskTurnProofs)

`attach_files` and the revalidation before the click. A response is counted when
it arrives (`generation`) and read by a callback of its own (`tasks`); `receipts`
and `processing` are what the callbacks found; `card` is the page. The checks
read these in several awaits (`StateRead`, `Snapshot`, `BindingsRead` and again
before the send), and accept only what did not change in between
(`UnchangedSince`, `Untouched`).

### AccountRegistry, AccountLogins, AccountLoginsProofs

`AccountRegistry` holds the mutations: `txn` is the one that has
`registry.lock`, with the step it is at. `place` and `files` are the directories
on disk; `mayPlace` and `mayRegistry` the versions a loss of power can bring
back, which every directory sync narrows down. Each mutation is a sequence of
named steps (`Stage`, `Install`, `SyncRoot`, `Replace`, `Settle`, `Tombstone`,
`Purge`, `Rollback`, ...), each of which can fail, and before it runs the
recovery of the previous one (`SweepStaging`, `ReconcileTombstone`,
`ReconciledSync`, `RefuseToGuess`). Failures, deaths of the process and losses
of power come at any step and in any order. `answer` and `promise` are what the
caller was told; `purgedEarly` is history: the ids that a recovery purged while
a loss of power could still bring back a registry that names them.

`AccountLogins` composes it with its users: the dashboard login (`session`, with
the replacement question, cancel, the exit of the child), the command line
(`cli`), and the requests that load, refresh and reject credentials (`caller`).
`valid` is the token endpoint: the refresh token it will accept, rotated by each
use, also when the answer is lost.

### AccountSelection, QuotaCooldowns, IncidentLog, AccountPool, AccountPoolProofs

The first three are operators: pressure, floor, headroom and family gate; the
length of a cooldown from a 429, its life on two clocks and on the disk; the
incident file with torn lines, repair and compaction. `AccountPool` is the
machine: a request walks its chain (`CredentialsRead`, `Rejected`, `Refreshed`,
`Relayed`, `FallbackQuota`, `BalancedQuota`, ...) in one of the three modes,
while polls change the view of usage, tokens and logins change, the machine
sleeps (the wall clock goes on, the monotonic one does not), and the gateway
crashes and restarts. The write of a cooldown is made or fails for good
(`StoreCommits`, `StoreFails`); the request that waits goes on either way.
`vow` and `unwritten` are history: the cooldowns a request has waited for, and
those whose write failed.

### UsagePolling (proved in BalancedRuntimeProofs)

`entry`, `cooling` and `line` are the cache: entries with ages, `_not_before`,
the lock with its queue. `caller` is what the background driver, each viewer and
each forced refresh does for which accounts; `nap`, `serviced` and `pending` are
the coordinator. `routing`, `StartDriver`, `Drain`, `AbandonExit` and
`StopDriver` are the routing mode; `StopDriver` cancels the driver wherever it
is, also in front of others in the queue of the lock. `quiet` is history.

### ResponseStream, ClaudeStream, MessageHistory, ResponseStreamProofs

The backend (`said`, `item`, `left`, `order`) sends message, reasoning and
search items, and function calls whose events are spread between them; an event
of a call carries one of its identities or all. Items of the kinds in
`Interleaved` overlap: they start inside an open text part, and the backend goes
back to what is unfinished (`left`, `GoesBack`). The others come one after the
other. `tr` is the translator's state with its buffered calls; `Matches`,
`IdentifiedAs`, `Adopts` and `BufferEvent` are how events find their call;
`FlushListed` and `LateCarriers` what the terminal event brings. `client` is
what the reader has got, mapped to `ClaudeStream` (`Looped` is a `for` over a
list): blocks numbered without gaps, written one after the other, one end.
`MessageHistory` holds the way back as operators: `Normalized` is
`normalize_server_tool_history`, `SignatureOf` the lookup of a call's signature
among the carriers of its message, `TranslateRequest` `_translate_messages` and
`Rerouted` `build_reroute_payload`. `NextRequest` is the history the client
sends next: an older turn with a native search, the answer it has read, the
results of its calls.

### MC modules

They give sets for the constants and, in `MCAccountLogins`, the symmetry of the
requests (they enter the invariants and the action property alike; no liveness
is checked there).

## 4. Runs

| run | asks | bounds |
|---|---|---|
| `store` | Is the write path ordered, fenced and honest, over crashes, and does every write settle? | 1 pin row, 1 incarnation, every operation, 3 submissions and 2 failures, 2 lives, 1 epoch beyond the first |
| `pins` | Do pins move and counts change only as they should, and does every request end? | 2 requests, 2 accounts, every fault, 2 of them |
| `pins_leak` | Does every owner give its migration up? No. | 3 accounts, one transport error |
| `runtime` | Is the lifecycle safe, and does it end? | 2 requests, 3 modes, 5 operations or crashes |
| `ask_runtime` | Are permits, the profile lock and futures never lost, and does every call end? | 2 asks, limits 1 and 2, 2 launches |
| `ask_jobs` | One ask per conversation, true references, login apart from jobs, every job ended? | 3 jobs, one of them resubmitted, 2 conversations, 1 MCP session |
| `ask_turn` | Is what an ask reports of its prompt true whenever it is cut off? Is the book of locators never blocked or hammered? | 2 asks, 2 targets, 2 selectors, threshold 2, 2 moves of the site |
| `attachments` | Is an upload cleared for sending only by complete evidence? | 2 files, 5 responses |
| `accounts` | Do registry, files and answers agree over every crash, and does no refresh undo a login? | 2 ids, 2 logins of one person, 1 dashboard login and 1 command, 2 requests, 2 failures, deaths or losses of power in any order |
| `translate` | Does the client read a well-formed message with everything once, and does the next request give it back? | 2 calls with one piece of arguments, one id too long, output of weight 5, messages overlap |
| `polling` | Is the upstream asked politely, and is every caller answered? | 2 accounts, driver, one viewer, one forced refresh, clocks in units |
| `pool` | Do cooldowns hold, is Retry-After honest, is every usable account tried, is the log sound? | 2 accounts and the local login, 2 requests, 2 quota refusals, 2 other events (failing writes among them) |

Why these bounds are enough for the interesting cases. In the store a row
conflict needs an old write on the retry track, a barrier or newer write that
overtakes it, and the effects of both: three submissions and two failures have
it; two lives are what a crash needs. A migration has an owner, a waiter, a
source and a target; two faults let one hit the owner and another its recovery.
The lifecycle needs an enable, an exit, a crash and a re-enable, with one
operation more. The gate needs a lowered limit while both asks hold or wait; the
browser one launch to lose and one to follow. Three jobs are an owner, a waiter
and one that resubmits. A locator needs one ask that finds, one that meets the
pending find, and a site that moves again. Two files are what attribution can
confuse, and five responses allow a duplicate. In the registry the second
trouble hits the recovery of the first, and a purge by a registry that was not
durable with the loss of power after it are two. Two calls are what interleaves,
with a message or a reasoning item between them, and two messages, which a call
may follow, are what overlaps. In the pool the second quota refusal arrives
under the cooldown of the first.

Every property of a passing run was also tried against a plausible bug in a
mapped definition, listed under "mutants" in `PROJECT.json`, and fails under it.
The bug stands next to the definition it changes, under the same name with a
suffix. Deadlock is not checked: each model stops legitimately, when its bounded
inputs are used up, a process is gone for good or every request has ended.
Only `polling` checks it: there time always passes.

Fairness. `StateStore`: the writer thread keeps running and time passes. Callers
need not submit or close; nothing restarts the process. `PinMigration`: the event
loop runs what can run, an upstream answers or times out, a relay ends, the
store settles writes; cancellations, removals and arrivals are not fair.
`BalancedRuntime`: the loop and the writer thread continue what they were given,
and the response of an admitted request ends; the administrator and crashes are
not fair. `AskRuntime`: each call takes the step it is ready for, its deadline
comes (every call has one behind the gate), and whoever holds the initialization
lock ends with it; nothing is assumed of pages, poller or browser. `AskJobs`:
ready tasks run, the queue deadline passes, a call of the runtime ends (which is
`EveryCallEnds` of `AskRuntime`), and a close goes on. `UsagePolling`: time
passes, the driver wakes, and callers as a whole proceed; the HTTP client has a
time-out. The other modules claim safety only.

What `pins_leak` shows: a transport error turns into a 502 response that is
returned past the code resolving the owner's reservation, while the docstring of
`resolve_migration_owner_terminal` says every owner exit goes through it. The
account keeps a phantom in-flight request, and later requests of the session,
when they have to migrate, wait for a reservation without an owner.

Other things met while modelling that the models contain and no property denies:

- `_attempt` records the barrier of an invalidation in memory before COMMIT and
  keeps it when the COMMIT fails, so an older write that is retried meanwhile is
  dropped, and its caller told "ok", for an invalidation that is not on disk; the
  docstring of the store (`state_store.py:36-38`) has writes dropped only for one
  that "has already committed". The invalidation is retried, so the row goes
  anyway unless that fails for good or the process dies first. `OkMeansApplied`
  says what is kept: the barrier is of the write's own fence, and it is on disk
  or the caller of its invalidation has not been told "ok".
- A turn that is registered while the task of the poller is in its `finally`
  gets no task of its own; if the task is cancelled there
  (`_on_registration_done` does so when the last future is cancelled), the lines
  that would start one do not run, and nobody polls the turn until another is
  registered. And the ask that discards a dead context closes the old poller
  itself: its deadline can cancel it in that close, before the pending entries
  are failed, against the docstring of `aclose`. These futures are `forgotten`,
  their asks end by their own deadlines, and `FuturesHaveAnOwner` says that
  every other pending future is with a task that runs, with a delivery, or with
  a close that will fail it.
- A removal dies, or its sync fails, between the replacement of the registry and
  its durability; the next recovery reads the new registry and purges the files
  without a sync of its own; a loss of power then brings the old registry back,
  which names an account without files. The docstring of `remove_account` has the
  tombstone purged "only once the registry replace is known-durable". These ids
  are `purgedEarly`, and `RegisteredHasItsFiles` is about all others.
- The durability task returns without resolving the barrier when its pin was
  removed, evicted or expired first; requests that wait for the barrier are
  stuck. A waiter woken by a migration goes on before the new generation is
  durable. `CancellationsLeaveNothing` and `EveryRequestEnds` are therefore
  claimed only while nothing but cancellations and failing writes has gone wrong.
- A barrier is resolved also when the write of its pin failed: the request goes
  on with a pin that a restart does not know. `BarrierMeansDurable` excepts the
  generation whose own write failed and no other. In the same way a cooldown
  whose write failed ends with the process (`AcknowledgedCooldownHolds`).
- In the poll coordinator an account whose fetch always fails stays first in
  `_due_order` and takes every turn; manual refreshes are served only behind
  automatic ones. `EveryCallerIsAnswered` is about those who wait for an answer.
- A refresh that publishes new credentials and loses its directory sync can
  revert to the spent token after a loss of power; the account then needs a new
  login.
- A process that dies in the first addition ever, before the registry exists,
  leaves artifacts that make every later mutation refuse (`RefuseToGuess`).
- Retry-After of balanced routing uses the account records read on arrival; that
  of the fallback chain may count the cooldown of an account that needs a login.
  `ObedientClientIsServed` excludes what changed since the client asked.
- The glimpse of the local login may be up to 30 seconds old.
- A search or a reasoning item that comes while the text part of a message is
  open starts a block inside the text block, with the same index: the branch for
  function calls ends the text block first, those two do not. With "search" in
  `Interleaved` TLC shows it at once; the run has messages that overlap, of which
  nothing of the kind is true.
- In the translator two calls known by disjoint partial identities may be
  merged; a call without any identity can be sent twice by the terminal list. A
  reasoning item that a call interrupts can show its signature twice, or not at
  all when it comes at its end; and a client that keeps one answer as several
  messages parts a call from its carrier. The client of the model sends an
  answer as one message, and its backend names every call.

## 5. Proofs

`StateStoreProofs` proves, for every set of rows and incarnations and every
bound, from `Assumption` of `StateStore` (distinct names, numeric bounds):

- `TypeCorrect`: `Spec => []TypeOK`.
- `NeverResurrected`: `Spec => []NoResurrection`. The invariant alone is not
  inductive: a row can be resurrected by any job that is still to be written. It
  is strengthened by `FencesHold` (each job carries the fence its row needs,
  through coalescing and retries) and `BarriersAhead` (the barriers in memory are
  never behind those on disk).
- `QueueOrdered` and `CommitsInOrder`: `QueueInOrder` and the action property
  `AppliedInOrder`, from `OrderInv`: every job carries a number already given out
  (`Numbers`), the queue is sorted with one place per scope, what is queued for
  a scope is newer than what has left the queue (`QueueIsNewest`), and nothing
  that can still be written is older than what was committed, except a retry the
  present commit is about to retire (`NothingOlder`).
- `WaitersRemembered` and `Acknowledgements`: `NoWaiterForgotten` and the action
  property `OkMeansApplied`, from `WaiterInv`: the callers that wait are exactly
  the waiters of the jobs, each of one job; and for the second also from
  `BarrierInv`: a barrier that is newer in memory than on disk was left by a
  submission whose caller has not been told "ok", since the only job that could
  tell it so is the one that would first bring the barrier to disk
  (`Uncommitted`), which is never coalesced (`BarrierJobs`). When the property
  says that a write was dropped, it names the barrier, in the write's own fence.

`AskRuntimeProofs` proves of the gate, for every finite set of asks and every
set of positive limits (`GateAssumption`):

- `PermitsStayConserved`: free, assigned and held permits add up to the limit
  plus the debt. The strengthening `GateIInv` adds that an ask has one place in
  the queue at most, so that withdrawing or waking it is one permit.
- `GateKeepsTheLimit`: `GateSpec => StaysWithinLimit`, that is, the gate
  implements `BoundedAdmission` under the identity mapping of `limit` and
  `admitted`: a permit is taken only when one is free or was assigned, and then
  the conservation law leaves room below the limit.

It proves of the whole runtime, for any asks, limits and number
of launches (`GateAssumption`, `RuntimeAssumption`), from `IInv`:

- `RuntimeUsesTheGate` (`Spec => GateSpec`): each of the runtime's actions is a
  gate step or leaves the gate alone; and from it `RuntimeKeepsTheLimit`.
- `AdmissionsStayBalanced`, from `AdmissionsIInv`: an ask has its permit exactly
  while it `has_admission`, and only between the gate and the first release.
- `ProfileStaysGuarded`, from `BrowserIInv`: whoever has the initialization lock
  determines which browser may run; without a holder, `_context` does. The
  property alone is not inductive, since it says nothing in the middle of a
  launch or a close.
- `FuturesKeepAnOwner`, from `FuturesIInv`: a callback that is still to run
  belongs to a future that is not pending, and a place in a closed poller means
  that its close is under way. It excepts, by name, what the two cancellations of
  section 4 make the poller forget.

`PinMigrationProofs` proves, for any finite set of requests, any accounts and
number of faults (`Assumption` of `PinMigration`), from `IInv`:

- `InFlightExactThm`. `CountIInv` is the equation itself, stated with
  `Cardinality`. It is kept only because a token that is taken is not one that
  is already there, and that is `FreshIInv`: what a request still holds for an
  account it has yet to try is its current attempt, or belongs to an older pin
  entry than any it can read. Since entries are numbered, `PinIInv` and
  `TokensIInv` bound those numbers by the barriers created so far.
- `BarrierMeansDurableThm`, from `DurableIInv`: once a write of the pin's
  generation is settled, either it failed and none after it was made, or the row
  is that of the pin and nothing older is queued behind it. That needs
  `QueueIInv`: tasks start in the order they were spawned in, and so do their
  writes queue.
- `CancellationsLeaveNothingThm`, from `CalmIInv`: without faults other than
  cancellations and failed writes no account goes, no pin goes while a request
  works on it, and so no request is sent back to be placed again with an attempt
  left behind.
- `OnlyReservedMovesThm`, the action property, from `LocalIInv` (a request owns
  an attempt of its own, on the target it reserved) and `TargetIInv` (who is past
  the credentials of a removed account has lost its reservation).

`BalancedRuntimeProofs` proves `RequestsKeepTheirEpochThm` and
`RoutedEpochIsDurableThm`, for any requests, other modes, operations and epochs
(`Assumption` of `BalancedRuntime`). `SlotsIInv` says that a slot is taken in the
live epoch and that none is left once an exit is committed; `LifecycleIInv` what
the operation under way says of the parts of the runtime; `EpochsIInv` that a
rotation mints an epoch above every retired one, and that the settings file says
"balanced" only while the durable epoch is not retired. Without the last part a
restart could bring a retired epoch back.

It also proves `PoliteToUpstreamThm` of `UsagePolling`, for any viewers,
refreshes, accounts and waits (`PollingAssumption`), from `PollingIInv`:
`CallsAlone` says that whoever is upstream is the head of the lock's queue and
that no cooldown is left then, and cancelling the driver at any place of that
queue leaves one head; `QuietIsCooled` says that a newer cooldown never cuts an
older one short.

`AskRuntimeProofs` proves of the jobs above the runtime
`OneAskPerConversationThm`, `ShownTurnIsTheSentOneThm` and
`LoginExcludesJobsThm`, for any jobs, conversations and sessions
(`JobsAssumption`). `TaskFits` ties the state of a job to its task (an active
state until the task is over), `TurnFits` its marker to the attempt it is in and
to the click: there is a prompt only after the click of the current attempt.

`AskTurnProofs` proves `EvidenceIsHonestThm`, `PendingHasAProverThm` and
`HealerRespectsBreakerThm`, for any asks, targets and selectors
(`LocatorsAssumption`, `AskTurnAssumption`: the composer and the send button are
among the targets, as in the type `LocatorTarget`). The first follows the order
of the stages (`EvidenceIInv`): the submission is uncertain from before the
click, and confirmed from the echo on; `AnsweredIsFinished` shows what the
extraction of an answer requires of the raw turn. For the selectors,
`RediscoveryIInv` says what an ask in a rediscovery still knows after each await:
it holds the lock of its target from the moment it asks the book, what it saw
pending then is all that can be pending now, and it has nothing of its own to
prove for that target, so the find it makes pending overwrites no other.

It also proves `OnlyCompleteEvidencePassesThm` of `Attachments`, for any files
and any number of responses. The property alone says nothing of the checks on
their way; `AttachmentsIInv` says of each of them what it has read and that it
is either still so or that `generation` has moved on since (`StillCleared`).

`AccountLoginsProofs` proves, for any number of actors, ids, logins and failures
(`RegistryAssumption`, `AccountsAssumption`: there is an id for each login, and
the markers for "no file" and "none" are not values of what they stand in for):

- `RegisteredHasItsFilesThm` and `AnswersStayTrueThm`. `AccountsIInv` is both
  properties for each account, with ids not yet given out unused. `StepIInv`
  follows a mutation: for each step, whether the registry names the account yet,
  and what its directory and its files are. A loss of power is one more step
  because `AccountIInv` speaks of every version of the registry that may come
  back (`VersionsIInv`), not of the present one only: an account that such a
  version names is `Kept` (it has its files, and no outcome is without its
  directory), or `Lost`, which only a purge before its time can make it.
  Troubles come in any number and order. `OwnersIInv` counts the logins still to
  be added, so that an addition always finds an id of the model's bound.
- `TokenSpentOnceThm`, from `HoldersIInv`: who posts or has an answer to publish
  holds the refresh lock of its account, and knows what its generation contains.
- `NewLoginSurvivesThm`, the action property, from `GenerationsIInv` (a
  generation is written once), `HoldersIInv`, `StepIInv` (an addition writes into
  a directory that had no files) and `CondemnedIInv` (a mark that reaches its
  write saw the rejected generation in place).

`AccountPoolProofs` proves of the pool, for any accounts, requests, readings and
record sizes and over any number of steps. What is assumed (`PoolAssumption`,
`InputAssumption`, `CooldownAssumption`, `LogAssumption`) is that the names and
numbers are of their kinds, that no usage window is longer than seven days,
which is the longest cooldown, and that a step of the clocks is the one second
below which a cooldown is not restored:

- `CooldownsHold`, the action property `AcknowledgedCooldownHolds`, from
  `StoreIInv`: the newest row of a key, on its way to the disk or on it, says
  what the entry in memory says (`CopiesAgree`), and what a request has waited
  for is covered by both (`VowsCovered`), except on the disk for a key whose
  write failed; that one's promise ends with the next crash.
- `ObedientClientServed` and `UsableAccountsTried`, from `RequestsFine`, which
  follows one request at a time: the accounts it was offered are tried, skipped
  or still ahead (`ChainCovers`); an account that it counted is still ready as
  long as its answer stands (`StillReady`); and the wait it was told is no
  shorter than what is left of each cooldown in its way, in memory or on disk.
- `IncidentLogSound`, from `LogIInv`, with the size of a log as a recursive
  function whose value for one line more is proved from its definition.

Two steps of this invariant could not be proved at first, and both were runs
that the bound of two other events hides from TLC. A cooldown of another profile
of the same account counts again when that profile comes back; and a crash can
lose the write that replaced a longer cooldown by a shorter one, so that the
longer one comes back from the disk. In either case a client that waited as told
is refused again. `ObedientClientIsServed` now lists them among the causes that
make an answer void.

`ResponseStreamProofs` proves `WellFormedStream` (`Spec => StreamIsWellFormed`
when at most messages overlap, `OnlyMessages`): the translator with the relay
around it implements `ClaudeStream`, for any calls, pieces, identities and
lengths of an answer. The refinement mapping is the client's own record of what
it has read. A place says how far a reader is (before the message, between two
blocks, inside one, at the end), and the invariant says that the waiting events
lead from the place of the client to that of the translator, each allowed where
the one before it leaves the reader (`Leads`). For each method of the translator
a lemma says that it keeps this (`Sound`) and which blocks it leaves open; the
four loops are functions of the number of turns, whose existence and invariants
are proved by counting. What the invariant says of open blocks is `InStep`: a
text is open only while a text part of some message is (`Speaking`), which is
never so within a reasoning item or a search, and no thinking is open within a
search. That is where `OnlyMessages` enters the proof: calls and other messages
may come anywhere, but reasoning and searches only when the text parts are over.
Without it the statement is false (section 4).

Each argument has the same form: `Init => Inv`, `Inv /\ [Next]_vars => Inv'` with
a step for each action, `Inv => property`, combined by temporal logic in the last
step of the theorem. Each `IInv` was first checked as an invariant of the
component's run.

Only model-checked:

- all liveness: fairness and ENABLED are out of the prover's reach;
- `CallsReachTheClientWhole` and `NothingLostOrRepeated` of `ResponseStream`:
  the first is the next proof of the plan; the second says what the recursive
  definitions of `MessageHistory` compute over the history that goes back, and
  the library's induction theorems take operators as parameters, which the
  provers cannot instantiate.

## 6. Not modelled, and what is abstracted

Store: row contents beyond incarnation, epoch and age; SQLite itself, whose
transactions are taken as atomic and durable.

Pins and lifecycle: several sessions at once in one router (they meet in
counts, capacity and cooldowns, which appear as an environment); the capability
evidence, which nothing reads; the cancellation of a shutdown.

Asks: a page is cut down to what the probes tell; transient fetch retries are
one step; failures that end an ask are alike in `AskTurn`; the pauses and
back-off of the poller; attachments that the site renames; downloads of
generated files, diagnostics, the stall watchdog and the doctor's checks. A
conversation id that is called back after its job ended, and a second cancel of
the poller's own task during its page close, are not in the models.

Accounts: the second credential file and the identity checks on a refreshed
profile; the ways in which a login ends without success are merged; there is
one manager for an account in a process; forced and expiring refreshes are
alike.

Pool: the routing mode is constant within a run of the model; an account removed
while it serves (`PinMigration` has it), an unreadable profile and a local login
that duplicates a registered account are left out; the weight is the headroom,
because the program never feeds the warnings that would halve it; any account of
positive weight may be drawn; cooldown and cache ages share one unit of time,
the wall clock is never set back, and observations start empty after a restart;
when the write of a cooldown fails for good, no older write of its row is still
being retried (`StateStore` has that case).

Polling: the rate limit of manual refreshes and the coordinator's own budget,
which only refuse; the set of accounts is constant.

Translator: the mode without validated tools, the aggregator for clients that do
not stream, heartbeats, and the client's disconnect; on the way back images,
documents, tool references, messages of the system role and their control
events, the size limits of a carrier, tool names, and the rest of the request
(tools, effort, cache key).
The first event of a stream is the creation of the response, and the final list
of items is complete or has the calls only.

Not modelled at all: the credentials and clients of the other providers, their
usage reports, settings parsing, handlers that only report, the MCP transport
manager, process control and output of the command line, the dashboard. They
hold little state of their own, or are I/O; plan items 2 to 4 name what is worth
adding.
