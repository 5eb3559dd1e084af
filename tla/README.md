# kvpark in TLA+

kvpark is a proxy in front of a one-slot llama.cpp server. It saves the KV state
of a conversation when another one takes the slot, restores it when the
conversation comes back, and parks it on request. Its bridge moves a conversation
from one model to another by translating its state, with an engine that the
experiments in `src/experiments/` train. This directory specifies the parts of the
repository in which a wrong order of steps loses a conversation's state, mixes two
of them up, stops inference or a job for good, or publishes a result that does not
belong to its inputs. The modules are translated from the Python source; paths below
are relative to `src/src/kvpark/` unless they start with `src/`.

| Module | Models | Instance | Proved in |
| --- | --- | --- | --- |
| `SlotArchive` | `proxy.py`: `Archive`, `Handler.relay` | `MCSlotArchive` | `SlotArchiveProofs` |
| `Snapshots` | the promise of an archive, without files | as a property of `SnapshotStore` | |
| `SnapshotStore` | `proxy.py`: the archive directory, file by file | `MCSnapshotStore` | `SnapshotStoreProofs` |
| `UpdateGate` | `proxy.py: prepare_update`, `updates.py`, `removal.py` | `MCUpdateGate` | `UpdateGateProofs` |
| `ServiceStart` | `hermes_service.py`, `runtime.py: launch`, `network.py`, `removal.py: stop`, and who calls them in `hermes.py`, `cli.py`, `setup.py` | `MCServiceStart` | `ServiceStartProofs` |
| `BridgeSwitch` | `bridge/switch.py`: `switch()` and its caches | `MCBridgeSwitch` | `BridgeSwitchProofs` |
| `EngineDaemon` | `src/experiments/universal_kv/engine_daemon.py`, `bridge/engine_client.py` | `MCEngineDaemon` | `EngineDaemonProofs` |
| `ResourceGuard` | `src/experiments/universal_kv/resource_guard.py` and its callers in `campaign.py`, `fit_hub.py` | `MCResourceGuard` | `ResourceGuardProofs` |
| `Pipeline` | the promise of a campaign's statuses | as a property of `Campaign` | |
| `Campaign` | `src/experiments/universal_kv/campaign.py`: `run`, `reencode`, `assemble`, `status` | `MCCampaign` | `CampaignProofs` |

`PROJECT.json` maps every definition to its source lines and lists the runs, the
mutants (a plausible bug for each property, which TLC must find), the hazards,
the findings and the theorems.

## 1. Inventory

### The system's parts

**Slot archive** (`proxy.py`, classes `Archive` and `Handler`). State: the key,
thread and prompt signature of the conversation believed resident
(`current_key`, `current_thread`, `current_prompt`), the runtime's `identity` and
`run_id`, the published metadata (`entries`), the claims of conversations that
background work displaced (`displaced`), measured rates. Operations: `relay` (a
request), `switch`, `save`, `restore`, `seed`, `load`, `park` with
`simulate_gap`, `forget`, `update_retention`, `gc`, `prepare_update`. One
`RLock` covers a request from `switch()` to the end of its reply. Hard: every
operation makes several backend and disk calls and each can fail or be the last
before a crash; the backend restarts on its own schedule; what is in the slot
is known only by inference. Right when a snapshot is what its metadata says,
when no order of failures replaces a newer state by an older one, when "parked"
is true, and when inference never runs on a state that is not its own.

**Snapshot files** (`proxy.py`: `save`, `remove`, `atomic_json`, `gc`,
`enforce_capacity`; `src/patches/llama-slot-resume.patch`). State: the archive
directory, with `<key>.<uuid>.bin`, `.bin.resume` and `<key>.meta`; `entries` is
a cache of it. Written by two processes, backend and proxy. Hard: a crash between
any two operations, a power loss that keeps part of them, a backend that goes
on writing after the proxy's time-out, unlinks that fail half way. Right when
the directory always implements an atomic catalogue of whole snapshots, and when
nothing is left behind for ever.

**Maintenance gate** (`proxy.py: prepare_update`, `updates.py: _apply`,
`removal.py: stop`). State: `maintenance_until`, the inference lock, the threads
that serve the control requests, the client's step. Hard: threads that outlive
their client, leases that run out under their holder, clients that die. Right when
a coordinated stop cuts no reply off and loses no turn, and when inference always
comes back.

**Retention** (`retention.py`). Validated settings in a file and the tests "has
expired", "is over capacity". Pure, apart from one atomic write.

**Runtime manifest and backends** (`runtime.py`, `backends.py`). The manifest
names the process, its arguments and the identity of its weights; `runtime()`
believes it only while that process is alive and its files are unchanged.

**Updates and releases** (`updates.py`, `releases.py`). Package installation with a
recorded outcome and a rollback. Hard: dying between two steps, with the package half
installed. `migration.py` moves a sloth-memory profile to kvpark, once: it drains and
stops the old proxy and copies the plugin's settings, and leaves the archive in place.

**Service start** (`hermes_service.py`, `network.py`, `runtime.py: launch`,
`removal.py: stop`, the setups of `setup.py`). State: `runtime.json` and `proxy.json`,
which name the llama-server and the proxy; three lock files, for starts and stops
(`.hermes-start.lock`), for the launcher (`.backend.lock`) and for the proxy
(`.proxy.lock`); the processes. Operations: `ensure`, `supervise`, `launch`, the proxy's
`main`, `stop`. Hard: several agents start at once; what they start is detached, outlives
them, dies on its own, and may be another agent's; records of processes that are gone.
Right when an archive has one llama-server and one proxy, a start that succeeds found its
own model, one that fails leaves nothing, a stop stops everything, and an uninstall is
final for the Hermes processes of its profile.

**Hermes and OpenCode plugins** (`hermes*.py`, `opencode/`), **setup**
(`setup.py`), **command line** (`cli.py`). Routing, configuration text, printing.
Setup keeps one record under `.setup.lock`; the services it starts, and their undoing, are
in `ServiceStart`.

**Bridge** (`bridge/`). `switch.py` moves a conversation between two servers: it
saves the source's slot, may use that slot for side requests to describe a medium
and put it back, takes a layout template and a native prefix from the target
(both cached on disk), has the engine translate, and restores the result into the
target. `stage.py` keeps a leased intention; `surrogates.py`, `capabilities.py`,
`messages.py` and `registry.py` are decision tables. Hard: every call can fail, the
target restarts with other settings, and other clients use both servers. Right when
no file with a conversation's cache is left over, the source gets its slot back, and a
cached template is complete and does not fail one switch after another.

**Engine daemon** (`src/experiments/universal_kv/engine_daemon.py`,
`bridge/engine_client.py`). One process per directory, connection threads, one
worker, a queue. Hard: stopping while requests arrive, idle exit, start races, a
client that times out and kills the daemon. Right when every call ends, when its
output file is what its caller was told, and when two daemons never use the GPU at
once.

**Resource guard** (`src/experiments/universal_kv/resource_guard.py`, and
`run_child`, `guarded_locks`, `gpu_lock` of `campaign.py`). State: two machine-wide
flocks that commands inherit with their descriptors, the process group of a
command, the Watch that reads the sensors and stops and continues the group, the
Guard of a fit run by hand. Hard: locks taken in several orders and by several
processes, commands that outlive the process that watched them, sensors that
disappear while a command is stopped. Right when heavy commands exclude each other,
stop when hot and until cool, leave nothing behind, and all come to their end.

**Onboarding campaign** (`src/experiments/universal_kv/campaign.py`). State:
`state.json` with the status of seven stages, the directories of their outputs,
assembled hubs elsewhere. Operations: `run` with `--stages` and `--redo`, `reencode`,
`assemble`, `status`. Hard: any stage can fail or be killed after any part, a killed
campaign leaves its command running, finished parts are adopted by the next run, and a
redo makes what was computed downstream stale. Right when a stage recorded as done
was computed from what its inputs hold now.

**Translation engine and measurements** (the rest of `src/experiments/`). Numerical
code and offline experiments.

### How they interact

A client's request reaches `Handler.relay`, which takes the inference lock, calls
`Archive.switch` (backend `/slots` calls, files), forwards the request and then
decides who owns the slot. `control` requests (`park`, `forget`, `retention`,
`prepare-update`, ...) take the same lock from their own threads; the cleanup
thread takes it every hour. Updates and uninstalls are other processes: they talk
to `prepare-update` and `cancel-update`, and exclude one another with
`.hermes-start.lock`. The bridge talks to the llama.cpp servers directly and to the
engine over a socket; `run_job()` is one step of `switch()`. Campaigns produce the
hubs the engine loads; their commands, and the engine's one-shot process, share the
GPU under the locks of the resource guard.

## 2. Plan

Ordered by what a failure costs the user.

1. `SlotArchive`, its invariant and its proof. **Done.**
2. `Snapshots` and `SnapshotStore`, the refinement between them, with the proofs of its
   safety and of the refinement. **Done.**
3. `UpdateGate` and the proofs of its safety. **Done.**
4. `EngineDaemon`, with its client and the proofs of its safety. **Done.**
5. `BridgeSwitch` and the proofs of its safety. **Done.**
6. `ResourceGuard` and the proofs of its safety. **Done.**
7. `Campaign`, with `Pipeline` as what it promises. **Done**, with the proofs
   of the refinement and of its safety.
8. `ServiceStart` and the proofs of its safety. **Done.**
9. Not taken up: a module on the Hermes profile (`hermes_uninstall.py`, `migration.py`,
   what `hermes.py` saves there), `StageLease` (`bridge/stage.py`), `SetupGuide`
   (`setup.py`). Each is a short protocol on one file; section 7 says what would be lost.
   `Capacity` (`retention.py`) is arithmetic that unit tests reach.

## 3. The modules and the code

### SlotArchive

One action is the code between two points at which the lock's owner waits for
the backend or the disk; there the backend may restart, the call may fail, and the
proxy may die. `pc` is that point.

| `pc` | The owner is about to | Actions that leave it |
| --- | --- | --- |
| `idle` | nobody owns the lock | `Turn`, `Park`, `Forget`, `Cleanup` |
| `runtime` | check the manifest (`runtime()`) | `TurnRuntime`, `ParkRuntime`, `RuntimeFails` |
| `slot` | look at `/slots`, decide what to save | `SlotStays`, `SlotChanges`, `SlotFails` |
| `save` | look at `/slots` again, decide whether to save | `SaveUnwanted`, `SaveWanted`, `SaveFails` |
| `post` | ask the backend to write | `SavePosted`, `SaveFails` |
| `publish` | write the metadata | `Published`, `PublishFails` |
| `erase` | erase after `simulate_gap` | `GapErased`, `GapEraseFails` |
| `restore` | restore the incoming conversation | `Restore*`, `LoadFails`, `LoadUnsafe` |
| `touch` | rewrite `last_used` | `Touched`, `TouchFails` |
| `seed` | start from another snapshot | `Seed*`, `LoadFails`, `LoadUnsafe` |
| `generate` | forward the request | `Completed`, `UpstreamFails` |

`BackendRestarts` and `ProxyRestarts` are the environment; a restart at `post`, after which
an empty slot is saved and published, needs the fault `blank`. `slot` and `model` are
the backend's, `latest` and `answer` are history: each conversation's last completed
turn and the key the last call was told is parked. The contents of a slot are a
record of whose turn it is, at which prompt, by which weights, and whether it is
sound; a prompt signature is a prefix (system prompt, tools, settings), a
sequence of message digests and the autosave flag; one message counts as one token.

Left out or abstracted: the maintenance gate (in `UpdateGate`); the files (in
`SnapshotStore`); `thread`, with which `park` only looks a key up, so `Park` takes
any key; `park` of a key that names nothing, which changes nothing; sizes and
clocks, so expiry, eviction and the measured rates of `seed` are free choices; the
`unverified` role, which behaves like background work without protection and is
covered by requests without a key; requests whose messages are malformed, which the
backend rejects; requests that do not generate and do not take the lock.

### SnapshotStore and Snapshots

One action is one file operation: the backend creates, completes and follows up a
file (`Backend*`); `save()` waits, fsyncs the files, replaces the `.meta`, fsyncs
the directory and unlinks what it retires; on an error it rereads the `.meta`
and keeps or discards its files (`KeepPublished`, `DiscardUnpublished`); `remove()`
pops the entry and unlinks three files; `gc()` and `update_retention()` remove and
collect. `Crash` kills the proxy between any two of these and reloads the `.meta`
files; the backend goes on with its job. A uuid is a generation number.

Power loss: operations on a directory reach the disk in their order (an ordered
journal), so `survivors` holds the directories since the last directory fsync, any
of which may be found afterwards, and an unsynced file may be incomplete. With the
file system of Windows (`platforms.py:77`) the directory fsync is absent; the mutant
`DirectoryNotSynced` shows what is lost then.

`Snapshots` is the promise: under each key at most one generation, replaced and
dropped atomically, and what was acknowledged stays until it is withdrawn, even over a
power loss. `SnapshotStore` implements it with `catalogue <- metas` and
`promised <- acked`.

### UpdateGate

`Refused` to `ParkFails` are `prepare_update()` in a thread of the proxy, `BeginUpdate` to
`Cancel` the client in `_apply` (an uninstall ends after `Stop`), `Serve` whoever starts
the proxy again. `record` is `update.json`, `package` the release that the environment
holds (0 when pip has left none that works), `running` the one that the proxy has loaded;
`previous # version` in the record is `changed`, since a wheel is installed exactly when
the target is not installed already. A client that is killed at its pip leaves it running:
`pip` is what it will install. The gate's test and its closing are two steps, as in the
code, which takes no lock for them. A tick is 30 s: the lease is 10 ticks (300 s), the
wait for the lock 2 (60 s), the client's wait 3 (90 s); a park takes at most `ParkLimit`,
a client's own step at most `WorkLimit`. A thread or client at its limit must move before
time goes on.

Assumed: one client at a time holds `.hermes-start.lock`, and the time a client
takes before its first request (it looks up releases) is longer than a thread needs
from the test of the gate to closing it. SIGTERM ends the proxy at once (one that
takes longer than `stop_proxy()` waits counts as one that does not stop). A pip that lost
its client is over before the next client or proxy starts, unless `pip` is in `Faults`.
Nobody starts the proxy, or installs the package, by hand during an update.

### ServiceStart

`at` is where an agent is in `ensure()`; from `reading` to `cleaning` it has
`.hermes-start.lock`. `child` is `started`, the processes it has started. A launcher goes
from `starting` over `locked` (it has `.backend.lock`), `spawned` (its llama-server runs)
to `watching` (`runtime.json` is written); `Spawns` to `LauncherKilled` are `launch()`,
`ProxyLocks` and `Serves` the proxy's `main()`, `StopBegins` to `StopFails` are
`removal.stop()`, whose drain is in `UpdateGate`. A record counts while its process lives
(`RecordedBackend`, `RecordedProxy`), as `process_matches()` decides by pid and creation
time: so a process identity is given out again only when nothing refers to it
(`FreshBackend`, `FreshProxy`).

Who reads which settings, and when, is what an uninstall depends on. An agent has a `Kind`
and a `Profile`, a Hermes profile or `standalone`; `uninstalled` is the set of profiles
with that setting, and holds `standalone` while there is no `setup.json`. A `hermes` reads
its profile's settings each time, also under the lock (`Disabled`). `kvpark start`
(`start`) and `kvpark start --supervise` (`supervisor`) read theirs once; between two
passes a supervisor is `asleep`. A `setup` brings its own; it saves them when the services
run and the lock is free (`Saves`), which fails when they have been changed since it began
(`outdated`), and then stops what it started without the lock (`undoing`). The uninstall of
a profile writes its setting under the lock (`Disconnects`), the standalone one removes
`setup.json` after it (`ClearsSettings`). `Setup` is `/kvpark setup` in an uninstalled
profile. Left out: backends that kvpark does not launch, and proxies declared external: a
status request, no process.

### EngineDaemon

A daemon is a process: `unborn`, `starting` (up to `bind()`), `serving`, `draining`
(from the end of `serve()`'s loop to `close()`), `closed` (from there to the end of its
process: socket and lock are free, and a job that took longer than the 60 s of `join()`
still runs), `gone`, or `refused` when another one
holds `engine.lock`. The socket's path names at most one of them, also after that one
was killed and its file stayed. `Accept` to `WorkerGone` are a connection's thread,
`WorkerTakes` to `WorkerDies` the worker, the rest is one call of `run_job()` or
`prewarm()`: ping, start a daemon, send, receive, give up, kill, remove the output,
translate in a process of its own. Testing for a problem and putting the job into the
queue are two steps, as in `handle()`. A limit of time may strike whenever what it
waits for has not happened. `Ends` is the end of a process, by `main()`'s return or by a
signal: the kernel frees the lock and closes the connections. An engine that is killed or
fails after it linked its output file leaves it (`left`): after a final error of the
daemon, and after the translation in a process of its own, nobody removes it.

Assumed unless `Faults` has `slow_client`: a new daemon takes longer from its start to
`bind()` (an interpreter and its imports) than a client from its ping to its request.

### BridgeSwitch

The actions are the calls of `switch()` that touch a server or a shared file, in the
order of the code; `pc` names the next one. `bin` and `res` are the two files of the
target's layout template, `prefix` the cached native prefix, `files` what a switch has
made in the servers' slot directories. `layout` stands for whatever a restart of the
target's server can change without changing the template's identity; the server
refuses a file of another layout. `Finally` is the `finally:` clause; it removes the files
that `switch()` has noted. A save that fails after the server wrote its file, or a
replacement that fails, leaves one it has not noted (`Strands`). The
environment kills a switch, restarts the target and takes its slot.

The rules on models, media, lengths and renderings are the choice to skip in `Plan`
and `Draft`. A warm-up that fails is only reported. Slot files in the caches and the
outputs are told apart by whose state they hold, not by their bytes.

### ResourceGuard

A job is one of four kinds, by the locks it takes and how: a campaign's command, whose
locks are inherited and asked for again by `fit_hub.py`; `resource_guard.py run
--cpu-lock`; a fit by hand, without a Watch; a program with the two locks in the wrong
order, which `check_lock_order()` must refuse. An flock belongs to the open file, so
`Holders` counts the job's own process, its command and what the command left in its
group. `Sample` is one step of the Watch, or of `Guard.check()`, for any reading;
memory that runs short counts as hot and memory recovered as cool. A Watch's history is
the number of critical readings in a row (abort at the second), and whether the last
reading was lost. `Terminate` is a signal: before the command runs it ends the job,
while it runs it starts the 30 s of `stop_group()`, and a second one there or in the sweep
of left-overs ends the job with its command still running (`cut`).

### Campaign and Pipeline

The content of a part is `current` when it was computed from what the stages it reads
hold now, and `old` when one of those was replaced since: the property that a status
file cannot see. `Run` is `plan_run()` with the marking of stale stages; `Begin` cleans
what a stage left and writes `running`; `Keep` adopts a finished chunk or direction;
`Prepare`, `Start`, `Ends` are one command; `StageDone` writes `done`. `Killed` ends the
campaign and leaves its command an orphan, which writes its part later (`OrphanEnds`).
`MoveAside`, `SwapIn`, `Reencoded` are the renames of `reencode`. Fits are numbered, so
that an assembled hub can be compared with the hub the model has now. One model is
enough: each model has a directory and a lock of its own.

Left out: budgets and the order of documents (a chunk may be recomputed at will, as when
a budget changed), probes, reports, and `campaign.py`'s lines that print.

## 4. What the runs check

| Run | Question | States |
| --- | --- | --- |
| `slot_parked` | one model, a readable manifest, every other fault everywhere: ownership, newest turn, "parked", the save policy, protection from background work | 1.1 million |
| `slot_inference` | two models, changing prefixes, restarts between requests: snapshots are faithful, inference runs on its own sound state | 264 000 |
| `store_faults` | every single fault, crashes and a power loss: refinement of `Snapshots`, complete and kept snapshots, memory against directory, collection of orphans | 135 000 |
| `gate_update` | overlapping callers, time-outs, failing installations, rollbacks, deaths: clean stops, a true `update.json`, and the gate reopens | 32 000 |
| `start_agents` | a Hermes and a standalone setup with different models, processes that fail, hang, crash or are killed, stops, uninstalls of either: one of each service, the right model, nothing left, nothing restarted | 631 000 |
| `start_exits` | a Hermes and a supervisor; agents that go away in the middle as well: every start ends, the proxy comes back | 116 000 |
| `engine_stop` | two switches and two daemons, stopped, killed, idle, given up on: outcomes, exclusion, reachability, and every call ends | 666 000 |
| `bridge_switch` | three switches in turn, every call failing, kills, restarts, other clients: files, the source's slot, the template cache | 2.9 million |
| `guard_mixed` | four jobs of four kinds, heat, lost sensors, kills, signals: exclusion, cooling, nothing left, no deadlock | 10 200 |
| `campaign_resume` | three launches of any of ten requests, failures and kills: currency of results, readiness of inputs, outdated hubs, refinement of `Pipeline` | 224 000 |

Two more runs, `slot_stale_claim` and `slot_unsafe`, expect a violation (section 5). The
type invariant of each module is proved (section 6) and checked by `slot_parked` alone.

What they show, property by property:

- `OwnerHoldsSlot`: between requests the slot is empty or holds the newest turn of
  `current_key`, at `current_prompt`. A cut-off reply, a failed save and a
  restart never leave a wrong owner.
- `SavesAreLatest`, `BackgroundPreserves`, `ParkedIsLatest`: a save publishes the
  newest turn; background work starts only after the state it displaces is on disk
  (or a save failed); a caller who is told "parked" finds the last turn.
- `DisplacedWithinGrowth`: what the policy does not save is less than `Growth` tokens
  ahead of what is saved, by the running model, and not edited away since.
- `SnapshotsFaithful`, `ResumesOwnState`, `NoForeignState`, `NoUnsafeInference`: a
  snapshot is what its metadata says; a returning conversation with a usable one
  resumes from it; inference runs on no state of other weights and on none that
  is half restored.
- `EntriesRestartable`, `PublishedComplete`, `AckedSurvives`, `OrphansCollected`,
  `ImplementsSnapshots`: the archive directory.
- `StopsAreClean`, `GateReopens`, `OutcomeIsTrue`: a coordinated stop cuts no reply off
  and loses no turn; the gate never stays closed; `update.json` says "complete" or
  "rolled_back" only of a package and a proxy that are so, and an update that asks for no
  recovery leaves a proxy where it found one.
- `OneOfEach`, `ReadyIsRight`, `NothingLeft`, `StopIsFinal`: an archive has one
  llama-server and one proxy; a start that succeeds has the configured model behind the
  proxy; one that fails has stopped what it started, or left it on record; when a stop or
  an uninstall has succeeded nothing runs, and a Hermes of an uninstalled profile starts
  nothing, though it was waiting for the lock. `StartsEnd`, `ProxyReturns`: no start waits
  for ever, and a lost proxy is replaced.
- `OutputMatchesOutcome`, `JobsExclusive`, `ServingIsReachable`, `CallsEnd`: what a call of
  `run_job()` returns is true of its output file ever after (but for a `left` one); one
  daemon works at a time, unless another one has `closed` over a long job; the one that
  serves can be reached, and no request is left in a dead queue.
- `FilesTidy`, `SourceKept`, `TemplateComplete`, `RejectedOnce`: no bridge file outlives its
  switch, but for one whose making or moving failed; the source has its conversation back,
  the template's slot file is the last written and the first removed of its two, and a
  template from before a restart fails one switch only.
- `WorkExclusive`, `StaysStopped`, `NothingLeft`, `JobsEnd`: also after a kill two
  commands never work under one lock; nothing runs between a hot and the next cool
  reading; a job that ends, other than by a kill or a second signal, leaves nothing (`run`
  does not look for left-overs); every job ends.
- `DoneIsCurrent`, `InputsReady`, `OutdatedHubsFlagged`, `ImplementsPipeline`: results
  are computed from the inputs that are there now, and what is not is flagged.

### Bounds, and why they are enough

Two conversations: one that loses the slot and one that takes it; a third differs
from the second only in what `seed` may choose. Two models: the snapshot's and
another. Prompts: in `EditedPrompts` a history of one to three messages, which grows by
continuing and is edited by going back; the shortest and the longest ask for autosave.
With `MinTokens` of 3 and `Growth` of 2 their lengths are below and at the first limit, and
a growth of 1 is below, one of 2 (from 1 to 3) at the second. In `PrefixPrompts`, of
`slot_inference`, there are two system prompts and one message. Messages, keys and
prefixes matter only by equality. `SlotArchive` has no counters, so its state space
is finite without further bounds. `MaxGenerations` of 2 gives a previous and a new
generation of one key, or one of each of two keys; `MaxOutages` of 1 a power loss at
any step, after which nothing of it is remembered but the directory. Two clients of
the gate overlap as any two of several would, since the lock lets one pass.

`start_agents`: with `Budget` of 2, any two faults or stops in one behaviour, which is what
a second start meets of a first; the Hermes and the setup differ in settings, in model and
in how they are uninstalled; three
launchers and three proxies are one that is left, one that fails and one that follows, two
ports one that is taken and one that is free, and `Attempts` of 2 a first and a last
attempt. `start_exits` has one fault, and a Hermes and a supervisor of one profile and
model.

`engine_stop`: two clients queue behind, race with and kill each other's daemon; two
daemons are the one that ends and its successor (`Daemons` bounds the processes
started). Calls of `prewarm()` write no output and take the same path as a switch up to
their reply; the run has none, the theorems are for any number of them.
`bridge_switch`: a switch that makes a template, one that meets it after a restart
(`MaxLayout` of 2) and one after that. `guard_mixed`: one job of each kind, so that each
pair of lock orders occurs. `campaign_resume`: one launch that does something, one that
invalidates it and one that builds on what is left; the ten requests of `MCCampaign`
redo a stage before, at and behind the ones that others read. `MaxLaunches` bounds the
processes, nothing else grows.

Which faults a run enables is part of its question: no run has `blank` (but for
`SnapshotsFaithful` and `OwnerHoldsSlot`, which are proved for every set of faults, the
properties of a save fail with it), `slot_parked` has no `runtime`
fault, `slot_inference` no failing erase and no restart in the middle of a request,
`store_faults` no `reread` and `unlink-meta`, `engine_stop` no `slow_client`,
`start_agents` no `exit` and `early-kill`,
`campaign_resume` no `swap`, because properties fail with them (section 5).
`bridge_switch` lets one switch run at a time (`Overlap` is `FALSE`): the agent that
calls `switch()` does so in turn.

### Fairness

`store_faults` assumes that the backend finishes what it began and that the lock's owner
goes on (weak fairness), and that the hourly gc thread gets the lock again and again, that
an orphan is old enough at the end of some pass (so cleanup is on and `ttl_days` is
positive), and that not every unlink fails (strong fairness of `Clean("gc")`,
`Collect(Orphans)` and `Unlinked`). The first is a thread with a timer on a lock whose
owners all finish; the second holds because orphans only get older; the third is a condition
on the disk.

`gate_update` assumes that threads and clients that can move do (weak fairness) and that
time does not stand still (strong fairness of `Tick`, which a busy proxy disables now and
then but never for ever).

`start_exits` assumes weak fairness of every process's next step, that a model loads, that
whoever waits for `.hermes-start.lock` gets it in the end (strong fairness of `Locks`;
`file_lock` polls, and each holder has it for a bounded time), and that agents ask again
(`Begin`): a supervisor every 60 s, the Hermes middleware on each request. It assumes no
fault and no stop.

`engine_stop` assumes that each process's and thread's next step comes (weak fairness per
daemon, and per client with its connection's thread), that a job ends and that
`ensure_daemon()` meets its deadline. It does not assume that a client ever runs into the
time limit of its job (`Overrun`), nor that a daemon is stopped or killed.

`guard_mixed` assumes strong fairness of what brings a job nearer to its end: `flock()`
serves its waiters, a package under no load cools, a command that runs again and again ends,
and a pause does not outlast `max_pause_s`. It assumes nothing of kills and signals, and
`JobsEnd` excuses the jobs that wait for a command which a process abandoned when it was
killed or `cut`.

## 5. Where the code and its words differ

Two runs expect a violation; `PROJECT.json` has the quotations.

- `slot_stale_claim`: `switch()` runs `runtime()` before it drops the conversation's
  displaced claim. If the check fails the turn goes on, unsaved, and a later `park`
  answers from the older snapshot.
- `slot_unsafe`: after `UnsafeRestoreError` nothing remembers that the slot is half
  written; the next request infers on it.

Further observations have no run; they appear as exceptions in a property, as faults
that no run enables, or as assumptions of a theorem.

- The identity is checked before the outgoing save, whose fsync takes seconds, and not
  again before the restore. With the fault `swap` the backend changes its model in between,
  and `NoForeignState` fails.
- `save()` looks at the slot (`proxy.py:231`) and then has it saved (`proxy.py:250`). A
  backend that restarts in between (fault `blank`) has an empty slot; `n_saved` is not
  looked at, so the empty snapshot replaces the one before and `park` reports it.
  `SavesAreLatest`, `BackgroundPreserves`, `ParkedIsLatest`, `DisplacedWithinGrowth` and
  `ResumesOwnState` fail with it; `SnapshotsFaithful` and `OwnerHoldsSlot` hold.
- A park that fails after its lease ran out resets the lease of the next caller
  (`proxy.py:462`). With a `ParkLimit` above `Lease`, `StopsAreClean` fails.
- `prepare_update()` tests `maintenance_until` and sets it without a lock
  (`proxy.py:451`). Two callers in the same instant would both pass; the client's
  `.hermes-start.lock` keeps them apart.
- The llama-server dies, its proxy lives. `ensure()` finds the proxy, does not find the
  backend it owns, and raises (`hermes_service.py:198`); `--supervise`, which "relaunches
  whatever stopped" (`docs/hermes.md:221`), logs that every 60 s, and nobody starts a
  llama-server until the proxy is stopped. `ProxyReturns` is about the proxy alone.
- A snapshot of an earlier model counts as the previous snapshot, so autosave skips a
  conversation until it has grown by `RESAVE_GROWTH_TOKENS` although nothing of it can
  be restored, although `docs/integration.md:21` promises the save. `DisplacedWithinGrowth`
  speaks of snapshots by the running model.
- `reread` and `unlink-meta` of `SnapshotStore` break `PublishedComplete`: the first needs
  an fsync of the directory and then a read of the `.meta` to fail, the second an unlink
  that fails for the `.meta` alone.
- An agent that ends in the middle of a start (fault `exit`) leaves a launcher that takes
  its locks later. `OneOfEach`, `StopIsFinal` and `ReadyIsRight` fail with it: `_wait()`
  believes any llama-server that is recorded and healthy. A launcher that is killed before
  it writes `runtime.json` (`early-kill`) leaves a llama-server that nothing knows of: by
  another program, or by the start that gives it 10 s to stop, when it gives its
  llama-server 10 s as well. Killed later (`kill`, `stuck`), it leaves one on record, and
  the properties hold.
- An uninstall is final for the Hermes processes of its profile. `kvpark start`, a
  supervisor and a setup have read their settings before (`cli.py:206`, `setup.py:110`), a
  Hermes of another profile has its own, and the standalone `setup.json` is removed when the
  lock is free already (`cli.py:246`): whoever of them waits for the lock starts the
  services again. `docs/uninstall.md` leaves it to the user to disable supervisors (line
  142) and to disconnect the other profiles (61). `StopIsFinal` is about what was running
  when it stopped and about Hermes.
- `close()` of an engine daemon frees `engine.lock` after 60 s (`engine_daemon.py:426`,
  441), with a longer job still in its worker: until `main()` has returned, a new daemon can
  work beside it. The exception in `JobsExclusive`.
- An engine that fails, or is killed by the time limit, after it linked its output leaves
  the file: `run_job()` removes it only when it gives a daemon up (`engine_client.py:326`),
  not after a daemon's final error (311) nor after a one-shot translation (268). The
  exception in `OutputMatchesOutcome`.
- `_kill()` of the engine's client ends the daemon that answered the ping. With
  `slow_client` another one may have replaced it and has the job; its output appears after
  the call has failed, and `OutputMatchesOutcome` does not hold.
- On Windows `fsync_directory()` does nothing (`platforms.py:77`): a power loss may undo a
  rename that `save()` has reported.
- `get()` of a bridge stage reads an expired stage and then unlinks the path
  (`bridge/stage.py:43`); a `put()` between the two loses its fresh stage.
- A save that fails after the server wrote its file, or a file that cannot be renamed into
  the cache, leaves `kvbridge-template-*` (`switch.py:142`) or `kvbridge-prefix-*`
  (`switch.py:197`) in the slot directory, and a failing engine its partial output; nothing
  removes them, while `docs/bridge.md:422` says of a translated slot's `.resume` that it is
  "deleted after the restore, like every bridge file": the exception in `FilesTidy`.
- The pip of a killed update may finish after the next update has recorded its outcome;
  `OutcomeIsTrue` then fails (fault `pip`).
- With `Overlap` two switches share the source's slot and the template without a lock;
  `SourceKept`, `TemplateComplete` and `RejectedOnce` then fail.
- A killed process leaves the command it had stopped, stopped, with the locks:
  `Abandoned` in `JobsEnd`. `resource_guard.py run`, other than a campaign, does not
  look for what a command left in its group: the exception in `NothingLeft`.
- A second signal within the 30 s of `stop_group()` (`campaign.py:978`,
  `resource_guard.py:1387`), or one in the sweep of left-overs (`campaign.py:988`), ends the
  process and leaves the command running: `cut`, which `NothingLeft` excepts.
- `check_lock_order()` knows the locks of its own process. A GPU fit under `run
  --cpu-lock` takes them in the wrong order unnoticed; no kind of job here does.
- `--redo` marks a downstream stage stale only if it is done. One that had failed or was
  cut keeps its finished parts, computed from what is now redone: `spared` in
  `DoneIsCurrent` and `InputsReady`. So does a failed stage that `--redo` names itself,
  when that run is killed before it gets there: the next run does not know of the `--redo`.
- A kill between `reencode`'s renames and its save of `state.json` (fault `swap`) leaves
  results that are outdated and recorded as done, and a hub that is not flagged; a kill
  between `merge_bundles()` and `record_assembly()` leaves an assembled hub that
  `status` does not know of.

## 6. What is proved

For all values of the constants, from the assumptions named in the modules:

| Theorem | States |
| --- | --- |
| `SlotArchiveProofs!InductiveInvariance` | `Spec => []Inductive` |
| `SlotArchiveProofs!TypeCorrect` | `Spec => []TypeOK` |
| `SlotArchiveProofs!Faithfulness` | `Spec => []SnapshotsFaithful` |
| `SlotArchiveProofs!Ownership` | `Spec => []OwnerHoldsSlot` |
| `SlotArchiveProofs!NewestSaved` | without `blank`: `Spec => SavesAreLatest` |
| `SlotArchiveProofs!PolicyInvariance` | without `blank`: `Spec => []Policy` |
| `SlotArchiveProofs!BackgroundHarmless` | without `blank`: `Spec => []BackgroundPreserves` |
| `SlotArchiveProofs!DisplacedBounded` | without `blank`: `Spec => []DisplacedWithinGrowth` |
| `SlotArchiveProofs!OwnStateResumed` | without `blank`: `Spec => []ResumesOwnState` |
| `SlotArchiveProofs!ParkedTold` | without `runtime`, `blank`: `Spec => []ParkedIsLatest` |
| `SlotArchiveProofs!OwnWeights` | without `restart`, `blank`, `swap`: `Spec => []NoForeignState` |
| `SlotArchiveProofs!NothingHalfWritten` | without these, `erase`, and `crash` with `load`: `Spec => []NoUnsafeInference` |
| `SnapshotStoreProofs!Invariance` | `Spec => [](TypeOK /\ Inv)` |
| `SnapshotStoreProofs!TypeCorrect` | `Spec => []TypeOK` |
| `SnapshotStoreProofs!Restartability` | `Spec => []EntriesRestartable` |
| `SnapshotStoreProofs!Completeness` | `Spec => []PublishedComplete` |
| `SnapshotStoreProofs!Durability` | `Spec => []AckedSurvives` |
| `SnapshotStoreProofs!Refinement` | `Spec => ImplementsSnapshots` |
| `UpdateGateProofs!TypeCorrect` | `Spec => []TypeOK` |
| `UpdateGateProofs!Outcome` | without `pip`: `Spec => []OutcomeIsTrue` |
| `UpdateGateProofs!CleanStops` | under `InTime`: `Spec => StopsAreClean` |
| `ServiceStartProofs!TypeCorrect` | under `Orderly`: `Spec => []TypeOK` |
| `ServiceStartProofs!OneService` | under `Orderly`: `Spec => []OneOfEach` |
| `ServiceStartProofs!UninstallIsFinal` | under `Orderly`: `Spec => StopIsFinal` |
| `ServiceStartProofs!OwnModelIsReady` | under `Orderly`: `Spec => ReadyIsRight` |
| `ServiceStartProofs!FailureLeavesNothing` | under `Orderly`: `Spec => NothingLeft` |
| `BridgeSwitchProofs!TypeCorrect` | `Spec => []TypeOK` |
| `BridgeSwitchProofs!Tidiness` | `Spec => []FilesTidy` |
| `BridgeSwitchProofs!CompleteTemplates` | without `Overlap`: `Spec => []TemplateComplete` |
| `BridgeSwitchProofs!SourceReturned` | without `Overlap`: `Spec => []SourceKept` |
| `BridgeSwitchProofs!OneRejection` | without `Overlap`: `Spec => []RejectedOnce` |
| `EngineDaemonProofs!TypeCorrect` | `Spec => []TypeOK` |
| `EngineDaemonProofs!Exclusion` | `Spec => []JobsExclusive` |
| `EngineDaemonProofs!Reachability` | `Spec => []ServingIsReachable` |
| `EngineDaemonProofs!Truthfulness` | without `slow_client`: `Spec => []OutputMatchesOutcome` |
| `ResourceGuardProofs!TypeCorrect` | `Spec => []TypeOK` |
| `ResourceGuardProofs!Exclusion` | `Spec => []WorkExclusive` |
| `ResourceGuardProofs!Cooling` | `Spec => []StaysStopped` |
| `ResourceGuardProofs!Tidiness` | `Spec => []NothingLeft` |
| `CampaignProofs!Implementation` | `Spec => ImplementsPipeline` |
| `CampaignProofs!TypeCorrect` | `Spec => []TypeOK` |
| `CampaignProofs!Flagging` | without `swap`: `Spec => []OutdatedHubsFlagged` |
| `CampaignProofs!Currency` | without `swap`: `Spec => []DoneIsCurrent` |
| `CampaignProofs!Readiness` | without `swap`: `Spec => []InputsReady` |

*SlotArchive.* `SnapshotsFaithful` is not inductive: a save publishes what the backend
wrote a step earlier, under a key and identity read before that. `Inductive` adds what
connects them. `StepInv` says which requests reach which step and where
`current_key` is; `SyncInv` that an identity read from the manifest is that of the
running weights until the backend restarts; `OwnerInv` that, at each step, the slot is
empty or holds the newest turn of the conversation in question, at the resident prompt and
by these weights, and so does the file being written, which is empty only if the backend
restarted between the two requests of the save (`blank`). A restarted backend has an empty
slot, which is why a stale owner is harmless. One lemma per action shows that it
preserves each part; `NewestSaved` follows, without `blank`, because only `save()`, or a crash
during it, puts a new snapshot under a key.

On top of it stands `Policy`, about a conversation that loses the slot and one that gets
it. `TurnInv` says whom a turn may find resident; `OutgoingInv` what the outgoing one
has on disk once the save was made or skipped, which is the policy of `save()` at every
step after it; `IncomingInv` that a seed is only taken where no snapshot is usable, and
that what was restored is the incoming one's own turn, from which `ResumesOwnState`
follows. `PolicyInvariance` and the three theorems it gives need no other assumption on the
faults than that `blank` is not among them. The others do, and section 5 says what happens
otherwise: `ParkedTold` that the manifest can be read (`slot_stale_claim`), so that `ClaimInv`
holds, every displaced conversation being parked; `OwnWeights` that the backend restarts
between requests only, so that (`WeightsInv`) the identity stays known during one and
the slot is of the running weights; `NothingHalfWritten` moreover that erasing works
(`slot_unsafe`), and that no proxy dies between a restore that fails and the erase, so
that (`SoundInv`) neither the slot, nor a file being written, nor a snapshot is half a
state. Two assumptions on the constants: `NoneAssumption`, that `None` is no key, prompt
or model, and `EntryAssumption`, that it is no snapshot.

*SnapshotStore.* All six assume that neither `reread` nor `unlink-meta` is among the
faults; section 5 says what happens with them. The properties are proved together, by
one invariant: memory and directory agree on every key but the one that the call at work
publishes or removes (`Agree`); what is on the list of unlinks belongs to no listed
generation, and a `.meta` on it to a key that is withdrawn already (`TodoInv`); a save
publishes what is whole and synced, and a backend's job that outlived its save still has
a part to write (`FileInv`); and in each directory that a power loss may leave, no
generation stands under two keys (`NumberInv`). Without the last, retiring one key's
generation could take the files of another's. The refinement maps the replacing of a
`.meta`, its unlink, the return of `save()`, the start of a removal and the power loss to
the steps of the catalogue; that a promised key is never dropped is `TodoInv`.

*UpdateGate.* `CleanStops` adds up times. `InTime` is `ReplyLimit + WorkLimit < Lease` and
`WaitLimit + ParkLimit < Lease`: a client has its answer and has finished its step, and a
thread has parked, before a lease runs out. Then the gate that a thread has closed is
still its own when it parks, and the client's when it stops the proxy. The code's 90 s and
300 s satisfy it for steps of up to 210 s; a park that takes longer than its lease is the
case of section 5. `Outcome` needs that one client works at a time, so that what
`update.json` says and what was done since are known at each of its steps; a `pip` that
outlives its client breaks that, and is excluded.

*ServiceStart.* `Orderly` excludes the faults `exit` and `early-kill`; section 5 says what
each of them breaks. The agents are any number of every kind, supervisors and setups too.
`Known` is about ownership: a process that no record names belongs to an agent that holds
`.hermes-start.lock` (`BehindLaunch`, `BehindProxy`, in `Launchers`, `Servers` and
`ProxiesKnown`). So whoever gets the lock knows from the two records all that runs: an agent
that starts a process is the only one that can (`Models`), a stop that takes the lock stops
everything (`Stops`), and a Hermes that has the lock has read that its profile is connected
(`Connected`). The launcher's lock is needed only against what a setup is undoing without
the start lock.

*BridgeSwitch.* `Tidiness` needs no assumption: what stays was made by a switch that was
killed, or is a file whose step failed. The other three assume `~Overlap`, so
that the switch at work owns both slots and the template (`Alone`). `TemplateComplete`
is inductive with the two places where one of the two files is there (`CompleteInv`).
`RejectedOnce` is about pairs of switches that may lie far apart: `RejectInv` says that a
template is used by its maker or after its maker's end, so that the one dropped by a
refused switch has no maker left who could make it again. For `SourceKept`, `SourceInv`
says that while a side request has the source's slot the conversation is in the save.

*EngineDaemon.* That an output is not written late needs to know who may still write it:
`DaemonInv` ties the lock, the socket and the phases together and says that a worker
with a job belongs to a live daemon; `JobInv` that a client in a worker's hands or in a
queue waits, with a connection to that daemon, and in one place only; `ConnInv` and
`ClientInv` which connection, reply and output go with which step of a client; `PidInv`
that the daemon that answered a client's ping is the one its request went to, which is
where the assumption on `slow_client` enters. `Exclusion` and `Reachability` do without
`PidInv`, so they hold with every fault; the one exception of `Exclusion` is a daemon that
has closed over a long job.

*ResourceGuard.* `Exclusion` needs that whoever uses a lock holds it, that a lock has one
holder at most, and that the locks a command asks for again are among those it
inherited, in the order its parent took them. `Cooling` needs that a Watch that saw a hot
reading has stopped both the command and what it left. `Tidiness` speaks of the jobs that
ended by themselves or at a first signal.

*Campaign.* The refinement rests on `RunInv`: the stage at work has what it reads, and so
have the stages still to come, or they get it from a stage that comes before them in the
same run. The run's next stage is the first of those, so it has its inputs. `--redo` must
take back everything downstream of what it names; `downstream()` repeats one step of
"requires" five times, and `DownstreamClosed` shows that to be enough, because every
round goes one link deeper (`Depth`, `Grown`) and no chain has more than five. For
`Flagging`, `HubInv` says that, while the onboarding is done, the fit it recorded is the
one the hub holds: a command of an earlier fit that outlived its campaign could
overwrite the hub later, but it holds the machine's locks, so a new fit only begins when
none is left (`LockInv`).

`Currency` and `Readiness` are one induction, over what is done and what is left behind
together. A command replaces, outside its own stage, only what is downstream of it, and
nothing downstream of an unfinished stage is done (`UpstreamDone`); so the danger is in
parts that are kept and in commands that are late. `LockInv` says that once a work which
recomputes all its parts has started its first command, no locked command is left over.
`KeepInv` is about the two stages that keep finished parts: what is old there, or may become
so because something it reads is not done, will be cleaned (the stage is `stale`) or is one
of the spared. `LateInv` says that a direction left over from a killed evaluation is not
late once all it reads is done again, for whoever replaced that had to wait for it.
`CurrentInv` follows the parts through the two halves of a re-encoding's swap. All three
exclude `swap`; TLC checked these invariants on the instance of `campaign_resume` first.

Not proved but checked: liveness (`OrphansCollected`, `GateReopens`, `StartsEnd`,
`ProxyReturns`, `CallsEnd`, `JobsEnd`), whose fairness is stated with `ENABLED`, which TLAPS
does not handle. Every other property of a passing run is one of the theorems above.

## 7. What is not modelled

- The numerical code, which is most of `src/experiments/` (`kvstate.py`, `hub.py`,
  `translate.py`, `handoff.py`, `engine.py`, the fits, collectors and evaluations: seven
  tenths of the repository's implementation): linear algebra over real matrices, file
  formats of tensors, statistics and plots. What could be wrong with it is in numbers that
  neither TLC nor TLAPS can hold. The map's share of the repository's lines is small for
  that reason.
- The two earlier experiment drivers, `run_v2.py` and `run_long.py`, and the live tests in
  `live_bridge.py`. The drivers resume stages from records keyed by settings and inputs,
  in one process under one lock, and refuse to go on when anything has changed; `Campaign`
  is the harder form of that (outputs that change under finished stages, commands that
  outlive their process).
- The HTTP layer, streaming and request parsing; published status, doctor and
  metrics, which read a copy of the state; configuration files of Hermes and
  OpenCode; argument building and process inspection.
- Release lookup and wheels, the migration from sloth-memory, the setup guide and the
  bridge's stage. Each is one process at a time under a lock file or on one file, with a
  crash point or two that its own tests exercise; what they would add beyond `UpdateGate`
  (drain and stop) and `ServiceStart` (starts and their undoing) is little. The Hermes
  profile, which setup, uninstall and migration edit, is written by Hermes' own
  configuration code, which is not in this repository.
- What a job of the engine, a stage of a campaign or a translation computes.

The `components` of `PROJECT.json` give the reason for each part.

## Running it

    tlc -workers 2 -config SlotArchive_parked.cfg MCSlotArchive.tla
    tlapm SlotArchiveProofs.tla
