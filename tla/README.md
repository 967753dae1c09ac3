# Verification of dynamic-config for Python

TLA+ models of the two packages of this repository, `dynamic-config-python` and
`dynamic-config-python-remote`: what the Rust binding and the Python layer do
when several threads, tasks, watchers and hooks use one configuration at once.
TLC checks small instances; TLAPS proves the most important results for every
instance.

Paths below are relative to the repository; `B/` stands for
`dynamic-config-python/` and `P/` for `dynamic-config-python/python/dynamic_config/`.

## 1. The system

A configuration (`DynamicConfig`, `P/_config.py`) wraps a Rust object (`Inner`,
`B/src/config/inner.rs`), which wraps the configuration of the `dynamic-config`
engine crate. The engine resolves a value tree from its sources, calls the
binding's *validate hook* on it, installs it if the schema accepts it, and calls
the binding's *reload hook* on the installing thread. The binding turns that
into a Python model, publishes it to readers, counts it (`Wake.generation`),
wakes whoever waits, and runs the user's hooks.

### Components, their state and their operations

| Component | State | Operations | Module |
|---|---|---|---|
| Staging and publishing (`inner.rs`, `config/mod.rs`) | `staged` slot, `next_sequence`, `last_committed`, `cache`, `generation`, prepared commits, and `_cached` on the Python object | init, reload, load, prepare, commit, discard, replace, the watcher's reload, publish_current | `Publish` |
| Waking the waiters (`inner.rs`, `mod.rs`, `_notify.py`, streams of `_config.py`) | `Wake` (two counters, a lock, a condition variable, `closed`), a notifier's list and thread, each task's baseline and future | changes, changed_async, events, release, the failure hook | `Notify` |
| Hook dispatch (`_config.py` `_Gate` and dispatchers, `_dispatch.py`) | `_running`, `_queue`, the last task, the loop's callbacks | submit, finished, cancel | `HookGate` |
| Hook registration (`_config.py`, `mod.rs`, `handles.rs`, `_lifetime.py`) | the list of hooks, the rounds under way, `HookGuard` | on_reload, on_change, remove_hook, close, run_hooks | `Hooks`, `Declared` |
| Watchers (`mod.rs`, `handles.rs`, `_lifetime.py`) | the engine's watch, the `Watch` handle | watch, stop, detach, running | `Publish` and `Layers` (the reload), `Shutdown` (stop, detach), `Group` (who owns them) |
| Interpreter shutdown (`gate.rs`, `_lifetime.py`) | `FINALIZING`, `IN_PYTHON` | attach, `_interpreter_closing`, the atexit sweep, release | `Shutdown` |
| Log bridge (`logbridge.rs`, `_logging.py`) | a bounded channel, `DROPPED`, `CLOSING`, `SENDER`, the engine's sink and level | install, deliver, forward, stop, level | `LogBridge` |
| Groups (`_group.py`) | members, `_watches`, and per call a stop event, a semaphore and the prepared commits | init, reload, reload_atomic, watch, watching, stop, and their async forms | `Group` |
| Remote slot and courier (`remote.rs`, `_remote.py`) | the source object, the last failure, the awaited document | remote, clear_remote, refresh_remote, refresh_remote_async, fetch | `RemoteSlot` |
| Runtime layers (`mod.rs`, `_config.py`) | defaults, assignments, bindings, overrides and the Python mirror of them | set_default, set_override, bind_env, the clears, `overrides()` | `Layers` |
| Executors (`_executor.py`) | the process's executor and the pool that is owned | set, configure, `executor()`, shutdown | `Executors` |
| Builder lifecycle (`inner.rs`, `mod.rs`) | Building, Ready | the fluent calls, first use | `Layers` |
| Remote clients with a cached credential (`redis.rs`, `etcd.rs`, ... of the remote package) | the client and the credential it was built with | construct, fetch, rebuild | `Stores` |
| Git and S3 credential slots (`git.rs`, `s3.rs`) | a credential slot | construct, fetch | `Stores` |
| Remote conversions (`errors.rs`, `tls.rs`, ...) | none | the arguments a store takes, what a message is blanked of | `Stores` |
| Schema adapters and values (`_schema.py`, `_dataclasses.py`, `_pydantic.py`, `_msgspec.py`, `_values.py`) | none: functions of a class and a document | field_names, secret_paths, validate, is_instance, the readers of a `Values` | `Trees`, `Schemas`, `Structure`, `Declared` |
| Declaration, settings and decorator (`_config.py`, `_settings.py`, `_decorator.py`) | the class, its secret paths, the sources and variables it is bound to, what hangs on a decorated class | `DynamicConfig(...)`, from_settings, `@dynamic_config` | `Decorator`, `Declared` |
| Conversions, scrubbing and errors (`convert.rs`, `errors.rs`, `_msgspec.py`) | none | from_py for the comparison of two models, the scrubbing of a refusal | `Declared`, `Schemas`, in part |
| Diagnostics and telemetry | a view of somebody else's | renderings | not modelled, see section 7 |
| The engine crate | external | resolve, install, watch | as far as `Publish` relies on it |

`PROJECT.json` lists the same components with their files.

### How they interact

- A caller's thread goes detached (without the GIL) into the engine, which calls
  back into the validate hook and, after an install, the reload hook. Both
  attach to Python again.
- A watcher is a thread of the engine's that does the same on its own, so a
  reload by hand, a reload by a watcher and a `load()` share the staged slot,
  the counters and the caches.
- Installing wakes three kinds of waiter through `Wake`. Threads wait in
  `wait_for_change`/`wait_for_event`; tasks wait through a notifier, whose single
  thread waits for all of them and settles their futures on their loops.
- The hook round runs on the installing thread. A hook registered with a
  dispatcher only posts its call there, to an executor or an event loop; the
  gate decides what happens to the ones that arrive meanwhile.
- A group drives the prepare/commit/discard and the reload of its members, from
  threads, from pool workers or from tasks, and owns a watcher of each.
- A refresh of a remote store runs the store's `fetch` on the caller's thread, or
  on the loop with the result carried to the engine by a courier object; nothing
  orders two refreshes.
- A store of the remote package resolves its credential on every fetch by
  calling back into Python, and reuses its client while the credential is the
  one the client was built with.
- Asynchronous calls run on a process-wide pool that any task may replace.

### What is hard, and what makes each part correct

- *Publishing.* One slot is shared by every validation, and the validator is
  Python: the GIL changes hands in the middle of everything. Two commits are made
  of one install (the reload hook's and the caller's publish_current). Correct
  means: no rejected and no uninstalled tree is served, a commit publishes the
  model of its own tree, older never replaces newer, one install is one
  generation, the caches agree with the engine in the end, and no thread holds
  the GIL while it waits for the engine.
- *Waking.* A counter, a condition variable, a flag set without the lock, a
  thread that ends by itself when it finds nobody waiting, futures cancelled
  while a thread is about to settle them. Correct means: no lost wake-up, no
  stranded future, nothing skipped, and an end when the configuration is
  released.
- *Backpressure.* Rounds of several installs overlap and calls end in any
  order. Correct means: one call at a time under `latest` and `serial`, in
  order, nothing stranded, news delivered, no superseded task left running.
- *Shutdown.* A thread that attaches while the flag is raised, a drain that
  gives up after five seconds, a reload that is past its install when the
  configuration is released. Correct means: once the drain has ended by itself
  no thread of the gate's is inside Python, a released configuration stays
  empty, and the exit goes through.
- *The log bridge.* A full channel, a start against a stop, a forwarder that
  cannot enter Python, lines still queued when it goes. Correct means: a dropped
  line is told of, an engine that sends its lines to the bridge has somebody who
  reads them, and what is queued is handled.
- *Groups.* A document that is refused half way, a commit that fails, a member
  started after another has failed, two callers of one group. Correct means: all
  or none of a reload, nothing left prepared, a report that names what really
  happened, no watcher out of reach of `stop()`, and calls that return.
- *Remote slot.* One failure slot and one document slot for concurrent fetches,
  and a courier that is read and cleared in two steps on worker threads.
  Correct means: an exception is attached to one error only and is somebody's
  failure, and a document comes from the source that answered it, once.
- *Layers and executors.* Blocks that save and restore, nested or overlapping,
  with failures inside the restore. Correct means: a block leaves no trace, a
  pool in use is live, a pool that was built is shut down.
- *Schemas.* An adapter lists secrets along types, before there is a document;
  a document has them at places, under aliases, inside lists. A dataclass tries
  the members of a union one after another, and coerces. A settings class
  names variables by joining words with a delimiter that the words may contain.
  A decorated class inherits from decorated classes. Correct means: no secret in
  the redacted cache, in `explain` or in a refusal; a dataclass takes exactly what fits and
  builds what its annotations say; an option of a settings class is honoured,
  warned of or refused; two leaves never read one variable; a class reads its
  own configuration; a filtered hook hears every move below its paths.
- *Credentials.* Parts resolved one after another while they rotate, a client
  shared by threads, a slot written by one fetch and read by another. Correct
  means: a request carries what its own fetch resolved, one client per
  credential, and no part of a secret in an error.

`PROJECT.json` lists each hazard at its line, with the properties that cover it
or the reason why none does.

## 2. Plan

Done in this order, most important first:

1. `PublishedLog` (abstract), `Publish` (detailed), `PublishProofs`.
2. `Notify`, `NotifyProofs`.
3. `HookGate`, `HookGateProofs`.
4. `Shutdown`, `ShutdownProofs`.

5. `AtomicReload` (abstract), `Group`, `GroupProofs`.
6. `RemoteSlot`, `RemoteSlotProofs`.
7. `Stores`, `StoresProofs`.
8. `LogBridge`.
9. `Executors`, `Layers`.
10. `Trees`, `Schemas`, `Structure`, `Declared`, `MCDeclared`.
11. `Facade`, which composes 8 and 9, and `FacadeProofs`.
12. `Hooks` and `Decorator`, the parts of `Declared` that do not recurse over data,
    so that they can be proved about.

To come:

13. `HookGate` with several hooks.
14. `Notify`: the blocking `changed()` and its limit, waiters registered after a
    release. `Publish`: the `reports` slot, release during a reload, and the
    finalizers a model may run when it is dropped under one of the Rust locks.
15. The forwarder of `LogBridge` and the fetches of `RemoteSlot` as further
    threads at the gate of `Shutdown`.
16. The scrubbing of engine errors (`errors.rs`) against the secrets of a
    document, and the renderings of `explain` and `status`.

Abstract specifications: the log of publications and the atomic reload are
done; worth stating are a mailbox with one reader for the notifier's streams and
a queue with one server for the gate.

Theorems worth proving next: which of the properties of `Publish` survive in a
free-threaded build beside the two proved of it.

## 3. Modules

### PublishedLog

What publishing promises, in three actions: a validation is numbered, a
validated model is shown to readers (each at most once, never after a younger
one), the generation counts it before the next is shown.

### Publish (and MCPublish)

One thread is one call. `pc` is where it is, `op` which call it made, `path`
whose pass through validate or commit this is (the engine's loader, the reload
hook, publish_current, the second pass of `load`, `replace`).

| Action | Code |
|---|---|
| `Reload`, `Watch`, `Load`, `CommitPrepared`, `Discard`, `Replace` | the entry points of `mod.rs` |
| `Enter` | the detached wait for the engine and its resolution of the sources |
| `Refuse`, `Stamp`, `Fill` | `validate`: the schema's verdict, `fetch_add`, the slot |
| `InstallFirst`, `InstallNext` | the engine's install, without and with the reload hook |
| `ReadInstalled` | `publish_current` |
| `CommitAlready`, `CommitClaim`, `CommitMismatch`, `Take`, `Raise` | `commit`: the compare, the claim, and the re-validation arm with its unconditional take |
| `WriteCache`, `Announce`, `RunHooks` | `announce`: the cache, the generation, the hook that writes `_cached` |
| `LoadMatch`, `LoadMismatch`, `LoadAnswer` | what `load()` answers |

Abstractions. A model is the pair of the sequence number stamped by the
validation that built it and the tree it was built from. The schema is a set of
accepted trees, `Valid`: a validator is a function of its tree. `Holding` and
`Attached` stand for the GIL: a thread inside a stretch of attached Rust code
with no Python call in it excludes every other attached thread when `HasGIL`;
the validator and the hooks are Python, so threads interleave at each of them.
Detached code (resolving, installing) never waits for the GIL. With
`HasGIL = FALSE` the steps of two threads interleave freely, which is a
free-threaded interpreter. Whether the engine's own lock covers a reload from
end to end is not visible in this repository, so `SerialEngine` is a constant
and the safety run uses the weaker assumption. A watcher reloads only a
configuration that has loaded. `release()` belongs to `Notify`.

### Notify

`WriteCache`, `Announce`, `PublishHook` are one install (one at a time here: how
installs race is `Publish`'s subject); `Refuse` is the engine's failure hook;
`EmptyCache`, `Close`, `NotifyClosed` are `release()`, step by step because its
flag is stored outside the lock. `KeepWaiting`, `Sleep`, `StopWaiting`,
`ReadCache` are `wait_for_change`/`wait_for_event`, where the condition
variable's wait releases the lock and sleeps in one step; `ResolveAll`,
`EndIdle`, `Die` are the rest of the notifier's thread. `Begin`, `Register`,
`Recheck`, `ReadCached`, `Wake`, `GiveUp` are the three async iterations: read a
baseline, register a future, read the counters again, await, and take what came.

Abstractions. A model is the number of its install. Settling a future happens
with the resolution of its list: the hand-over to the loop only delays it, and a
task may be slow to wake anyway. A waiter given up leaves its future in the
list, as in the code. The mutex is explicit only where a thread holds it between
two of its steps (predicate and sleep). `Notifier.close()` is not modelled: no
code calls it. Waits with a timeout on the notifier's side do not occur;
`changed_async(timeout)` is `GiveUp`.

### HookGate

One registered hook; `dispatch` and `policy` are chosen in `Init` among the
combinations `_wrap_hook` admits. `Install` and `Post` are the hook round;
`SubmitEvery`, `SubmitIdle`, `SubmitLatest`, `SubmitSerial`, `SubmitCancelling`
are the gate's answers; `Start`, `StartFails`, `Return`, `Die`, `Cancelled` are
the life of a call; `FinishIdle` and `FinishNext` are `finished()`.

On an executor the gate's lock covers the decision only and the call is started
after it; on a loop one turn covers both. `Die` stands for an end that
`except Exception` does not see (`SystemExit`, a `CancelledError` of the hook's
own), `StartFails` for a pool that was shut down.

### Shutdown

| Action | Code |
|---|---|
| `Knock`, `Admitted`, `BackOut`, `Attach`, `Leave` | `gate::attach`: the count, the flag, backing out, Python's own attach, the way out |
| `Reload`, `Validate`, `Install`, `ReturnToCaller` | a reload by a watcher or by a daemon thread of the program, in and out of the engine |
| `CommitAlready`, `CommitClaim`, `CommitMismatch`, `Take`, `Write`, `RunHooks` | `commit`, in the reload hook (through the gate) or in `publish_current` (on the caller's thread, past the gate) |
| `Wedge` | a validator or a hook that never returns |
| `CloseGate`, `Detach`, `Drained`, `DeadlinePasses`, `Sweep` | `_interpreter_closing`: the flag, the wait without the GIL, its two ends, and back into Python |
| `StopWatch`, `Release`, `TearDown` | the sweep of `_release_everything`, and the interpreter's end |

Abstractions. The counter `IN_PYTHON` is compared with zero and nothing else, so
it is the set of the passes it counts; a thread has two at most, its visit and
the validation inside its commit. The trees of the reloads are distinct and the
schema accepts them: refusals and equal trees are `Publish`'s subject, and here
only whether the cache holds a model counts. `reachable` is chosen in `Init`:
the other watchers were detached. Handles registered while the sweep runs,
`replace()` by daemon threads, remote fetches and the log forwarder are left
out.

### AtomicReload and Group

`AtomicReload` is what `reload_atomic` promises, per caller: documents are
prepared, then installed, none before all members have one; a reload ends with
all of them installed or none, or an install broke; nothing stays prepared.

| Action of `Group` | Code |
|---|---|
| `Begin` | the entry of every method, with the argument checks that come first |
| `Take`, `TaskStarts`, `TaskFailsAtOnce`, `Release` | how `_each`, `_in_parallel` and `_each_async` start a member: in order, on a worker that looks at the stop event, in a task that looks before it takes the semaphore |
| `Loaded`, `Refused`, `TaskRefused`, `Record`, `FirstError`, `EachReturns` | the end of a member's load, the record of it, and what the call raises or reports |
| `PrepareNext`, `PrepareRefused`, `Discard`, `Commit`, `AtomicReturns` | `reload_atomic` |
| `StartWatch`, `WatchFails`, `KeepWatch`, `AllWatched`, `LeaveBlock` | `watch` and `watching` |
| `LookForWatch`, `PopWatch`, `PopRaises`, `HaltWatch` | `stop`, which pops with no lock |
| `Edit`, `WatcherReloads` | the world |

A member is the document in its source, the one it serves, and the commits held
for it, by caller. A load reads the source and installs it if the schema takes
it, in one step: what happens inside is `Publish`. Callers interleave at every
member.

### RemoteSlot

| Action | Code |
|---|---|
| `SwapBegins`, `SwapInstalls`, `SwapFails`, `ClearRemote`, `Release` | `remote()`, which writes `_async_remote` before the engine's source, and what empties them |
| `Refresh`, `RefreshMisused`, `RefreshAsync` | the two calls, and the one made on a running loop |
| `HandOver`, `GiveUp`, `Scheduled` | the awaited document put in the courier, and a call that is cancelled |
| `EnterFetch`, `NothingToFetch`, `StoreAnswers`, `StoreRaises`, `AnswerRefused`, `Kept` | the engine's fetch of `PySource` |
| `CourierReads`, then `CourierAnswers` or `CourierEmpty` | `fetch()` of the courier: the load of the awaited document, and the store of None with what the fetch then answers (`CourierCleared`) |
| `TakeFailure` | the exception taken from its slot and attached as `__cause__` |

A document is the call whose fetch answered it and the source it came from; an
exception is the call whose fetch raised it. No GIL is assumed anywhere: between
the courier's load and its store any step may come, another fetch's load or a
`hand_over` included. `overlapped` and `raced` are history: the refreshes beside
which something else happened, and those whose fetches were between load and
store of one courier at a time. A reload after the refresh is `Publish`'s.

### Stores

`Configs` are the arguments the eight constructors can be given, as far as they
matter: which parts of the credential there are, which of them are callables
is not distinguished (a plain string is a part that does not rotate), the kind of
authentication, the TLS material and the kind of URL. `Construct` takes or
refuses them. A fetch resolves the parts one at a time (`NextPart`, `Resolve`,
`ResolveFails`, `Resolved`) while `Rotate` replaces the credential outside, and
then, by store, finds a client (`WriteKeys`, `Acquire`, `Reuse`, `Rebuild`,
`Build`, `BuildFails`) or writes the slot (`WriteCredential`) and makes its
`Request`. `Secrets` are what each store's error path blanks, `Hidden` what the
facade's repr holds to be secret. The stores with a client compare its credential under a lock and build
the next one under it; git holds a lock from the write of its slot to the end of
its read; S3 writes its slot under no lock that covers the request.

### LogBridge

`Emit`, `Send`, `Drop` are the sink on an engine's thread: it reads where to
send, tries, and counts what did not fit. `Receive`, `Discard`, `Hangup`,
`Enter`, `Refused`,
`Proceed`, `Deliver`, `DeliveryFails` are one round of the forwarder: the line, `CLOSING`, the gate, the count swapped out
of `DROPPED`, the handlers. `Start`, `AlreadyInstalled`, `Open`, `Spawn`,
`SetSink`, `Stop`, `ClearSink`, `TakeSender`, `SetLevel` are the controllers, one
step per global they touch, and `ShutGate` is the exit. A forwarder that has ended
is "gone", one whose thread could not be spawned "unstarted"; the channel of either
is `Disconnected`. A channel is numbered by
the start that opened it, so those of earlier starts live on beside it; `mine` is
the channel a start has opened and not yet given to the sink. Beside the count
`DROPPED` and what each record carries of it, the module keeps the lines they
stand for (`owed`, `held`, then `told` or `unsaid`), which no action reads: a
property that compares numbers only would not see a line counted twice and
another not at all; and, as much for the properties only, the lines that were
`handled` and those a forwarder `discarded`, the one in its hand and those left in
its channel. With `HasGIL` a controller begins
its call, and a forwarder enters Python, only while no other controller is
inside one.

### Executors, Layers and Facade

`Executors`: `SetExecutor`, `ConfigureExecutor` (the pool is swapped under the
lock and the old one shut down after it, `Shutdown`), `Enter` and `Pin` (the two
locked halves of entering a block), `Leave`, `Exit`. A task's own
blocks nest; blocks of two tasks do not have to. `order` lists the open blocks as
they began, as long as none was left before a younger one; after that `crossed`
says that nothing is promised of them.

`Layers`: `ListSource` and `Ask` are the builder's life; `SetDefault`,
`SetAssignments`, `BindEnv` and their clears, `FilesChange`, `Reload`,
`WatcherReload` are what a model is resolved from, `Origin` the order of
precedence. `SetOverride`, `Layer`, `Mirror`, `PinRefused`, `Set`,
`ClearOverrides`, `Cleared` write a pin in two halves, the layer and then the
mirror of it; `Overrides`, `Pinned`, `Enter`, `Exit`, `EmptyLayer`,
`EmptyMirror`, `Restored`, `Leave` are the block. A watcher may
reload between any two of them. A value is where it came from; nested paths are
left out.

`Facade` is a program that uses one of `Layers`, `Executors` and `LogBridge`. The
three share no state: none of them reads a variable another writes, so a program
that uses several takes each of their steps exactly when that part alone would,
and whatever holds of each alone holds of all together. Their interleavings would
multiply the states of the run and add nothing to what a property of one part can
see.

### Trees, Schemas and Structure

Three modules of operators, no state. An annotation is `[is, of]`: a type or an
origin with its arguments. A document is a tree of tables, lists and scalars; a
number or a text is a name. `Trees` has the walks: `Values.get` and `sub`, the
leaves `explain` and the bindings enumerate, `Resolve` (which also steps into
lists, as msgspec's messages do), `Differing` (`changed_paths`), and `Without`
and `Touched`, the redaction the engine does with the paths it was given.
`Schemas` has what each adapter answers before there is a document: `SchemaFor`
(which adapter), `FieldNames`, `SecretPaths` with the recursion of each of the three
`secret_paths`, the leaves of a settings class, `Scrub`. `Structure` is
`_dataclasses.build`: the members of a union tried one after another, what each
type takes, an enum by Python's `==` (`Equal`). Beside it `Fits` and `HasType` say
what an annotation means to who writes one: None alone takes None, Any everything, an
enum its members' values with their types, a secret a string, a `Sequence` a list
whose elements fit.

`Scrub` takes the value out of msgspec's words as `_msgspec.py` does: the two known
shapes are replaced, and from any other what its path leads to is removed, unless it
is None or one character (`Removable`; `Short` are the values that are written with
one).

### Hooks

The list of hooks and the rounds that call them. `Write` is the write of `commit`,
which learns in the same step what it replaces; `Copy` is where `run_hooks` copies
the list under its lock, `Turn` the call of one hook of the copy, with the filter
of `on_change` (`Hears`), `EndRound` its end. `OnReload`, `OnChange` and `Close`
come between any two of them, and so do the installs and rounds of other threads.
A round calls its hooks in the order of registration, here in any. A hook records
the installs it was called about; `past` is the history of installs it is judged
by, kept only while there is a hook or a round. What a hook is still called with
after its guard was closed is not followed. How two models are compared is a
constant of which the module assumes (`ComparisonAssumption`) that two models of
which no path is listed at or below a path have the same there; `Declared` gives
it the comparison of `convert.rs` and `changed_paths`, of which TLC checks that.

### Decorator

`Attach` is `@dynamic_config` as far as classes are concerned: what it refuses,
the configuration it hangs on the class, and whether the class gets readers of
its own (`OwnReaders`) or has those of `Configured`. `First` is Python's attribute
lookup along the mro, `ReadBy` whose configuration `c.current()` then reads. The
mro is a constant: a class comes first in its own and has all of its bases' inside
(`MroAssumption`).

### Declared (and MCDeclared)

It extends `Hooks` and `Decorator`: its steps are theirs, with what a document, a
schema and a cache add. A configuration that the instance registers no hook on
is the exception: it installs models that the instance does not give to `Hooks`.

| Action | Code |
|---|---|
| `Declare` | `DynamicConfig.__init__`: the adapter, the secret paths, the warning about a settings class |
| `FromSettings` | `from_settings`: what is refused, the sources in their order, a variable per leaf |
| `Decorate` | `@dynamic_config`: `Attach`, and the load of `init=True` |
| `Load` | a document validated, then cached and installed with a round of its own (`Write`), or refused and quoted |
| `Replace` | `replace()`: `is_instance`, then the same |
| `RoundsNext`, `Listening` | the rounds and the registrations of `Hooks` |

Abstractions. Whether Pydantic or msgspec take a document is theirs, so both
answers are allowed; what they build is a model with the value each field's
spelling finds. `Messages` is external: what msgspec's messages quote is any
value of the document, and `Scrub` what the adapter leaves of it. The redacted cache and
`explain` are the engine's and use the paths they are given. `Divergent` are the
classes of section 6 for which a property is known not to hold, `Loose` the
dataclasses that take other documents than their annotations say;
`LeakingDoLeak` and `LooseAreLoose`, evaluated on every run, say that each of those
excepted does show a secret, or is built from a document that does not fit, or is not
from one that does. The places of a secret in a document (`SecretPlaces`) are read off the
document and the annotations together, not off the adapters' lists.

### Proof modules

`PublishProofs`, `NotifyProofs`, `HookGateProofs`, `ShutdownProofs`,
`GroupProofs`, `RemoteSlotProofs`, `StoresProofs` and `FacadeProofs` extend the
modules they are about; see section 5.

## 4. What is model-checked

| Run | Instance | Shows |
|---|---|---|
| `publish_gil` | two callers, one watcher, two valid trees and a refused one, three operations, GIL, engine not serial | nothing refused or uninstalled is served, each commit publishes its own model, in order, `load()` answers its own, generations are backed, installs that do not overlap are served, `PublishedLog` is implemented |
| `publish_locks` | two callers, same trees, serial engine, fairness | every operation returns: nobody waits for the engine with the GIL held |
| `notify` | a `changes()` and a `changed_async()` task of one program, an `events()` task of another, two installs, two refusals, release, fairness | no stranded future, no model older than its wake, installs and refusals noticed, streams end only by a release |
| `hook_gate` | four installs, two overlapping rounds, every dispatch and policy, calls that die | one call at a time, in order, superseded tasks cancelled, news delivered |
| `shutdown` | one watcher, held or detached, one daemon thread, three reloads, hooks that may wedge, GIL | nobody slips through the gate, a released configuration stays empty, the exit goes through |
| `group` | two members, two callers, one document and a broken one, one edit, two calls, fairness | a report is true, no watcher is out of reach, `AtomicReload` is implemented, every call returns |
| `remote_slot` | three refreshes, two sources of either kind, any build | failures and documents are somebody's own, and two refreshes share a document only if their fetches overlap; a refresh alone gets its own cause |
| `stores` | eight stores with every combination of arguments (285), three fetches, one rotation | a request carries what its fetch resolved, one client per credential, secrets are blanked |
| `log_bridge` | two emitters, two controllers, a channel of one, three lines, two channels, two calls, no GIL, fairness | a start in between any two steps of a stop: what is dropped is told, every line is accounted for, and a line the channel took is handled, unless something was stopped |
| `facade` | two paths, two values, blocks two deep, four calls; or two tasks, one pool handed in, three built, four calls; or the instance of `log_bridge` with three calls and a GIL | blocks leave no trace; a pool in use is live, pools end; never a sink whose forwarder has ended |
| `declared` | four kinds of class with a secret in twelve shapes of annotation, fourteen special shapes, twenty-one annotations of a dataclass against eighteen values, eight settings classes, a family of eight to decorate; one hook at a time, two installs it can be judged by beside the first and their rounds | secrets are covered, a refusal quotes no more than a character, dataclasses take what fits, hooks hear of moves, settings are honoured, readers answer for their own class |

One more run, `notify_release`, ends in a violation (section 6).

*Why the bounds are enough.* A race of publishing needs two validations that
overlap a third operation: two threads and three operations give every pair of
entry points in every order with a third before, between or after them, and the
third thread lets the watcher overlap both. Two valid trees are what a
comparison can tell apart; the refused one is the only other kind. Waiting needs
one install before a step and one after it, so two installs; a second refusal
separates noticed from reported. Tasks on one notifier share only its list and
thread, so two cover the interplay. The gate needs a call running, one
queued and one more to supersede it; the fourth install separates the order of
two queued calls from that of the third. Two rounds are enough to overtake one
another. At the exit a thread can be past its install while another is inside a
validation: one thread of each kind and a third reload to restage the slot under
either. A group of two has a first and a last member; two callers of one edit and
two calls are every pair of methods side by side, with a document that turns
good or bad between them. Three refreshes are one that overlaps two others that
do not overlap each other, and two sources are a swap. A fetch can only see the
credential before or after a rotation, and three fetches are one that built, one
that reuses and one in between. With one place in the channel the second of two
lines is dropped and a third tells of it; two channels are a restart, three
calls a stop and a start around another (two in the run under fairness, where a
third adds no step that could keep a line waiting). Four calls are two blocks of two tasks
with a pool configured inside, or a block within a block with a pin in each. Of `declared` the instance is the classes: one
value at every spelling of one field beside a neighbour is what a path can be
right or wrong about, a nested class and a class nested in that are every
recursion of the adapters once and twice, and one hook at a time is enough because
hooks do not read one another. Two installs after the one a hook found are two
rounds that overlap, of which the first may be copied last, and a second install
that undoes the first. Six classes have hooks, one for each way two models
differ or cannot be compared (`Watched`); the others load and replace without. The
proofs below do away with these bounds for the properties they
cover.

*Fairness.* `publish_locks`: an operation that began is scheduled and the GIL is
handed over, which the interpreter's switch interval does. `notify`: notifier threads are scheduled, loops run, and an install or a
release that began goes on; nobody is obliged to install, refuse, release or
cancel. `hook_gate`: rounds, pool threads and the loop are scheduled and hooks
end, which is the caller's contract; nothing is obliged to die. `shutdown`:
threads and the main thread are scheduled; the deadline of the wait is relied on
only when something inside Python is wedged. `group`: a call that was made is
scheduled, member loads end, and nobody has to call, to edit or to leave a
`watching()` block. `log_bridge`: forwarder threads are scheduled, handlers end
and a call of a controller that began goes on; nobody has to start, stop, or
emit. Weak fairness is enough: no step competes for a lock that others could take for ever, the
operations being bounded.

`CHECK_DEADLOCK FALSE` appears where the bound stops everything, or where
everything has returned: those are ends, not deadlocks. Deadlocks of single
threads are what `OperationsReturn`, `StreamsCatchUp`, `NewsIsDelivered`,
`ExitGoesThrough`, `CallsReturn` and `LinesAreHandled` look for.

Type correctness, `PublishedInOrder`, `NoLostWakeup` and `FlagIsTrue`
are not properties of a run: they are proved.

Every property has a mutant: a variant of one action with a plausible bug (a
comparison dropped, a flag not reset, a recheck forgotten, a queue popped at the
wrong end) under which the run must fail. The variants are kept beside their
originals, marked `Mutant`.

## 5. What is proved

All for arbitrary sets of threads, trees and tasks and arbitrary bounds. The
assumptions are those in the `ASSUME` of each module (distinct sentinels, typed
bounds), and `HasGIL` where a theorem says so.

*Publishing* (`PublishProofs`). `Base` is inductive in every build: types, which
call can be at which step, and the schema's verdict followed from the
validation through the slot and the engine to the readers. It gives `TypeCorrect`
and `RejectedNeverServesThm`, free-threaded included. `Backed` is inductive in
every build too: the log is longer than the generation by the number of threads
between their write and their announcement, a finite set of any size. From it
`GenerationIsBackedThm` needs no GIL either.

Under the GIL `GilInv` is inductive together with `Base`. `PublishedInOrder`
alone is not: nothing in it says what a thread about to write is holding. The
strengthening follows one validation: while a thread is between stamp and slot
its number is the newest; what it takes from the slot is what it put there and
has not been claimed; what it is about to write is the claimed number and newer
than everything in the log. `OneHolder` (one thread in attached code) makes this
hold across the other threads' steps, and with `Backed` it gives `Counted`: the
generation is one behind the log exactly while somebody announces. From it:
`RightModelThm`, `PublishedInOrderThm`, `OnlyInstalledThm`,
`LoadAnswersItsOwnThm` and `Refinement`: a `Stamp` is a `Validate`, a
`WriteCache` a `Show`, an `Announce` an `Announce`, all else stutters.

`LoneInstallsServeThm` rests on a third, `LoneInv`: while installs do not overlap,
the one on its way has a course, from what was served before it to what it
leaves, and no `load()` or `prepare()` beside it touches more than the slot; and
between writes a staged model with the newest claim is the one in the cache, so
that a commit which finds its claim taken leaves readers with its own tree.

*Waiting* (`NotifyProofs`). `NotifyInv`, with or without a GIL: the lock is held
exactly between predicate and sleep, so no counter moves there
(`NoLostWakeupThm`); what a thread carries to the futures is newer than what it
had seen, so before a release it never resolves with "released" and never ends
with somebody in its list (`WaitersAreServedThm`); the cache is at least as new
as the generation (`WakeIsCurrentThm`). `NewsInv` adds what a task may find in
its future before a release: no release, and nothing newer than it has noted
without a model; and that no thread has seen, or carries, what is yet to come.
From it a stream of a loaded configuration ends by a release alone
(`EndsOnlyByReleaseThm`).

*Backpressure* (`HookGateProofs`). `GateInv`: the calls in the queues are there
once and in the right stage, an active call means a raised flag, a raised flag
an active or dead call, and under `cancel_previous` the last task is the only
one not cancelled. It gives `OneAtATimeThm` (whatever dies), `FlagIsTrueThm` and
`SupersededThm`. The order of the calls under `latest` and `serial`
(`StartedInOrderThm`) needs more, because
the property says nothing of calls yet to begin: `OrderInv` says that those
begun, the one about to begin and those queued stand in the order in which the
gate saw them.

*Shutdown* (`ShutdownProofs`). `GateInv`, with or without a GIL: every pass a
thread has not left is counted, and the flag is up from the moment the exit
begins. A thread that finds the flag down was therefore counted before the exit
could see the counter at zero, which gives `NoneSlipsThroughThm`. That a
released configuration stays empty (`ReleasedStaysEmptyThm`) needs the GIL,
because `publish_current` passes no gate: `Empty` adds that after the release
nothing is staged and no thread holds a model it has yet to write; what is left
to a late `publish_current` is a validation, and the gate refuses it.

*Groups* (`GroupProofs`). `LedgerInv` is the account of a `reload_atomic`: the
members it holds commits for are those between its two indices and no others,
what it has installed lies before them, and while it prepares it has installed
nothing. From it `Refinement`: `Group` implements `AtomicReload`, so that a
reload under way beside another, beside watchers and beside any other method
installs all or none and leaves nothing prepared. `ReachInv` counts the watchers:
those running of a member are as many as its places in the list and the hands
that hold it, and a call holds one only while it starts or stops it, so that no
overlap of `watch`, `watching` and `stop` loses one (`WatchersReachableThm`).
`ReportInv` gives every member one place in a load, queued, at work or settled,
until the load gives up; what a call reports then follows from the places being
apart and, when it returns without an error, all settled (`ReportsAreTrueThm`).

*Remote slot* (`RemoteSlotProofs`). A slot written by everybody says nothing of
its reader; what can be proved is that whatever is in it was somebody's failure
(`FailuresAreOwnedThm`) and that a document stays with the source that answered
it, whichever way it came (`DocumentsAreTheStoresThm`): `Carrying` follows it
from the courier of a source, through the answer of a fetch, to what the engine
keeps. That it gets there once cannot be proved, because it is not so (section 6):
what the theorem says of two refreshes with one document is that both were inside
`fetch()` of its courier at a time, and `Carrying` keeps for it that a document which
is in the courier and in an answer as well is one whose fetch has yet to clear it. Of a refresh that nothing overlapped more is true (`AloneGetsItsOwnThm`):
`Undisturbed` says what it may rely on at each step, that no other is under way,
that the bridge belongs to the object, and that courier and slot hold nothing
but its own.

*Stores* (`StoresProofs`). `StoresInv`: one fetch holds the lock, and while it
does the client in the cache, or the credential in the slot, is the one it
compared or wrote; what a store without a lock sends is its own as long as no
fetch ran beside it. `UsesItsOwnThm` and `OneClientThm` follow.
`SecretsAreScrubbedThm` rests on the constructors: those whose error path blanks
only one half of a pair refuse a half of one.

*Layers* (`FacadeProofs`). `LayersInv`: outside the two halves of a write the
mirror is the layer, and inside them it differs at the path in hand only; so
what a block saved from the mirror is what the layer held, which gives
`BlocksLeaveNoTraceThm`.

*Executors* (`FacadeProofs`). `PoolInv` has five parts. `Owning`: what is owned, kept
by a block or waiting to be shut down was built here, so no pool of a caller ever
is. `Stack`: until two blocks cross, `order` holds each open block once, a task's
own by depth, so the youngest is the last of its task too. `InUse`: what is in
force, and what each open block will put back, is live and about to be shut down
by nobody. That alone is not inductive, since leaving a block shuts its pool down:
`Apart` says that a pool a block built, or one that is owned, is not among those
an older block puts back. `Accounts`: every live pool built here is owned, on its
way to be shut down, adopted, or kept as an open block's owner, passed from the
block above to the one below. They give `PoolIsLiveThm` and, with the account of a
program that has left every block, `PoolsEndThm`.

*The log bridge* (`FacadeProofs`). `LinesInv`, with or without a GIL. A count equals
the number of its lines only if a drop adds a line that is in no count yet, so
`Fresh` says that of every line an emitter still holds, and that no two hold one.
`Tallied` is the account: `DROPPED` and what each record carries are the numbers of
their lines, no line is in two counts, and a forwarder outside a delivery holds none,
so that the swap of a second forwarder cannot overwrite the first one's. `Opening`
and `Holding` say which channel a start may hand a forwarder to and when a forwarder
holds a line, and `Untouched` that no line reaches a channel before its forwarder was
started, so that a thread that does not start takes no line with it. `Located`: every
line is with an emitter, in a channel somebody reads, handled, counted, or was
discarded by a forwarder, before a stop as after any number of them. That none is
discarded until something is stopped needs `Serving`: until then the bridge is the one
the module installed, and no start opens another. They give `SilenceIsToldThm`: a stop
loses what the forwarders took and gave up or left unread, and nothing else. `VoiceInv`, under a
GIL, follows a call of `configure_logging` through its steps: a stop raises the flag
before it clears the sink and the slot, a start lowers it first, and at each step the
flag, the slot and the sink are what the step before left (`InForce`), because one
call runs at a time. `Voiced` adds the forwarder: while the slot, the sink or a
start holds the sender of a channel its forwarder cannot hang up, and none gives up
while the flag is down, so the one behind the sink has not ended. Hence `NeverMuteThm`.
Without a GIL it is false, and of a forwarder that could not be spawned it says
nothing (section 6).

`ProgramSteps` carries all of these to `Facade`: a step of the program is a step or
a stutter of each part.

*Hooks* (`HookGateProofs`, about `HooksSpec`). That a hook has seen what is there
now is no invariant when rounds overlap: it may have heard of the newer install
first, or a round still owes it one. `HooksHearMoves` speaks of gaps instead: of
any two installs since the hook was registered between which it heard nothing and
is owed nothing, the later left at its paths what the earlier had. `ListInv`
(tokens tell hooks apart, one round for an install, both refer to installs that
happened) makes it inductive: a write owes its news to all, the copy keeps that
for those registered, and a turn that passes a hook by joins the gaps on its two
sides by a step that moved nothing of its. `HooksHearMovesThm` needs of the
comparison `ComparisonAssumption` only, and no bound on hooks, installs or rounds;
because the property is about every pair of installs, joining two gaps takes no
induction over their lengths.

*The decorator* (`FacadeProofs`, about `Decorating`). `ReadersInv`: the plain
classes decorated are exactly those with readers of their own. Attribute lookup
finds the least place of a set along the mro (`FirstIsFound`, by the
well-foundedness of `<`), and in a smaller set the same one if it is there
(`FirstOfLess`). From these `ReadersThm`, for any family and any order of decoration;
its exception, `Eclipsed`, is a defect of the code (section 6), and
`EclipsedReadAnotherThm` shows that it is no wider than the defect. A class that is
decorated itself reads its own configuration, always when it does not inherit
`Configured` (`DecoratedReadItselfThm`).

Only model-checked: liveness (`OperationsReturn`, `StreamsCatchUp`,
`NewsIsDelivered`, `ExitGoesThrough`, `CallsReturn`, `LinesAreHandled`), since the
prover reasons about neither fairness nor `ENABLED`; and `SecretsAreCovered`,
`ModelsFitTheirClass` and `SourcesAreHonoured` of `Declared`, since they rest on
`Trees`, `Schemas` and `Structure`, which recurse over annotations and documents, and
on what joining strings keeps apart: both are outside the prover's reach. So is that
`convert.rs` and `changed_paths` meet `ComparisonAssumption`; TLC evaluates it on
every two models of the run that may have hooks.

## 6. Where code and documents disagree

`notify_release` is a run. The eight below it are reproduced by
`tlc -config <name>.cfg <module>` with the file named there; each checks one
property, which TLC finds violated.

- `notify_release`: `release()` stores its flag without the lock, and a thread
  between its predicate and its sleep never ends (`mod.rs:1337`; against
  `mod.rs:1334`).
- `PublishTwice.cfg`: one install may publish twice, run its hooks twice and move
  the generation twice, when a `load()` of the same tree runs between its two
  commits (`inner.rs:229`; against `inner.rs:207-211`).
- `PublishStale.cfg`: `publish_current` may publish the tree it read over the one
  installed and published meanwhile, and readers stay behind the engine until
  the next reload (`mod.rs:1373`; against `mod.rs:1370`).
- `PublishWrong.cfg`: without a GIL the re-validation arm of `commit` takes
  whatever is staged, so another call's candidate may be published
  (`inner.rs:249`; against `free-threading.md:90-93`, `internals.md:71-73`).
- `NotifyLatest.cfg`: a stream that looks between the announcement and the first
  hook pairs the new generation with the old model, and then waits on
  (`_config.py:1221`; against `_config.py:1217-1218`).
- `HookGateSerial.cfg`: a call that dies, or cannot be started, leaves the gate's
  flag up, and what is queued never runs (`_config.py:1781`; against
  `_dispatch.py:71`).

- `RemoteTwice.cfg`: without a GIL two refreshes may load one awaited document before
  either clears it (`_remote.py:195`; against `175`, "once", and
  `free-threading.md:3`).
- `LogBridgeFree.cfg`: without a GIL a start beside a stop can leave a sink whose
  forwarder has ended (`logbridge.rs:97`; against `15-17`).
- `LogBridgeUnstarted.cfg`: when the forwarder's thread cannot be spawned the sink is
  set all the same, and until the next stop every line is dropped and none is told of
  (`logbridge.rs:55`; against `15-17`).

None of them needs an engine that lets reloads overlap: the three of `Publish`
have a serial engine. `PublishWrong.cfg`, `RemoteTwice.cfg` and `LogBridgeFree.cfg` are
about a free-threaded build, which the package supports.

Visible as an action, or as the exception a property makes:

- A stop discards what is queued and does not count it (`logbridge.rs:155`;
  against `74-76`): `Discard`.
- `configure_executor()` inside an `executor()` block leaks its pool
  (`_executor.py:83`): the `replaced` of `PoolsEnd`.
- `overrides()` pins before its `try`, so a refused value leaves the ones before
  it pinned (`_config.py:1439`): `PinRefused`.
- `init_async` starts members that wait for the semaphore after one has failed
  (`_group.py:382`): `TaskStarts`, `Release`.
- A `watch()` that fails leaves the watchers it has started, and `watching()` does
  not stop them (`_group.py:224`): `WatchFails`.
- Two `stop()` at once may raise `IndexError` (`_group.py:210`; "Idempotent"):
  `PopRaises`.
- Overlapping refreshes share one failure slot, so one is raised with the other's
  cause and the other with none (`remote.rs:135`): `AloneGetsItsOwn` speaks only
  of refreshes nothing overlapped.
- A field whose secrets are listed where no document has them, so that they are
  shown: a list of dataclasses (`_dataclasses.py:361`; against `_msgspec.py:236`,
  which says of hiding the field whole that the dataclass adapter does it), a
  model met again (`_pydantic.py:130`), `Sequence`, `Mapping` and `deque`
  (`_pydantic.py:212`), a dataclass nested in a `Struct` or in a model
  (`_msgspec.py:218`), and a top-level `RootModel` (`_pydantic.py:362`). The classes
  of `Leaking` in `MCDeclared`.
- A `Values`, or a model with a set in it, cannot be compared, so a filtered hook
  on it never runs after the first install (`_config.py:1116`; against
  `_values.py:8-10`): `Comparable`.
- A decorated class that inherits `Configured` after a decorated class that does not
  reads the configuration of that class: `class Mixed(Base, Configured)` gets no
  readers of its own, and those bound to `Base` are found first
  (`_decorator.py:273`; against `269-272`): `Eclipsed`, class "mixed".
- A `Struct` with `rename=` and a field `reload` is shadowed
  (`_decorator.py:122`).
- An inherited `settings_customise_sources` is neither warned of nor refused
  (`_settings.py:69`; against `_config.py:311`): class "inherits customised".
- Two leaves of a settings class may be bound to one variable
  (`_config.py:368`; against `285-286`): `Separable`.
- A dataclass takes other documents than its annotations say (`_dataclasses.py`,
  against `14` and `23-24`). An enum is looked up by `==`, so True and 1.0 pass for a
  member valued 1 (`180`; against `190-191` and `294-296`, which refuse that for an int
  and a literal); None alone takes any value (`140`), Any refuses None (`132`); a
  secret type wraps any value, a table included (`208`); abstract containers are not
  looked into (`304`). The classes of `AllLoose` in `MCDeclared`, and the only
  ones `ModelsFitTheirClass` excepts.
- None, and a value written with one character, stay in a message of a shape `scrub()`
  does not know (`_msgspec.py:187-190`; against `167-169`, "cannot leak through
  this"): `Removable`.
- A list of models gives a settings class variables for fields of the elements
  (`_pydantic.py:303`): `ModelLeaves`.
- `checked()` of the remote package refuses `ini` and `properties`, which
  `format.rs` takes (`_format.py:9`).

Seen while modelling, and contradicting nothing that is written down:

- A waiter that registers after a release has resolved the list, and before the
  thread has ended, is never resolved.
- `changes()` on a configuration that has not loaded ends as if it had been
  released.
- A model dropped under the staged, cache or hooks lock (`inner.rs:178`,
  `mod.rs:1291`) may run a Python finalizer, in which the GIL changes hands; a
  thread that wants the same lock then waits for it with the GIL held, the
  deadlock `internals.md:96-97` describes for the engine's lock.
- The count of dropped lines is swapped out before the record that carries it is
  made (`logbridge.rs:126`), and lost if that fails.
- The sources are frozen by the first `status()` or `check()` as well as by a
  load (`Ask`).
- A credential of two callables that rotates between the two calls is a pair that
  never existed (`Resolve` between two `Rotate`); a client is built with it.
- Two S3 fetches write one slot, so a request may be signed with what the other
  resolved: the `overlapped` of `UsesItsOwn`.
- Two `reload_atomic` side by side may leave one member with the document of one
  and another with that of the other, and a commit may put back a document older
  than the one a watcher has installed meanwhile.
- `remote()` writes `_async_remote` before the engine takes the source
  (`SwapBegins`, `SwapFails`); a refresh in between awaits one source and fetches
  from the other.
- A class keeps its configuration when the load of `init=True` fails, and cannot
  be decorated again (`_decorator.py:264`): `Decorate`.
- `_wrap_hook` accepts any backpressure for an inline hook and ignores it.

## 7. What is not modelled

- *The verdict of Pydantic and msgspec* on a document is theirs; `Declared` allows
  both answers. 
- *Errors, redaction, formats, TLS files, diagnostics and telemetry* are sequential
  functions of their arguments, or views of somebody else's state. What scrubbing
  must cover is in `Stores` and, for msgspec, in `Declared`; how a message is put
  together is not. `to_py` is a map from one kind of tree to another: each number and each
  text is one value here, so what a float that does not fit becomes is not seen.
- *Which variable a leaf should have.* `SourcesAreHonoured` says that no option is
  dropped in silence and that two leaves do not share a variable. That a prefix, a
  case or an alias yields the very name pydantic-settings would read is not stated.
- *What runs beside the teardown once the deadline has passed* with a thread inside
  Python. `NoneSlipsThrough` and `ReleasedStaysEmpty` except it, as `gate.rs` does.
- *That a prepared commit is used once.* The map's `remove()` under its lock sees to it
  (`mod.rs:602`), and no property would notice a second use.
- *What a closed hook is still called with.* A hook removed during a round still
  runs in that round, because a round copies the list before it calls; `Hooks`
  follows a hook until its guard is closed.
- *The engine crate and the stores' client libraries* are not in this repository;
  file watching, parsing and network I/O are behind them. The models take from
  the engine what the binding relies on: it resolves, validates through the hook,
  installs, calls the reload hook and keeps the commits prepared for it.
- *Stubs, type declarations, examples and build scripts* have no behaviour.

What is left of the implementation is declarations with their documentation,
fluent calls that hand one argument to the engine, and renderings.
