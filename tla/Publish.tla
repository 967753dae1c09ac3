------------------------------ MODULE Publish ------------------------------
(***************************************************************************)
(* How a validated model reaches the readers of one configuration.         *)
(*                                                                         *)
(* Source: dynamic-config-python/src/config/inner.rs (the staged slot, the *)
(* sequence numbers, `commit`, the hook round), the operations of          *)
(* src/config/mod.rs that end in it (init, reload, load, prepare, commit,  *)
(* discard, replace, publish_current) and the hook of _config.py that      *)
(* copies each model onto the Python object.                               *)
(*                                                                         *)
(* The engine crate is external: it resolves a tree, runs the validate     *)
(* hook, installs, and calls the reload hook on the installing thread for  *)
(* every install but the first.  Whether one lock of the engine covers all *)
(* of that is not visible from the binding, so SerialEngine is a constant. *)
(*                                                                         *)
(* A model is the validation that produced it: the sequence number stamped *)
(* on it and the tree it was built from.                                   *)
(***************************************************************************)
EXTENDS Integers, Sequences

CONSTANTS Callers,       \* threads that call into the configuration
          Watchers,      \* the engine's watcher threads
          Trees,         \* what the sources can resolve to
          Valid,         \* the trees the schema accepts
          Ops,           \* the operations the callers may use
          HasGIL,        \* TRUE: attached Rust code excludes other threads
          SerialEngine,  \* TRUE: one reload at a time, hooks included
          MaxOps,        \* bound on the operations started
          None,          \* no tree, no model, no thread
          Handmade       \* the tree of a model given to replace()

AllOps == {"reload", "load", "prepare", "commit", "replace"}

Threads == Callers \cup Watchers

ASSUME ConstantsAssumption ==
    /\ Valid \subseteq Trees
    /\ Ops \subseteq AllOps
    /\ HasGIL \in BOOLEAN
    /\ SerialEngine \in BOOLEAN
    /\ MaxOps \in Nat
    /\ None \notin Trees /\ Handmade \notin Trees /\ None # Handmade
    /\ None \notin Threads
    /\ Callers \cap Watchers = {}
    /\ None \notin [seq : Nat, tree : Trees \cup {Handmade}]

VARIABLES
    source,          \* the tree the sources resolve to right now
    installed,       \* the engine's installed tree
    busy,            \* the thread reloading, under SerialEngine
    staged,          \* Shared.staged
    next_sequence,   \* Shared.next_sequence
    last_committed,  \* Inner.last_committed
    cache,           \* Inner.cache, what Config.current() reads
    generation,      \* Wake.generation
    cached,          \* DynamicConfig._cached, what a Python reader sees
    prepared,        \* the token each caller holds, as the tree behind it
    pc, op, path,    \* where each thread is, and in which call
    tree,            \* the tree each thread's call is about
    model,           \* the model each thread holds
    started,         \* operations started so far (the bound)
    \* History, read by no action.
    log,             \* every model the cache has held, in order
    installs,        \* how many installs: engine installs and replace()s
    everInstalled,   \* every tree the engine has installed
    overlapped       \* two installing operations have overlapped

engineVars == <<source, installed, busy>>
slotVars   == <<staged, next_sequence, last_committed>>
outVars    == <<cache, generation, cached>>
localVars  == <<pc, op, path, tree, model>>
history    == <<log, installs, everInstalled, overlapped>>
vars == <<engineVars, slotVars, outVars, prepared, localVars, started, history>>

Models == [seq : Nat, tree : Trees \cup {Handmade}]

Steps == {"idle", "enter", "validate", "fill", "install", "commit", "take", "raise",
          "write", "announce", "hooks", "read", "compare", "answer"}

\* Whose call of validate or commit is running: the engine's loader, the
\* engine's reload hook, publish_current, load's second pass, or replace.
Paths == {"engine", "hook", "publish", "load", "replace"}

TypeOK ==
    /\ source \in Trees
    /\ installed \in Trees \cup {None}
    /\ busy \in Threads \cup {None}
    /\ staged \in Models \cup {None}
    /\ next_sequence \in Nat
    /\ last_committed \in Nat
    /\ cache \in Models \cup {None}
    /\ generation \in Nat
    /\ cached \in Models \cup {None}
    /\ prepared \in [Callers -> Trees \cup {None}]
    /\ pc \in [Threads -> Steps]
    /\ op \in [Threads -> AllOps \cup {"watch"}]
    /\ path \in [Threads -> Paths]
    /\ tree \in [Threads -> Trees \cup {None}]
    /\ model \in [Threads -> Models \cup {None}]
    /\ started \in Nat
    /\ log \in Seq(Models)
    /\ installs \in Nat
    /\ everInstalled \subseteq Trees
    /\ overlapped \in BOOLEAN

Init ==
    /\ source \in Valid
    /\ installed = None
    /\ busy = None
    /\ staged = None
    /\ next_sequence = 0
    /\ last_committed = 0
    /\ cache = None
    /\ generation = 0
    /\ cached = None
    /\ prepared = [t \in Callers |-> None]
    /\ pc = [t \in Threads |-> "idle"]
    /\ op = [t \in Threads |-> IF t \in Callers THEN "reload" ELSE "watch"]
    /\ path = [t \in Threads |-> "engine"]
    /\ tree = [t \in Threads |-> None]
    /\ model = [t \in Threads |-> None]
    /\ started = 0
    /\ log = <<>>
    /\ installs = 0
    /\ everInstalled = {}
    /\ overlapped = FALSE

-----------------------------------------------------------------------------
(* The interpreter lock.  A thread in the middle of a stretch of attached   *)
(* Rust code, with no call into Python in between, keeps the GIL: under a   *)
(* GIL nobody else attached can take a step.  A validator and a hook are    *)
(* Python, so another thread may run before, during and after them; code    *)
(* detached from the interpreter (resolve, install) never waits for it.     *)

\* Mutant: reload() waits for the engine without letting the GIL go.
HoldingOnEntry(t) ==
    \/ pc[t] \in {"enter", "fill", "take", "raise", "write", "announce", "answer"}
    \/ pc[t] = "commit" /\ path[t] = "publish"

Holding(t) ==
    \/ pc[t] \in {"fill", "take", "raise", "write", "announce", "answer"}
    \/ pc[t] = "commit" /\ path[t] = "publish"

Attached(t) == HasGIL => \A u \in Threads \ {t} : ~Holding(u)

\* The engine's own lock over one reload, where it has one.
LeaveEngine(t) == busy' = IF busy = t THEN None ELSE busy

Goto(t, step) == pc' = [pc EXCEPT ![t] = step]

\* The operations that end in commit or replace, and whether one is running.
Installing == {"reload", "watch", "commit", "replace"}
Overlap(t) ==
    overlapped' = (overlapped \/ \E u \in Threads \ {t} :
                                    pc[u] # "idle" /\ op[u] \in Installing)

Start(t, o, p, step) ==
    /\ pc[t] = "idle"
    /\ started < MaxOps
    /\ started' = started + 1
    /\ op' = [op EXCEPT ![t] = o]
    /\ path' = [path EXCEPT ![t] = p]
    /\ Goto(t, step)

-----------------------------------------------------------------------------
(* Operations.                                                              *)

\* A file is saved, a variable changes: the sources now resolve differently.
EditSource ==
    /\ source' \in Trees \ {source}
    /\ UNCHANGED <<installed, busy, slotVars, outVars, prepared, localVars,
                   started, history>>

\* init() and reload(), which go detached into the engine.
Reload(t) ==
    /\ "reload" \in Ops
    /\ Start(t, "reload", "engine", "enter")
    /\ Overlap(t)
    /\ UNCHANGED <<engineVars, slotVars, outVars, prepared, tree, model, log, installs,
                   everInstalled>>

\* The watcher saw a change.  It runs on a configuration that has loaded.
Watch(t) ==
    /\ installed # None
    /\ Start(t, "watch", "engine", "enter")
    /\ Overlap(t)
    /\ UNCHANGED <<engineVars, slotVars, outVars, prepared, tree, model, log, installs,
                   everInstalled>>

\* load() and prepare(): resolve and validate, install nothing.
Load(t, o) ==
    /\ o \in Ops \cap {"load", "prepare"}
    /\ Start(t, o, "engine", "validate")
    /\ tree' = [tree EXCEPT ![t] = source]
    /\ UNCHANGED <<engineVars, slotVars, outVars, prepared, model, history>>

\* commit(token): the token is spent, and the engine installs what prepare
\* validated.
CommitPrepared(t) ==
    /\ "commit" \in Ops
    /\ prepared[t] # None
    /\ Start(t, "commit", "engine", "enter")
    /\ Overlap(t)
    /\ tree' = [tree EXCEPT ![t] = prepared[t]]
    /\ prepared' = [prepared EXCEPT ![t] = None]
    /\ UNCHANGED <<engineVars, slotVars, outVars, model, log, installs, everInstalled>>

\* discard(token).
Discard(t) ==
    /\ pc[t] = "idle"
    /\ prepared[t] # None
    /\ prepared' = [prepared EXCEPT ![t] = None]
    /\ UNCHANGED <<engineVars, slotVars, outVars, localVars, started, history>>

\* replace(model): straight to the cache write.
Replace(t) ==
    /\ "replace" \in Ops
    /\ Attached(t)
    /\ Start(t, "replace", "replace", "write")
    /\ model' = [model EXCEPT ![t] = [seq |-> 0, tree |-> Handmade]]
    /\ Overlap(t)
    /\ installs' = installs + 1
    /\ UNCHANGED <<engineVars, slotVars, outVars, prepared, tree, log, everInstalled>>

\* Back from the call: a hook returns into the engine, and a caller's reload
\* then goes on to publish_current, whatever became of its hook.
Finish(t) ==
    /\ LeaveEngine(t)
    /\ Goto(t, IF path[t] = "hook" /\ op[t] # "watch" THEN "read" ELSE "idle")

\* Detached, the thread gets its turn in the engine, which resolves the
\* sources; a prepared commit was resolved when it was prepared.
Enter(t) ==
    /\ pc[t] = "enter"
    /\ SerialEngine => busy = None
    /\ busy' = IF SerialEngine THEN t ELSE busy
    /\ tree' = IF op[t] = "commit" THEN tree ELSE [tree EXCEPT ![t] = source]
    /\ Goto(t, IF op[t] = "commit" THEN "install" ELSE "validate")
    /\ UNCHANGED <<source, installed, slotVars, outVars, prepared, op, path, model,
                   started, history>>

-----------------------------------------------------------------------------
(* validate: the schema's verdict, then a sequence number, then the slot.   *)

\* Mutant: the validator's refusal does not stop the install.
RefuseInstalling(t) ==
    /\ pc[t] = "validate"
    /\ Attached(t)
    /\ tree[t] \notin Valid
    /\ Goto(t, "install")
    /\ UNCHANGED <<engineVars, slotVars, outVars, prepared, op, path, tree, model,
                   started, history>>

\* The validator raised: nothing is staged and nothing installs.
Refuse(t) ==
    /\ pc[t] = "validate"
    /\ Attached(t)
    /\ tree[t] \notin Valid
    /\ Finish(t)
    /\ UNCHANGED <<source, installed, slotVars, outVars, prepared, op, path, tree,
                   model, started, history>>

\* The validator returned an instance: next_sequence.fetch_add.
Stamp(t) ==
    /\ pc[t] = "validate"
    /\ Attached(t)
    /\ tree[t] \in Valid
    /\ next_sequence' = next_sequence + 1
    /\ model' = [model EXCEPT ![t] = [seq |-> next_sequence + 1, tree |-> tree[t]]]
    /\ Goto(t, "fill")
    /\ UNCHANGED <<engineVars, staged, last_committed, outVars, prepared, op, path,
                   tree, started, history>>

\* Where the caller of validate goes on.  The second validation of load and of
\* commit is followed by a take, never by another comparison.
AfterFill(t) ==
    CASE path[t] = "load"                             -> "answer"
      [] path[t] \in {"hook", "publish"}               -> "take"
      [] path[t] = "engine" /\ op[t] = "load"          -> "compare"
      [] path[t] = "engine" /\ op[t] = "prepare"       -> "idle"
      [] path[t] = "engine" /\ op[t] \in {"reload", "watch"} -> "install"

\* The slot is overwritten, last writer wins, and validate returns.
Fill(t) ==
    /\ pc[t] = "fill"
    /\ Attached(t)
    /\ staged' = model[t]
    /\ Goto(t, AfterFill(t))
    /\ prepared' = IF AfterFill(t) = "idle" THEN [prepared EXCEPT ![t] = tree[t]]
                                            ELSE prepared
    /\ UNCHANGED <<engineVars, next_sequence, last_committed, outVars, op, path, tree,
                   model, started, history>>

\* The engine installs, detached.  It has no hook for the first install, which
\* is left to publish_current.
InstallFirst(t) ==
    /\ pc[t] = "install"
    /\ installed = None
    /\ installed' = tree[t]
    /\ installs' = installs + 1
    /\ everInstalled' = everInstalled \cup {tree[t]}
    /\ LeaveEngine(t)
    /\ Goto(t, "read")
    /\ UNCHANGED <<source, slotVars, outVars, prepared, op, path, tree, model, started,
                   log, overlapped>>

\* For every later install it calls the reload hook on this thread.
InstallNext(t) ==
    /\ pc[t] = "install"
    /\ installed # None
    /\ installed' = tree[t]
    /\ installs' = installs + 1
    /\ everInstalled' = everInstalled \cup {tree[t]}
    /\ path' = [path EXCEPT ![t] = "hook"]
    /\ Goto(t, "commit")
    /\ UNCHANGED <<source, busy, slotVars, outVars, prepared, op, tree, model, started,
                   log, overlapped>>

\* Mutant: publish_current resolves the sources afresh.
ReadSource(t) ==
    /\ pc[t] = "read"
    /\ Attached(t)
    /\ tree' = [tree EXCEPT ![t] = source]
    /\ path' = [path EXCEPT ![t] = "publish"]
    /\ Goto(t, "commit")
    /\ UNCHANGED <<engineVars, slotVars, outVars, prepared, op, model, started, history>>

\* publish_current: whatever the engine has installed by now.
ReadInstalled(t) ==
    /\ pc[t] = "read"
    /\ Attached(t)
    /\ tree' = [tree EXCEPT ![t] = installed]
    /\ path' = [path EXCEPT ![t] = "publish"]
    /\ Goto(t, "commit")
    /\ UNCHANGED <<engineVars, slotVars, outVars, prepared, op, model, started, history>>

-----------------------------------------------------------------------------
(* commit(tree).                                                            *)

\* Mutant: whatever is staged will do.
StagedAtAll(t) == staged # None

\* The slot holds the model of this call's tree (`candidate == tree`).
StagedFor(t) == staged # None /\ staged.tree = tree[t]

\* The slot holds this tree and its sequence was claimed already.
CommitAlready(t) ==
    /\ pc[t] = "commit"
    /\ Attached(t)
    /\ StagedFor(t)
    /\ last_committed >= staged.seq
    /\ Finish(t)
    /\ UNCHANGED <<source, installed, slotVars, outVars, prepared, op, path, tree,
                   model, started, history>>

\* Mutant: the claim is taken without comparing the trees.
ClaimUncompared(t) ==
    /\ pc[t] = "commit"
    /\ Attached(t)
    /\ staged # None
    /\ last_committed < staged.seq
    /\ last_committed' = staged.seq
    /\ model' = [model EXCEPT ![t] = staged]
    /\ Goto(t, "write")
    /\ UNCHANGED <<engineVars, staged, next_sequence, outVars, prepared, op, path, tree,
                   started, history>>

\* Mutant: the answer of fetch_max is ignored here too.
ClaimTwice(t) ==
    /\ pc[t] = "commit"
    /\ Attached(t)
    /\ StagedFor(t)
    /\ last_committed' = staged.seq
    /\ model' = [model EXCEPT ![t] = staged]
    /\ Goto(t, "write")
    /\ UNCHANGED <<engineVars, staged, next_sequence, outVars, prepared, op, path, tree,
                   started, history>>

\* The slot holds this tree: fetch_max claims its sequence.
CommitClaim(t) ==
    /\ pc[t] = "commit"
    /\ Attached(t)
    /\ StagedFor(t)
    /\ last_committed < staged.seq
    /\ last_committed' = staged.seq
    /\ model' = [model EXCEPT ![t] = staged]
    /\ Goto(t, "write")
    /\ UNCHANGED <<engineVars, staged, next_sequence, outVars, prepared, op, path, tree,
                   started, history>>

\* The slot holds something else: validate this tree once more.
CommitMismatch(t) ==
    /\ pc[t] = "commit"
    /\ Attached(t)
    /\ ~StagedFor(t)
    /\ Goto(t, "validate")
    /\ UNCHANGED <<engineVars, slotVars, outVars, prepared, op, path, tree, model,
                   started, history>>

\* ... and take whatever is staged by now, which nothing compares again.
Take(t) ==
    /\ pc[t] = "take"
    /\ Attached(t)
    /\ model' = [model EXCEPT ![t] = staged]
    /\ Goto(t, "raise")
    /\ UNCHANGED <<engineVars, slotVars, outVars, prepared, op, path, tree, started,
                   history>>

\* last_committed.fetch_max, whose answer the re-validation arm ignores.
Raise(t) ==
    /\ pc[t] = "raise"
    /\ Attached(t)
    /\ last_committed' = IF last_committed < model[t].seq THEN model[t].seq
                                                          ELSE last_committed
    /\ Goto(t, "write")
    /\ UNCHANGED <<engineVars, staged, next_sequence, outVars, prepared, op, path, tree,
                   model, started, history>>

\* Mutant: the generation moves with the write, and again at the announcement.
WriteAnnouncing(t) ==
    /\ pc[t] = "write"
    /\ Attached(t)
    /\ cache' = model[t]
    /\ log' = Append(log, model[t])
    /\ generation' = generation + 1
    /\ Goto(t, "announce")
    /\ UNCHANGED <<engineVars, slotVars, cached, prepared, op, path, tree, model,
                   started, installs, everInstalled, overlapped>>

\* cache.write().replace(model): from here on current() in Rust is new.
WriteCache(t) ==
    /\ pc[t] = "write"
    /\ Attached(t)
    /\ cache' = model[t]
    /\ log' = Append(log, model[t])
    /\ Goto(t, "announce")
    /\ UNCHANGED <<engineVars, slotVars, generation, cached, prepared, op, path, tree,
                   model, started, installs, everInstalled, overlapped>>

\* The generation moves and every waiter is notified.
Announce(t) ==
    /\ pc[t] = "announce"
    /\ Attached(t)
    /\ generation' = generation + 1
    /\ Goto(t, "hooks")
    /\ UNCHANGED <<engineVars, slotVars, cache, cached, prepared, op, path, tree, model,
                   started, history>>

\* run_hooks.  The first hook is the configuration's own `publish`; what the
\* ones after it do is the program's business.
RunHooks(t) ==
    /\ pc[t] = "hooks"
    /\ Attached(t)
    /\ cached' = model[t]
    /\ Finish(t)
    /\ UNCHANGED <<source, installed, slotVars, cache, generation, prepared, op, path,
                   tree, model, started, history>>

-----------------------------------------------------------------------------
(* What load() answers.                                                     *)

\* Mutant: load answers whatever is staged.
LoadUncompared(t) ==
    /\ pc[t] = "compare"
    /\ Attached(t)
    /\ model' = [model EXCEPT ![t] = staged]
    /\ Goto(t, "idle")
    /\ UNCHANGED <<engineVars, slotVars, outVars, prepared, op, path, tree, started,
                   history>>

\* The slot still holds the model for this call's tree: it is the answer, and
\* it stays staged.
LoadMatch(t) ==
    /\ pc[t] = "compare"
    /\ Attached(t)
    /\ StagedFor(t)
    /\ model' = [model EXCEPT ![t] = staged]
    /\ Goto(t, "idle")
    /\ UNCHANGED <<engineVars, slotVars, outVars, prepared, op, path, tree, started,
                   history>>

\* Somebody else's model is in the slot: validate again.
LoadMismatch(t) ==
    /\ pc[t] = "compare"
    /\ Attached(t)
    /\ ~StagedFor(t)
    /\ path' = [path EXCEPT ![t] = "load"]
    /\ Goto(t, "validate")
    /\ UNCHANGED <<engineVars, slotVars, outVars, prepared, op, tree, model, started,
                   history>>

\* ... and answer whatever is staged by now.
LoadAnswer(t) ==
    /\ pc[t] = "answer"
    /\ Attached(t)
    /\ model' = [model EXCEPT ![t] = staged]
    /\ Goto(t, "idle")
    /\ UNCHANGED <<engineVars, slotVars, outVars, prepared, op, path, tree, started,
                   history>>

-----------------------------------------------------------------------------

\* What a thread does once its operation has started.
Work(t) ==
    \/ Enter(t) \/ Refuse(t) \/ Stamp(t) \/ Fill(t)
    \/ InstallFirst(t) \/ InstallNext(t) \/ ReadInstalled(t)
    \/ CommitAlready(t) \/ CommitClaim(t) \/ CommitMismatch(t)
    \/ Take(t) \/ Raise(t) \/ WriteCache(t) \/ Announce(t) \/ RunHooks(t)
    \/ LoadMatch(t) \/ LoadMismatch(t) \/ LoadAnswer(t)

Call(t) ==
    \/ Reload(t) \/ CommitPrepared(t) \/ Discard(t) \/ Replace(t)
    \/ \E o \in {"load", "prepare"} : Load(t, o)

Next ==
    \/ EditSource
    \/ \E t \in Callers : Call(t)
    \/ \E t \in Watchers : Watch(t)
    \/ \E t \in Threads : Work(t)

Spec == Init /\ [][Next]_vars

\* A started operation is never abandoned: its thread is scheduled, and the
\* GIL is handed over.
FairSpec == Spec /\ \A t \in Threads : WF_vars(Work(t))

-----------------------------------------------------------------------------
(* Properties.                                                              *)

Quiet == \A t \in Threads : pc[t] = "idle"

\* A model claimed or taken by a commit belongs to the tree the commit was
\* called for: a load() that stages something else in between never makes
\* commit publish the wrong model (inner.rs, the re-validation arm).
RightModel ==
    \A t \in Threads :
        pc[t] \in {"raise", "write", "announce", "hooks"} /\ op[t] # "replace"
            => model[t].tree = tree[t]

\* Readers are never given a candidate nothing installed: what a dry-run
\* load() or a prepared commit validated stays invisible until it is installed.
OnlyInstalledIsPublished ==
    \A i \in 1..Len(log) : log[i].tree \in everInstalled \cup {Handmade}

\* Validations reach the cache in the order they were stamped, each at most
\* once: the claim in commit makes the two commit paths of one install publish
\* it once, and never puts an older validation over a newer one.
PublishedInOrder ==
    \A i, j \in 1..Len(log) :
        i < j /\ log[i].seq # 0 /\ log[j].seq # 0 => log[i].seq < log[j].seq

\* load() answers with the candidate resolved by its own call, never with the
\* one another thread staged meanwhile (mod.rs, load).
LoadAnswersItsOwn ==
    [][\A t \in Callers :
        op[t] = "load" /\ pc[t] \in {"compare", "answer"} /\ pc'[t] = "idle"
            => model'[t].tree = tree[t]]_vars

\* A tree the schema rejects is neither installed nor published, whoever
\* staged what in between (the validate hook runs before anything installs).
RejectedNeverServes ==
    /\ installed \in Valid \cup {None}
    /\ \A i \in 1..Len(log) : log[i].tree \in Valid \cup {Handmade}

\* The generation never counts a model the cache has not held yet, and counts
\* every one of them in the end: a reader woken at generation g finds the g-th
\* published model or a later one.
GenerationIsBacked ==
    /\ generation <= Len(log)
    /\ Quiet => generation = Len(log)

\* As long as installing operations do not overlap, readers are served what
\* the engine has installed and both caches agree, however many load() and
\* prepare() calls run meanwhile.
LoneInstallsServe ==
    Quiet /\ ~overlapped =>
        /\ cached = cache
        /\ cache # None /\ cache.seq # 0 => cache.tree = installed

\* Publishing implements the abstract log of publications.
Abstract == INSTANCE PublishedLog
ImplementsLog == Abstract!Spec

\* Every operation that started returns.  Validating needs the GIL and happens
\* inside the engine, so a thread that waited for the engine with the GIL held
\* would stop both for ever (inner.rs, Engine and dynamic).
OperationsReturn == \A t \in Threads : pc[t] # "idle" ~> pc[t] = "idle"

\* What the documents and comments of the repository say of it.

\* "what keeps one reload to one generation" (inner.rs, commit): no more
\* generations than installs.
OneGenerationPerInstall == generation <= installs

\* "Publishes the model for whatever the engine just installed" (mod.rs,
\* publish_current): with nothing running, what readers are served is the model
\* of the tree the engine has installed.
ServesInstalled == Quiet /\ installed # None => cached.tree = installed

=============================================================================
