------------------------------ MODULE Shutdown ------------------------------
(***************************************************************************)
(* The end of the interpreter while reloads are still running.             *)
(*                                                                         *)
(* Source: dynamic-config-python/src/gate.rs (the finalization gate), the   *)
(* atexit sweep of python/dynamic_config/_lifetime.py, release() of        *)
(* src/config/mod.rs, and the three places of src/config/inner.rs and      *)
(* mod.rs where a reload enters Python: validate and the reload hook, both *)
(* through the gate, and publish_current, on the caller's own thread.      *)
(*                                                                         *)
(* The configuration has been loaded.  Every reload resolves a tree of its *)
(* thread's own that the schema accepts; how reloads race each other is     *)
(* the subject of Publish.  Of the cached model only its presence counts.  *)
(***************************************************************************)
EXTENDS Integers

CONSTANTS Watchers,     \* the engine's watcher threads
          Daemons,      \* daemon threads of the program that call reload()
          MaxReloads,   \* bound on the reloads
          HasGIL,       \* TRUE: attached Rust code excludes other threads
          MayWedge,     \* TRUE: a validator or a hook may never return
          Boot,         \* the tree of the first load
          None

Threads == Watchers \cup Daemons
Trees == Threads \cup {Boot}

ASSUME ThreadAssumption ==
    /\ Watchers \cap Daemons = {}
    /\ Boot \notin Threads /\ None \notin Trees
    /\ MaxReloads \in Nat
    /\ HasGIL \in BOOLEAN /\ MayWedge \in BOOLEAN
    /\ None \notin [seq : Nat, tree : Trees]

VARIABLES
    finalizing,      \* FINALIZING
    in_python,       \* IN_PYTHON, as the set of the passes it counts
    exit,            \* how far the main thread is with leaving
    late,            \* the wait for the passes was given up
    reachable,       \* the watchers whose handle the sweep can reach
    watching,        \* the watchers that still watch
    installed,       \* the engine's installed tree
    staged,          \* Shared.staged
    next_sequence,   \* Shared.next_sequence
    last_committed,  \* Inner.last_committed
    cached,          \* whether Inner.cache holds a model
    pc, path, again, \* where each thread is, in whose commit, validating again
    tree, seq,       \* what each thread's commit is about, and has claimed
    started          \* reloads so far (the bound)

exitVars == <<finalizing, exit, late, reachable, watching>>
slotVars == <<staged, next_sequence, last_committed>>
threadVars == <<path, again, tree, seq>>
vars == <<exitVars, in_python, installed, slotVars, cached, pc, threadVars, started>>

Steps == {"idle", "knock", "counted", "waiting", "validating", "leave", "install",
          "return", "commit", "take", "write", "hooks", "wedged"}

\* A pass through the gate; the second is a validation inside a hook's commit.
Passes == Threads \X {1, 2}
Pass(t) == <<t, IF path[t] = "hook" /\ again[t] THEN 2 ELSE 1>>

TypeOK ==
    /\ finalizing \in BOOLEAN
    /\ in_python \subseteq Passes
    /\ exit \in {"running", "flagged", "draining", "drained", "sweeping",
               "released", "down"}
    /\ late \in BOOLEAN
    /\ reachable \subseteq Watchers
    /\ watching \subseteq Watchers
    /\ installed \in Trees
    /\ staged \in [seq : Nat, tree : Trees] \cup {None}
    /\ next_sequence \in Nat
    /\ last_committed \in Nat
    /\ cached \in BOOLEAN
    /\ pc \in [Threads -> Steps]
    /\ path \in [Threads -> {"engine", "hook", "publish"}]
    /\ again \in [Threads -> BOOLEAN]
    /\ tree \in [Threads -> Trees]
    /\ seq \in [Threads -> Nat]
    /\ started \in Nat

\* Some watchers were detached: nothing can reach them.
Init ==
    /\ finalizing = FALSE
    /\ in_python = {}
    /\ exit = "running"
    /\ late = FALSE
    /\ reachable \in SUBSET Watchers
    /\ watching = Watchers
    /\ installed = Boot
    /\ staged = [seq |-> 1, tree |-> Boot]
    /\ next_sequence = 1
    /\ last_committed = 1
    /\ cached = TRUE
    /\ pc = [t \in Threads |-> "idle"]
    /\ path = [t \in Threads |-> "engine"]
    /\ again = [t \in Threads |-> FALSE]
    /\ tree = [t \in Threads |-> Boot]
    /\ seq = [t \in Threads |-> 0]
    /\ started = 0

Goto(t, step) == pc' = [pc EXCEPT ![t] = step]

-----------------------------------------------------------------------------
(* The interpreter lock, as in Publish: a thread keeps it between two calls *)
(* into Python, and so does the main thread until it waits.                 *)

Holding(t) == pc[t] \in {"take", "write"} \/ (pc[t] = "leave" /\ again[t])

\* Mutant: the main thread waits without letting the GIL go.
MainHoldsWaiting == exit \in {"flagged", "draining"}

MainHolds == exit = "flagged"

Attached(t) ==
    /\ exit # "down"
    /\ HasGIL => ~MainHolds /\ \A u \in Threads \ {t} : ~Holding(u)

MainAttached == HasGIL => \A t \in Threads : ~Holding(t)

-----------------------------------------------------------------------------
(* gate::attach.                                                            *)

\* Mutant: the flag is read before the pass is counted.
KnockUncounted(t) ==
    /\ pc[t] = "knock"
    /\ ~finalizing
    /\ Goto(t, "waiting")
    /\ in_python' = in_python
    /\ UNCHANGED <<exitVars, installed, slotVars, cached, threadVars, started>>

\* IN_PYTHON.fetch_add, before the flag is read.
Knock(t) ==
    /\ pc[t] = "knock"
    /\ in_python' = in_python \cup {Pass(t)}
    /\ Goto(t, "counted")
    /\ UNCHANGED <<exitVars, installed, slotVars, cached, threadVars, started>>

\* The flag is down: on to Python::attach.
Admitted(t) ==
    /\ pc[t] = "counted"
    /\ ~finalizing
    /\ Goto(t, "waiting")
    /\ UNCHANGED <<exitVars, in_python, installed, slotVars, cached, threadVars, started>>

\* Once the engine has its hook back, a watcher waits for the next change and a
\* caller's reload goes on to publish_current.
AfterHook(t) == IF t \in Watchers THEN "idle" ELSE "return"

\* The flag is up.  A reload whose validation is refused is skipped, a hook
\* dropped; a commit that had to validate again fails.
BackOut(t) ==
    /\ pc[t] = "counted"
    /\ finalizing
    /\ in_python' = in_python \ {Pass(t)}
    /\ Goto(t, IF path[t] # "hook" THEN "idle"
               ELSE IF again[t] THEN "leave" ELSE AfterHook(t))
    /\ again' = [again EXCEPT ![t] = FALSE]
    /\ UNCHANGED <<exitVars, installed, slotVars, cached, path, tree, seq, started>>

\* Python::attach has the interpreter.
Attach(t) ==
    /\ pc[t] = "waiting"
    /\ Attached(t)
    /\ Goto(t, IF path[t] = "engine" \/ again[t] THEN "validating" ELSE "commit")
    /\ UNCHANGED <<exitVars, in_python, installed, slotVars, cached, threadVars, started>>

\* Out of Python again: IN_PYTHON.fetch_sub.
Leave(t) ==
    /\ pc[t] = "leave"
    /\ in_python' = in_python \ {Pass(t)}
    /\ Goto(t, IF path[t] = "engine" THEN "install"
               ELSE IF again[t] THEN "take" ELSE AfterHook(t))
    /\ UNCHANGED <<exitVars, installed, slotVars, cached, threadVars, started>>

-----------------------------------------------------------------------------
(* A reload.                                                                *)

\* A watcher sees a change, or a daemon thread calls reload().
Reload(t) ==
    /\ pc[t] = "idle"
    /\ started < MaxReloads
    /\ IF t \in Watchers THEN t \in watching ELSE Attached(t)
    /\ started' = started + 1
    /\ path' = [path EXCEPT ![t] = "engine"]
    /\ tree' = [tree EXCEPT ![t] = t]
    /\ again' = [again EXCEPT ![t] = FALSE]
    /\ Goto(t, "knock")
    /\ UNCHANGED <<exitVars, in_python, installed, slotVars, cached, seq>>

\* The validator returned: the model is numbered and staged.
Validate(t) ==
    /\ pc[t] = "validating"
    /\ Attached(t)
    /\ next_sequence' = next_sequence + 1
    /\ staged' = [seq |-> next_sequence + 1, tree |-> tree[t]]
    /\ Goto(t, "leave")
    /\ UNCHANGED <<exitVars, in_python, installed, last_committed, cached, threadVars,
                   started>>

\* The engine installs and calls its reload hook, detached.
Install(t) ==
    /\ pc[t] = "install"
    /\ installed' = tree[t]
    /\ path' = [path EXCEPT ![t] = "hook"]
    /\ Goto(t, "knock")
    /\ UNCHANGED <<exitVars, in_python, slotVars, cached, again, tree, seq, started>>

\* publish_current, on a thread of Python's own: no gate.
ReturnToCaller(t) ==
    /\ pc[t] = "return"
    /\ Attached(t)
    /\ path' = [path EXCEPT ![t] = "publish"]
    /\ tree' = [tree EXCEPT ![t] = installed]
    /\ Goto(t, "commit")
    /\ UNCHANGED <<exitVars, in_python, installed, slotVars, cached, again, seq, started>>

-----------------------------------------------------------------------------
(* commit, in the reload hook or in publish_current.                        *)

StagedFor(t) == staged # None /\ staged.tree = tree[t]

AfterCommit(t) == IF path[t] = "hook" THEN "leave" ELSE "idle"

CommitAlready(t) ==
    /\ pc[t] = "commit"
    /\ Attached(t)
    /\ StagedFor(t) /\ last_committed >= staged.seq
    /\ Goto(t, AfterCommit(t))
    /\ UNCHANGED <<exitVars, in_python, installed, slotVars, cached, threadVars, started>>

CommitClaim(t) ==
    /\ pc[t] = "commit"
    /\ Attached(t)
    /\ StagedFor(t) /\ last_committed < staged.seq
    /\ last_committed' = staged.seq
    /\ seq' = [seq EXCEPT ![t] = staged.seq]
    /\ Goto(t, "write")
    /\ UNCHANGED <<exitVars, in_python, installed, staged, next_sequence, cached, path,
                   again, tree, started>>

\* Validate once more, through the gate.
CommitMismatch(t) ==
    /\ pc[t] = "commit"
    /\ Attached(t)
    /\ ~StagedFor(t)
    /\ again' = [again EXCEPT ![t] = TRUE]
    /\ Goto(t, "knock")
    /\ UNCHANGED <<exitVars, in_python, installed, slotVars, cached, path, tree, seq,
                   started>>

\* ... and take what is staged, if anything still is.
Take(t) ==
    /\ pc[t] = "take"
    /\ Attached(t)
    /\ IF staged = None
       THEN Goto(t, AfterCommit(t)) /\ UNCHANGED seq
       ELSE Goto(t, "write") /\ seq' = [seq EXCEPT ![t] = staged.seq]
    /\ again' = [again EXCEPT ![t] = FALSE]
    /\ UNCHANGED <<exitVars, in_python, installed, slotVars, cached, path, tree, started>>

\* fetch_max, the cache, the generation.
Write(t) ==
    /\ pc[t] = "write"
    /\ Attached(t)
    /\ last_committed' = IF last_committed < seq[t] THEN seq[t] ELSE last_committed
    /\ cached' = TRUE
    /\ Goto(t, "hooks")
    /\ UNCHANGED <<exitVars, in_python, installed, staged, next_sequence, threadVars,
                   started>>

\* The hooks have run.
RunHooks(t) ==
    /\ pc[t] = "hooks"
    /\ Attached(t)
    /\ Goto(t, AfterCommit(t))
    /\ UNCHANGED <<exitVars, in_python, installed, slotVars, cached, threadVars, started>>

\* A validator or a hook never returns.
Wedge(t) ==
    /\ MayWedge
    /\ pc[t] \in {"validating", "hooks"}
    /\ Attached(t)
    /\ Goto(t, "wedged")
    /\ UNCHANGED <<exitVars, in_python, installed, slotVars, cached, threadVars, started>>

-----------------------------------------------------------------------------
(* _release_everything, on the main thread.                                 *)

\* _interpreter_closing raises the flag ...
CloseGate ==
    /\ exit = "running"
    /\ MainAttached
    /\ finalizing' = TRUE
    /\ exit' = "flagged"
    /\ UNCHANGED <<late, reachable, watching, in_python, installed, slotVars, cached, pc,
                   threadVars, started>>

\* ... and waits, detached, ...
Detach ==
    /\ exit = "flagged"
    /\ exit' = "draining"
    /\ UNCHANGED <<finalizing, late, reachable, watching, in_python, installed, slotVars,
                   cached, pc, threadVars, started>>

\* ... until it sees the counter at zero ...
Drained ==
    /\ exit = "draining"
    /\ in_python = {}
    /\ exit' = "drained"
    /\ UNCHANGED <<finalizing, late, reachable, watching, in_python, installed, slotVars,
                   cached, pc, threadVars, started>>

\* ... or its five seconds are over, ...
DeadlinePasses ==
    /\ exit = "draining"
    /\ in_python # {}
    /\ late' = TRUE
    /\ exit' = "drained"
    /\ UNCHANGED <<finalizing, reachable, watching, in_python, installed, slotVars, cached,
                   pc, threadVars, started>>

\* ... and goes back into Python.
Sweep ==
    /\ exit = "drained"
    /\ MainAttached
    /\ exit' = "sweeping"
    /\ UNCHANGED <<finalizing, late, reachable, watching, in_python, installed, slotVars,
                   cached, pc, threadVars, started>>

\* watch.stop(), for every handle the sweep can reach.
StopWatch(w) ==
    /\ exit = "sweeping"
    /\ w \in reachable \cap watching
    /\ watching' = watching \ {w}
    /\ UNCHANGED <<finalizing, exit, late, reachable, in_python, installed, slotVars,
                   cached, pc, threadVars, started>>

\* Mutant: the staged model stays behind.
ReleaseCache ==
    /\ exit = "sweeping"
    /\ reachable \cap watching = {}
    /\ MainAttached
    /\ cached' = FALSE
    /\ exit' = "released"
    /\ UNCHANGED <<finalizing, late, reachable, watching, in_python, installed, slotVars,
                   pc, threadVars, started>>

\* release(): the cache and the staged model are dropped.
Release ==
    /\ exit = "sweeping"
    /\ reachable \cap watching = {}
    /\ MainAttached
    /\ cached' = FALSE
    /\ staged' = None
    /\ exit' = "released"
    /\ UNCHANGED <<finalizing, late, reachable, watching, in_python, installed,
                   next_sequence, last_committed, pc, threadVars, started>>

\* The other handlers have run; the interpreter finalizes.
TearDown ==
    /\ exit = "released"
    /\ MainAttached
    /\ exit' = "down"
    /\ UNCHANGED <<finalizing, late, reachable, watching, in_python, installed, slotVars,
                   cached, pc, threadVars, started>>

-----------------------------------------------------------------------------

Gate(t) == Knock(t) \/ Admitted(t) \/ BackOut(t) \/ Attach(t) \/ Leave(t)

Commit(t) ==
    \/ CommitAlready(t) \/ CommitClaim(t) \/ CommitMismatch(t)
    \/ Take(t) \/ Write(t) \/ RunHooks(t)

Work(t) == Gate(t) \/ Validate(t) \/ Install(t) \/ ReturnToCaller(t) \/ Commit(t)

Leaving ==
    \/ Detach \/ Drained \/ Sweep \/ Release \/ TearDown
    \/ \E w \in Watchers : StopWatch(w)

Next ==
    \/ CloseGate \/ Leaving \/ DeadlinePasses
    \/ \E t \in Threads : Reload(t) \/ Work(t) \/ Wedge(t)

Spec == Init /\ [][Next]_vars

Wedged == \E t \in Threads : pc[t] = "wedged"

\* Threads are scheduled and hand the GIL over, and so is the main thread.  The
\* clock is relied on only when something inside Python will never return.
FairSpec ==
    /\ Spec
    /\ \A t \in Threads : WF_vars(Work(t))
    /\ WF_vars(Leaving)
    /\ WF_vars(DeadlinePasses /\ Wedged)

-----------------------------------------------------------------------------
(* Properties.                                                              *)

\* A thread the gate has let in, and not out again yet.
Inside(t) ==
    \/ pc[t] \in {"waiting", "validating", "leave"}
    \/ pc[t] = "wedged" /\ path[t] = "engine"
    \/ path[t] = "hook" /\ pc[t] \in {"commit", "write", "hooks", "wedged"}
    \/ again[t] /\ (path[t] = "hook" \/ pc[t] = "wedged")

\* "There is no interleaving in which a thread slips through and attaches after
\* the wait returns" (gate.rs), as long as the wait was not given up.
NoneSlipsThrough ==
    exit \in {"drained", "sweeping", "released", "down"} /\ ~late =>
        \A t \in Threads : ~Inside(t)

\* A released configuration stays empty: neither a reload in flight nor a
\* caller's own publish_current puts a model back ("drops every cached model,
\* before teardown", _lifetime.py), unless the wait was given up.
ReleasedStaysEmpty == exit \in {"released", "down"} /\ ~late => ~cached

\* The exit goes through: the wait ends without its deadline unless a hook or a
\* validator is wedged ("holding our attach while they finish would deadlock a
\* GIL build outright", gate.rs).
ExitGoesThrough == exit = "flagged" ~> exit = "down"

=============================================================================
