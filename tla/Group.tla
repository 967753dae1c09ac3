-------------------------------- MODULE Group --------------------------------
(***************************************************************************)
(* Several configurations with one lifecycle: loading them one at a time,  *)
(* on threads or on a loop, reloading them all or not at all, and owning   *)
(* their watchers.                                                         *)
(*                                                                         *)
(* Source: python/dynamic_config/_group.py, and prepare, commit and        *)
(* discard of src/config/mod.rs.                                           *)
(*                                                                         *)
(* A member is its source, what it has installed, and the commits the      *)
(* engine holds prepared for it.  Callers are threads or tasks that use    *)
(* one group at the same time.                                             *)
(***************************************************************************)
EXTENDS Integers, Sequences, FiniteSets, SequencesExt

CONSTANTS N,             \* the number of members
          Callers,
          Docs, Broken,  \* what a source may hold; a broken one is refused
          Nothing,       \* no document
          MaxEdits,      \* bound on the edits of the sources
          MaxCalls       \* bound on the calls

ASSUME GroupAssumption ==
    /\ N \in Nat \ {0}
    /\ MaxEdits \in Nat /\ MaxCalls \in Nat
    /\ Broken \notin Docs /\ Nothing \notin Docs /\ Broken # Nothing

Members == 1..N
InOrder == [i \in Members |-> i]

VARIABLES
    concurrency,   \* _concurrency; 0 is None
    source,        \* what each member's source holds
    installed,     \* what each member serves
    held,          \* the commits the engine holds, by caller and member
    op, stage,     \* the method each caller is in, and where in it
    lo, hi,        \* `prepared`: the members from lo to hi
    load,          \* the state of _each, _each_async or _in_parallel
    raised,        \* the member a call raised the error of, 0 if none
    watches,       \* _watches
    alive,         \* the running watchers of each member
    hand,          \* the watcher a call has in a local variable, or 0
    edits, calls,
    \* History, read by no action.
    landed, broke  \* what reload_atomic has installed, and whether it failed

configVars == <<concurrency, source, installed>>
atomicVars == <<held, lo, hi, landed, broke>>
watchVars  == <<watches, alive, hand>>
vars == <<configVars, op, stage, load, raised, atomicVars, watchVars, edits, calls>>

Loads   == {"init", "reload", "init_async", "reload_async", "running"}
Stops   == {"init", "init_async", "running"}    \* stop_on_failure
Blocks  == {"watching", "running"}
Ops     == Loads \cup Blocks \cup {"reload_atomic", "watch", "stop"}

NoLoad == [todo |-> <<>>, busy |-> {}, refused |-> {}, waiting |-> <<>>,
           failed |-> <<>>, loaded |-> {}]
None == [m \in Members |-> Nothing]

\* The error of pop() on an empty list.
PopError == N + 1

TypeOK ==
    /\ concurrency \in 0..N
    /\ source \in [Members -> Docs \cup {Broken}]
    /\ installed \in [Members -> Docs \cup {Nothing}]
    /\ held \in [Callers -> [Members -> Docs \cup {Nothing}]]
    /\ landed \in [Callers -> [Members -> Docs \cup {Nothing}]]
    /\ broke \in [Callers -> BOOLEAN]
    /\ op \in [Callers -> Ops \cup {"none"}]
    /\ stage \in [Callers -> {"returned", "each", "prepare", "commit", "discard",
                              "watch", "inside", "stop", "pop", "halt"}]
    /\ lo \in [Callers -> 1..N + 1]
    /\ hi \in [Callers -> 0..N]
    /\ load \in [Callers -> [todo : Seq(Members), busy : SUBSET Members,
                             refused : SUBSET Members, waiting : Seq(Members),
                             failed : Seq(Members), loaded : SUBSET Members]]
    /\ raised \in [Callers -> 0..PopError]
    /\ watches \in Seq(Members)
    /\ alive \in [Members -> Int]
    /\ hand \in [Callers -> 0..N]
    /\ edits \in Nat /\ calls \in Nat

Init ==
    /\ concurrency \in 0..N
    /\ source \in [Members -> Docs \cup {Broken}]
    /\ installed = None
    /\ held = [c \in Callers |-> None]
    /\ landed = held
    /\ broke = [c \in Callers |-> FALSE]
    /\ op = [c \in Callers |-> "none"]
    /\ stage = [c \in Callers |-> "returned"]
    /\ lo = [c \in Callers |-> 1]
    /\ hi = [c \in Callers |-> 0]
    /\ load = [c \in Callers |-> NoLoad]
    /\ raised = [c \in Callers |-> 0]
    /\ watches = <<>>
    /\ alive = [m \in Members |-> 0]
    /\ hand = [c \in Callers |-> 0]
    /\ edits = 0 /\ calls = 0

At(c, s) == stage[c] = s
Goto(c, s) == stage' = [stage EXCEPT ![c] = s]
Raise(c, e) == raised' = [raised EXCEPT ![c] = e]
Work(c, l) == load' = [load EXCEPT ![c] = l]

-----------------------------------------------------------------------------
(* The world around a call.                                                *)

Edit(m, d) ==
    /\ edits < MaxEdits /\ source[m] # d
    /\ source' = [source EXCEPT ![m] = d]
    /\ edits' = edits + 1
    /\ UNCHANGED <<concurrency, installed, op, stage, load, raised, atomicVars,
                   watchVars, calls>>

\* A member's own watcher reloads it, whatever the group is doing.
WatcherReloads(m) ==
    /\ alive[m] > 0 /\ source[m] \notin {Broken, installed[m]}
    /\ installed' = [installed EXCEPT ![m] = source[m]]
    /\ UNCHANGED <<concurrency, source, op, stage, load, raised, atomicVars,
                   watchVars, edits, calls>>

FirstStage(o) ==
    CASE o \in Loads -> "each"
      [] o = "reload_atomic" -> "prepare"
      [] o \in {"watch", "watching"} -> "watch"
      [] OTHER -> "stop"

Begin(c, o) ==
    /\ At(c, "returned") /\ calls < MaxCalls
    /\ calls' = calls + 1
    /\ op' = [op EXCEPT ![c] = o]
    /\ Goto(c, FirstStage(o))
    /\ Work(c, [NoLoad EXCEPT !.todo = InOrder])
    /\ Raise(c, 0)
    /\ lo' = [lo EXCEPT ![c] = 1]
    /\ hi' = [hi EXCEPT ![c] = 0]
    /\ UNCHANGED <<configVars, held, landed, broke, watchVars, edits>>

-----------------------------------------------------------------------------
(* Loading every member.  One at a time is one worker.                     *)

OnLoop(c) == op[c] \in {"init_async", "reload_async"} /\ concurrency > 0
Workers == IF concurrency = 0 THEN 1 ELSE concurrency

\* Mutant: a failure stops a reload as it stops an init.
StoppingAlways(c) == load[c].failed # <<>>

\* stop_on_failure, once a failure is recorded.
Stopping(c) == op[c] \in Stops /\ load[c].failed # <<>>

Loading(c, l) ==
    /\ At(c, "each")
    /\ Work(c, l)
    /\ UNCHANGED <<concurrency, source, op, stage, raised, atomicVars, watchVars,
                   edits, calls>>

Take(c) == LET l == load[c] IN
    /\ ~OnLoop(c) /\ ~Stopping(c)
    /\ l.todo # <<>>
    /\ Cardinality(l.busy \cup l.refused) < Workers
    /\ Loading(c, [l EXCEPT !.todo = Tail(l.todo), !.busy = @ \cup {Head(l.todo)}])
    /\ UNCHANGED installed

\* The first step of a task: the event, then the semaphore.
TaskStarts(c) == LET l == load[c] IN
    /\ OnLoop(c) /\ l.todo # <<>>
    /\ \/ /\ Stopping(c)
          /\ Loading(c, [l EXCEPT !.todo = Tail(l.todo)])
       \/ /\ ~Stopping(c) /\ Cardinality(l.busy) < concurrency
          /\ Loading(c, [l EXCEPT !.todo = Tail(l.todo), !.busy = @ \cup {Head(l.todo)}])
       \/ /\ ~Stopping(c) /\ Cardinality(l.busy) = concurrency
          /\ Loading(c, [l EXCEPT !.todo = Tail(l.todo),
                                  !.waiting = Append(@, Head(l.todo))])
    /\ UNCHANGED installed

\* No pool takes the work: it fails before its task has waited for anything.
TaskFailsAtOnce(c) == LET l == load[c] IN
    /\ OnLoop(c) /\ l.todo # <<>> /\ ~Stopping(c) /\ Cardinality(l.busy) < concurrency
    /\ Loading(c, [l EXCEPT !.todo = Tail(l.todo), !.failed = Append(@, Head(l.todo))])
    /\ UNCHANGED installed

\* A work that ends leaves the semaphore to the first task waiting for it.
Release(l, m) ==
    [l EXCEPT !.busy = (@ \ {m}) \cup (IF l.waiting = <<>> THEN {} ELSE {Head(l.waiting)}),
              !.waiting = IF @ = <<>> THEN @ ELSE Tail(@)]

\* Work ends after every task had its first step: that is one turn of the loop.
Loaded(c, m) == LET l == load[c] IN
    /\ m \in l.busy /\ (OnLoop(c) => l.todo = <<>>)
    /\ source[m] # Broken
    /\ installed' = [installed EXCEPT ![m] = source[m]]
    /\ Loading(c, [Release(l, m) EXCEPT !.loaded = @ \cup {m}])

\* Mutant: a task that fails keeps its place in the semaphore.
TaskRefusedHolding(c, m) == LET l == load[c] IN
    /\ OnLoop(c) /\ m \in l.busy /\ l.todo = <<>>
    /\ source[m] = Broken
    /\ Loading(c, [l EXCEPT !.busy = @ \ {m}, !.failed = Append(@, m)])
    /\ UNCHANGED installed

TaskRefused(c, m) == LET l == load[c] IN
    /\ OnLoop(c) /\ m \in l.busy /\ l.todo = <<>>
    /\ source[m] = Broken
    /\ Loading(c, [Release(l, m) EXCEPT !.failed = Append(@, m)])
    /\ UNCHANGED installed

Refused(c, m) == LET l == load[c] IN
    /\ ~OnLoop(c) /\ m \in l.busy
    /\ source[m] = Broken
    /\ Loading(c, [l EXCEPT !.busy = @ \ {m}, !.refused = @ \cup {m}])
    /\ UNCHANGED installed

\* A worker takes the lock again to append its error.
Record(c, m) == LET l == load[c] IN
    /\ m \in l.refused
    /\ Loading(c, [l EXCEPT !.refused = @ \ {m}, !.failed = Append(@, m)])
    /\ UNCHANGED installed

\* The first error of a list of threads, the first member of a list of tasks.
FirstError(c) == LET f == load[c].failed IN
    IF f = <<>> THEN 0
    ELSE IF OnLoop(c) THEN CHOOSE m \in ToSet(f) : \A k \in ToSet(f) : m <= k
    ELSE Head(f)

EachReturns(c) == LET l == load[c] IN
    /\ At(c, "each")
    /\ l.busy = {} /\ l.refused = {} /\ l.waiting = <<>>
    /\ l.todo = <<>> \/ (Stopping(c) /\ ~OnLoop(c))
    /\ Raise(c, FirstError(c))
    /\ Goto(c, IF op[c] = "running" /\ FirstError(c) = 0 THEN "watch" ELSE "returned")
    /\ Work(c, [l EXCEPT !.todo = IF op[c] = "running" THEN InOrder ELSE <<>>])
    /\ UNCHANGED <<configVars, op, atomicVars, watchVars, edits, calls>>

-----------------------------------------------------------------------------
(* reload_atomic.                                                          *)

AtomicStep(c) == UNCHANGED <<concurrency, source, op, load, watchVars, edits, calls>>

PrepareNext(c) == LET m == hi[c] + 1 IN
    /\ At(c, "prepare") /\ source[m] # Broken
    /\ held' = [held EXCEPT ![c][m] = source[m]]
    /\ hi' = [hi EXCEPT ![c] = m]
    /\ Goto(c, IF m = N THEN "commit" ELSE "prepare")
    /\ AtomicStep(c) /\ UNCHANGED <<installed, raised, lo, landed, broke>>

\* Mutant: the error leaves at once, and with it the commits prepared so far.
PrepareAbandoned(c) == LET m == hi[c] + 1 IN
    /\ At(c, "prepare") /\ source[m] = Broken
    /\ Goto(c, "returned")
    /\ Raise(c, m)
    /\ AtomicStep(c) /\ UNCHANGED <<installed, atomicVars>>

PrepareRefused(c) == LET m == hi[c] + 1 IN
    /\ At(c, "prepare") /\ source[m] = Broken
    /\ Goto(c, "discard")
    /\ Raise(c, m)
    /\ AtomicStep(c) /\ UNCHANGED <<installed, atomicVars>>

Discard(c) == LET m == lo[c] IN
    /\ At(c, "discard") /\ m <= hi[c]
    /\ held' = [held EXCEPT ![c][m] = Nothing]
    /\ lo' = [lo EXCEPT ![c] = m + 1]
    /\ AtomicStep(c) /\ UNCHANGED <<installed, stage, raised, hi, landed, broke>>

\* The list loses its first member before the commit is made.
Commit(c, breaks) == LET m == lo[c] IN
    /\ At(c, "commit") /\ m <= N
    /\ installed' = [installed EXCEPT ![m] = held[c][m]]
    /\ landed' = [landed EXCEPT ![c][m] = held[c][m]]
    /\ held' = [held EXCEPT ![c][m] = Nothing]
    /\ lo' = [lo EXCEPT ![c] = m + 1]
    /\ broke' = [broke EXCEPT ![c] = breaks]
    /\ Goto(c, IF breaks THEN "discard" ELSE "commit")
    /\ Raise(c, IF breaks THEN m ELSE 0)
    /\ AtomicStep(c) /\ UNCHANGED hi

AtomicReturns(c) ==
    /\ At(c, "commit") \/ At(c, "discard")
    /\ lo[c] > hi[c]
    /\ Goto(c, "returned")
    /\ landed' = [landed EXCEPT ![c] = None]
    /\ broke' = [broke EXCEPT ![c] = FALSE]
    /\ AtomicStep(c) /\ UNCHANGED <<installed, raised, held, lo, hi>>

-----------------------------------------------------------------------------
(* Watching.                                                               *)

WatchStep(c) == UNCHANGED <<configVars, op, atomicVars, edits, calls>>

StartWatch(c) == LET m == Head(load[c].todo) IN
    /\ At(c, "watch") /\ hand[c] = 0 /\ load[c].todo # <<>>
    /\ alive' = [alive EXCEPT ![m] = @ + 1]
    /\ hand' = [hand EXCEPT ![c] = m]
    /\ Work(c, [load[c] EXCEPT !.todo = Tail(@)])
    /\ WatchStep(c) /\ UNCHANGED <<stage, raised, watches>>

\* A member that cannot be watched ends the call; those before it stay watched.
WatchFails(c) ==
    /\ At(c, "watch") /\ hand[c] = 0 /\ load[c].todo # <<>>
    /\ Raise(c, Head(load[c].todo))
    /\ Goto(c, "returned")
    /\ WatchStep(c) /\ UNCHANGED <<load, watchVars>>

KeepWatch(c) ==
    /\ At(c, "watch") /\ hand[c] # 0
    /\ watches' = Append(watches, hand[c])
    /\ hand' = [hand EXCEPT ![c] = 0]
    /\ WatchStep(c) /\ UNCHANGED <<stage, load, raised, alive>>

AllWatched(c) ==
    /\ At(c, "watch") /\ hand[c] = 0 /\ load[c].todo = <<>>
    /\ Goto(c, IF op[c] \in Blocks THEN "inside" ELSE "returned")
    /\ WatchStep(c) /\ UNCHANGED <<load, raised, watchVars>>

LeaveBlock(c) ==
    /\ At(c, "inside")
    /\ Goto(c, "stop")
    /\ WatchStep(c) /\ UNCHANGED <<load, raised, watchVars>>

\* `while self._watches`, and the pop in its body: another thread may be between.
LookForWatch(c) ==
    /\ At(c, "stop")
    /\ Goto(c, IF watches = <<>> THEN "returned" ELSE "pop")
    /\ WatchStep(c) /\ UNCHANGED <<load, raised, watchVars>>

\* Mutant: the list is cleared around the watcher that is stopped.
PopEvery(c) ==
    /\ At(c, "pop") /\ watches # <<>>
    /\ hand' = [hand EXCEPT ![c] = Last(watches)]
    /\ watches' = <<>>
    /\ Goto(c, "halt")
    /\ WatchStep(c) /\ UNCHANGED <<load, raised, alive>>

PopWatch(c) ==
    /\ At(c, "pop") /\ watches # <<>>
    /\ hand' = [hand EXCEPT ![c] = Last(watches)]
    /\ watches' = Front(watches)
    /\ Goto(c, "halt")
    /\ WatchStep(c) /\ UNCHANGED <<load, raised, alive>>

PopRaises(c) ==
    /\ At(c, "pop") /\ watches = <<>>
    /\ Raise(c, PopError)
    /\ Goto(c, "returned")
    /\ WatchStep(c) /\ UNCHANGED <<load, watchVars>>

HaltWatch(c) ==
    /\ At(c, "halt")
    /\ alive' = [alive EXCEPT ![hand[c]] = @ - 1]
    /\ hand' = [hand EXCEPT ![c] = 0]
    /\ Goto(c, "stop")
    /\ WatchStep(c) /\ UNCHANGED <<load, raised, watches>>

-----------------------------------------------------------------------------

Proceed(c) ==
    \/ Take(c) \/ TaskStarts(c) \/ EachReturns(c)
    \/ \E m \in Members :
        Loaded(c, m) \/ TaskRefused(c, m) \/ Refused(c, m) \/ Record(c, m)
    \/ PrepareNext(c) \/ PrepareRefused(c) \/ Discard(c) \/ AtomicReturns(c)
    \/ \E breaks \in BOOLEAN : Commit(c, breaks)
    \/ StartWatch(c) \/ KeepWatch(c) \/ AllWatched(c)
    \/ LookForWatch(c) \/ PopWatch(c) \/ PopRaises(c) \/ HaltWatch(c)

Next ==
    \/ \E m \in Members : WatcherReloads(m) \/ \E d \in Docs \cup {Broken} : Edit(m, d)
    \/ \E c \in Callers :
        \/ \E o \in Ops : Begin(c, o)
        \/ Proceed(c) \/ TaskFailsAtOnce(c) \/ WatchFails(c) \/ LeaveBlock(c)

Spec == Init /\ [][Next]_vars

\* Threads and loops are scheduled and loads end; nobody has to call, edit or
\* leave a block.
FairSpec == Spec /\ \A c \in Callers : WF_vars(Proceed(c))

-----------------------------------------------------------------------------
(* Properties.                                                             *)

\* reload_atomic is an all-or-nothing reload whatever the other callers, the
\* watchers and the sources do: it installs nothing until the engine holds a
\* validated commit of every member, it installs the documents it validated,
\* and when it returns the engine holds none of its commits and everything or
\* nothing was installed, unless a commit itself raised (reload_atomic).
Atomic == INSTANCE AtomicReload WITH
            active <- {c \in Callers : stage[c] \in {"prepare", "commit", "discard"}},
            ready <- held, applied <- landed, broken <- broke
AllOrNothing == Atomic!Spec

\* What a returned call says of the members is true: without an error every
\* member was loaded by it; with one, the member it names was not; and a reload
\* gave every member its turn, whoever failed before (_each, _each_async and
\* _in_parallel).
ReportsAreTrue ==
    \A c \in Callers : At(c, "returned") /\ op[c] \in Loads \ Blocks =>
        LET failed == ToSet(load[c].failed)  loaded == load[c].loaded IN
        /\ raised[c] = 0 => loaded = Members
        /\ raised[c] # 0 => raised[c] \in failed \ loaded
        /\ op[c] \notin Stops => loaded \cup failed = Members

\* Every running watcher can still be stopped: it is in the group's list, or in
\* the hands of the call that is starting or stopping it (watch, stop).
WatchersReachable ==
    \A m \in Members :
        alive[m] = Cardinality({i \in DOMAIN watches : watches[i] = m})
                     + Cardinality({c \in Callers : hand[c] = m})

\* Every call returns once it is not in the caller's own block: no worker waits
\* for a semaphore nobody gives back, and no list keeps a stop going.
CallsReturn == \A c \in Callers : []<>(stage[c] \in {"returned", "inside"})

=============================================================================
