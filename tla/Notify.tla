------------------------------- MODULE Notify -------------------------------
(***************************************************************************)
(* How an install or a refusal reaches the tasks that await it.            *)
(*                                                                         *)
(* Source: the Wake of dynamic-config-python/src/config/inner.rs and the   *)
(* waits of src/config/mod.rs (a counter, a condition variable, a flag that *)
(* release() raises), the notifier threads of                              *)
(* python/dynamic_config/_notify.py that park in those waits, and the      *)
(* streams of _config.py that await them: changes(), changed_async() and   *)
(* events().                                                               *)
(*                                                                         *)
(* Installs are numbered; a model is the number of its install, 0 is none. *)
(* One install runs at a time here: how installs race each other is the    *)
(* subject of Publish.                                                     *)
(***************************************************************************)
EXTENDS Integers, FiniteSets

CONSTANTS Followers,     \* tasks iterating changes()
          Singles,       \* tasks in one changed_async()
          Auditors,      \* tasks iterating events()
          Programs,      \* the sets of tasks one program may run together
          MaxInstalls,   \* bound on the installs
          MaxRefusals,   \* bound on the refused reloads
          HasGIL,        \* TRUE: attached Rust code excludes other threads
          MayRelease,    \* TRUE: release() may run
          NoFuture,      \* a task without a future
          Pending        \* a future nobody has resolved

Tasks == Followers \cup Singles \cup Auditors

\* The two notifiers of a configuration, each with a thread of its own.
Notifiers == {"changes", "events"}
NotifierOf(c) == IF c \in Auditors THEN "events" ELSE "changes"

ASSUME TaskAssumption ==
    /\ Followers \cap Singles = {}
    /\ (Followers \cup Singles) \cap Auditors = {}
    /\ Programs \subseteq SUBSET Tasks
    /\ MaxInstalls \in Nat /\ MaxRefusals \in Nat
    /\ HasGIL \in BOOLEAN /\ MayRelease \in BOOLEAN
    /\ NoFuture # Pending
    /\ {NoFuture, Pending} \cap [at : [generation : Nat, refusals : Nat], model : Nat] = {}

VARIABLES
    cache,        \* Inner.cache
    generation,   \* Wake.generation
    refusals,     \* Wake.refusals
    closed,       \* Wake.closed
    mutex,        \* the notifier holding the generation lock, or "free"
    cached,       \* DynamicConfig._cached
    installing,   \* how far the running install is
    releasing,    \* how far release() is
    waiters,      \* Notifier._waiters: the tasks with a future in the list
    thread,       \* where each notifier's thread is; "none" is not alive
    seen,         \* the counters each thread has seen
    answer,       \* what each thread's wait answered
    stage,        \* where each task is
    noted,        \* the counters each task has noted
    future,       \* each task's future
    got           \* the last model each task was given

wakeVars   == <<cache, generation, refusals, closed, mutex>>
threadVars == <<thread, seen, answer>>
taskVars   == <<stage, noted, future, got>>
vars == <<wakeVars, cached, installing, releasing, waiters, threadVars, taskVars>>

Counters == [generation : Nat, refusals : Nat]
Now == [generation |-> generation, refusals |-> refusals]

\* What a wait answers and a future is resolved with: the counters reached and
\* the model read afterwards, or Released.
Wakes == [at : Counters, model : Nat]
Released == [at |-> [generation |-> 0, refusals |-> 0], model |-> 0]

ThreadSteps == {"none", "check", "sleep", "asleep", "read", "resolve", "empty",
                "dying"}
Stages == {"start", "register", "check", "read", "await", "ended", "cancelled"}

TypeOK ==
    /\ cache \in Nat /\ generation \in Nat /\ refusals \in Nat /\ cached \in Nat
    /\ closed \in BOOLEAN
    /\ mutex \in Notifiers \cup {"free"}
    /\ installing \in {"idle", "written", "announced"}
    /\ releasing \in {"no", "emptied", "closed", "done"}
    /\ waiters \in [Notifiers -> SUBSET Tasks]
    /\ thread \in [Notifiers -> ThreadSteps]
    /\ seen \in [Notifiers -> Counters]
    /\ answer \in [Notifiers -> Wakes]
    /\ stage \in [Tasks -> Stages]
    /\ noted \in [Tasks -> Counters]
    /\ future \in [Tasks -> Wakes \cup {NoFuture, Pending}]
    /\ got \in [Tasks -> Nat]

Init ==
    /\ cache \in {0, 1} /\ generation = cache /\ cached = cache
    /\ closed = FALSE
    /\ mutex = "free"
    /\ installing = "idle"
    /\ releasing = "no"
    /\ waiters = [k \in Notifiers |-> {}]
    /\ thread = [k \in Notifiers |-> "none"]
    /\ seen = [k \in Notifiers |-> [generation |-> 0, refusals |-> 0]]
    /\ answer = [k \in Notifiers |-> Released]
    \* A bound: in a program that listens to no refusal, none is still to come.
    /\ \E running \in Programs :
          /\ stage = [c \in Tasks |-> IF c \in running THEN "start" ELSE "ended"]
          /\ refusals = IF running \cap Auditors = {} THEN MaxRefusals ELSE 0
    /\ noted = [c \in Tasks |-> [generation |-> 0, refusals |-> 0]]
    /\ future = [c \in Tasks |-> NoFuture]
    /\ got = [c \in Tasks |-> 0]

-----------------------------------------------------------------------------
(* The configuration.                                                       *)

\* Under a GIL nobody attached takes a step between the write of the cache and
\* the announcement, nor inside release(): no Python runs in between.
Attached == HasGIL => installing # "written" /\ releasing \in {"no", "done"}

\* notify_all: every sleeping thread looks again.
NotifyAll == thread' = [k \in Notifiers |->
                          IF thread[k] = "asleep" THEN "check" ELSE thread[k]]

\* The install writes the cache ...
WriteCache ==
    /\ installing = "idle" /\ releasing = "no"
    /\ generation < MaxInstalls
    /\ cache' = generation + 1
    /\ installing' = "written"
    /\ UNCHANGED <<generation, refusals, closed, mutex, cached, releasing, waiters,
                   threadVars, taskVars>>

\* ... moves the generation and notifies, under its lock ...
Announce ==
    /\ installing = "written"
    /\ mutex = "free"
    /\ generation' = generation + 1
    /\ installing' = "announced"
    /\ NotifyAll
    /\ UNCHANGED <<cache, refusals, closed, mutex, cached, releasing, waiters, seen,
                   answer, taskVars>>

\* ... and its first hook copies the model onto the Python object.
PublishHook ==
    /\ installing = "announced"
    /\ cached' = generation
    /\ installing' = "idle"
    /\ UNCHANGED <<wakeVars, releasing, waiters, threadVars, taskVars>>

\* The engine's failure hook: the refusal counter moves under the same lock.
Refuse ==
    /\ releasing = "no"
    /\ refusals < MaxRefusals
    /\ mutex = "free"
    /\ refusals' = refusals + 1
    /\ NotifyAll
    /\ UNCHANGED <<cache, generation, closed, mutex, cached, installing, releasing,
                   waiters, seen, answer, taskVars>>

\* release(), at exit: the cache is emptied ...
EmptyCache ==
    /\ MayRelease
    /\ releasing = "no" /\ installing = "idle"
    /\ cache' = 0
    /\ releasing' = "emptied"
    /\ UNCHANGED <<generation, refusals, closed, mutex, cached, installing, waiters,
                   threadVars, taskVars>>

\* ... the flag is stored, without the lock ...
Close ==
    /\ releasing = "emptied"
    /\ closed' = TRUE
    /\ releasing' = "closed"
    /\ UNCHANGED <<cache, generation, refusals, mutex, cached, installing, waiters,
                   threadVars, taskVars>>

\* ... and whoever is asleep by then is woken.
NotifyClosed ==
    /\ releasing = "closed"
    /\ NotifyAll
    /\ releasing' = "done"
    /\ UNCHANGED <<wakeVars, cached, installing, waiters, seen, answer, taskVars>>

-----------------------------------------------------------------------------
(* A notifier's thread.  It waits in wait_for_change or wait_for_event, with *)
(* no timeout and detached from the interpreter.                            *)

Goto(k, step) == thread' = [thread EXCEPT ![k] = step]

\* What ends the wait of this notifier: its counters, never the other's.
Moved(k) ==
    \/ generation > seen[k].generation
    \/ k = "events" /\ refusals > seen[k].refusals

\* With the lock held the predicate is false: the thread is about to sleep.
KeepWaiting(k) ==
    /\ thread[k] = "check"
    /\ mutex = "free"
    /\ ~Moved(k) /\ ~closed
    /\ mutex' = k
    /\ Goto(k, "sleep")
    /\ UNCHANGED <<cache, generation, refusals, closed, cached, installing, releasing,
                   waiters, seen, answer, taskVars>>

\* Condvar::wait releases the lock and sleeps in one step.
Sleep(k) ==
    /\ thread[k] = "sleep"
    /\ mutex' = "free"
    /\ Goto(k, "asleep")
    /\ UNCHANGED <<cache, generation, refusals, closed, cached, installing, releasing,
                   waiters, seen, answer, taskVars>>

\* The predicate is true: the counters reached are the answer's.
StopWaiting(k) ==
    /\ thread[k] = "check"
    /\ mutex = "free"
    /\ Moved(k) \/ closed
    /\ answer' = [answer EXCEPT ![k] = [at |-> Now, model |-> 0]]
    /\ Goto(k, "read")
    /\ UNCHANGED <<wakeVars, cached, installing, releasing, waiters, seen, taskVars>>

\* Mutant: a wait that a refusal ended answers like one that a release ended.
AnswerInstallsOnly(k, model) ==
    IF answer[k].at.generation > seen[k].generation /\ model # 0
    THEN [at |-> answer[k].at, model |-> model]
    ELSE Released

\* What the wait answers once the thread is attached again and reads the cache.
\* Nothing moved, or nothing is cached any more, is how a release looks; a
\* refusal alone carries no model.
Answer(k, model) ==
    LET reached == answer[k].at
        newer   == reached.generation > seen[k].generation
        refused == k = "events" /\ reached.refusals > seen[k].refusals
    IN  IF newer /\ model # 0                      THEN [at |-> reached, model |-> model]
        ELSE IF refused \/ (newer /\ k = "events") THEN [at |-> reached, model |-> 0]
                                                   ELSE Released

\* Mutant: the model is the one the Python object holds.
ReadPythonCopy(k) ==
    LET wake == Answer(k, cached) IN
    /\ thread[k] = "read"
    /\ Attached
    /\ answer' = [answer EXCEPT ![k] = wake]
    /\ seen' = [seen EXCEPT ![k] = IF wake = Released THEN @ ELSE wake.at]
    /\ Goto(k, "resolve")
    /\ UNCHANGED <<wakeVars, cached, installing, releasing, waiters, taskVars>>

ReadCache(k) ==
    LET wake == Answer(k, cache) IN
    /\ thread[k] = "read"
    /\ Attached
    /\ answer' = [answer EXCEPT ![k] = wake]
    /\ seen' = [seen EXCEPT ![k] = IF wake = Released THEN @ ELSE wake.at]
    /\ Goto(k, "resolve")
    /\ UNCHANGED <<wakeVars, cached, installing, releasing, waiters, taskVars>>

\* _resolve_all: the list is taken under the notifier's lock and each future is
\* settled on its loop, unless its task has cancelled it.  After a release the
\* thread returns, and is alive until it has.
ResolveAll(k) ==
    /\ thread[k] = "resolve"
    /\ Attached
    /\ waiters' = [waiters EXCEPT ![k] = {}]
    /\ future' = [c \in Tasks |-> IF c \in waiters[k] /\ future[c] = Pending
                                  THEN answer[k] ELSE future[c]]
    /\ Goto(k, IF answer[k] = Released THEN "dying" ELSE "empty")
    /\ answer' = [answer EXCEPT ![k] = Released]
    /\ UNCHANGED <<wakeVars, cached, installing, releasing, seen, stage, noted, got>>

\* Mutant: the thread does not look whether somebody registered meanwhile.
EndAlways(k) ==
    /\ thread[k] = "empty"
    /\ Attached
    /\ Goto(k, "none")
    /\ UNCHANGED <<wakeVars, cached, installing, releasing, waiters, seen, answer,
                   taskVars>>

\* Nobody registered meanwhile: under the notifier's lock the thread ends.
EndIdle(k) ==
    /\ thread[k] = "empty"
    /\ Attached
    /\ Goto(k, IF waiters[k] = {} THEN "none" ELSE "check")
    /\ UNCHANGED <<wakeVars, cached, installing, releasing, waiters, seen, answer,
                   taskVars>>

Die(k) ==
    /\ thread[k] = "dying"
    /\ Goto(k, "none")
    /\ UNCHANGED <<wakeVars, cached, installing, releasing, waiters, seen, answer,
                   taskVars>>

-----------------------------------------------------------------------------
(* A task.                                                                  *)

Proceed(c, step) == stage' = [stage EXCEPT ![c] = step]

\* The stream's own baseline.
Begin(c) ==
    /\ stage[c] = "start"
    /\ Attached
    /\ noted' = [noted EXCEPT ![c] = Now]
    /\ Proceed(c, "register")
    /\ UNCHANGED <<wakeVars, cached, installing, releasing, waiters, threadVars, future,
                   got>>

\* Notifier.wait, under the notifier's lock: the future joins the list, and a
\* thread is started if none is alive, from the counters of right now.
Register(c) ==
    LET k == NotifierOf(c) IN
    /\ stage[c] = "register"
    /\ Attached
    /\ waiters' = [waiters EXCEPT ![k] = @ \cup {c}]
    /\ future' = [future EXCEPT ![c] = Pending]
    /\ IF thread[k] = "none" THEN Goto(k, "check") /\ seen' = [seen EXCEPT ![k] = Now]
                             ELSE UNCHANGED <<thread, seen>>
    /\ Proceed(c, "check")
    /\ UNCHANGED <<wakeVars, cached, installing, releasing, answer, noted, got>>

\* Something this task has not noted yet.
News(c) ==
    \/ generation > noted[c].generation
    \/ c \in Auditors /\ refusals > noted[c].refusals

\* Mutant: the counters are not read again once the future is registered.
RecheckNothing(c) ==
    /\ stage[c] = "check"
    /\ Attached
    /\ Proceed(c, "await")
    /\ UNCHANGED <<wakeVars, cached, installing, releasing, waiters, threadVars, noted,
                   future, got>>

\* The counters are read again.  If they moved the future is cancelled, though
\* it stays in the list, and the task goes by what it read itself.
Recheck(c) ==
    /\ stage[c] = "check"
    /\ Attached
    /\ IF News(c) THEN /\ future' = [future EXCEPT ![c] = [at |-> Now, model |-> 0]]
                       /\ Proceed(c, "read")
                  ELSE /\ Proceed(c, "await")
                       /\ UNCHANGED future
    /\ UNCHANGED <<wakeVars, cached, installing, releasing, waiters, threadVars, noted,
                   got>>

\* What a task makes of a wake w: a stream reports what is newer than it noted
\* and registers again, a single shot is over.
Take(c, w) ==
    LET newer == w.at.generation > noted[c].generation
        model == w.model
    IN  /\ future' = [future EXCEPT ![c] = NoFuture]
        /\ IF w = Released \/ (newer /\ model = 0)
           THEN Proceed(c, "ended") /\ UNCHANGED got
           ELSE /\ Proceed(c, IF c \in Singles THEN "ended" ELSE "register")
                /\ got' = [got EXCEPT ![c] = IF newer \/ c \in Singles THEN model ELSE @]
        /\ noted' = [noted EXCEPT ![c] =
               [generation |-> IF newer THEN w.at.generation ELSE noted[c].generation,
                refusals |-> IF c \in Auditors /\ w.at.refusals > noted[c].refusals
                             THEN w.at.refusals ELSE noted[c].refusals]]

\* try_current(): the model comes from the Python object.
ReadCached(c) ==
    /\ stage[c] = "read"
    /\ Attached
    /\ Take(c, [future[c] EXCEPT !.model = cached])
    /\ UNCHANGED <<wakeVars, cached, installing, releasing, waiters, threadVars>>

\* The awaited future was resolved.
Wake(c) ==
    /\ stage[c] = "await"
    /\ future[c] # Pending
    /\ Attached
    /\ Take(c, future[c])
    /\ UNCHANGED <<wakeVars, cached, installing, releasing, waiters, threadVars>>

\* A timeout of changed_async(), or the cancellation of any task that awaits.
GiveUp(c) ==
    /\ stage[c] = "await"
    /\ Attached
    /\ future' = [future EXCEPT ![c] = NoFuture]
    /\ Proceed(c, "cancelled")
    /\ UNCHANGED <<wakeVars, cached, installing, releasing, waiters, threadVars, noted,
                   got>>

-----------------------------------------------------------------------------

Install == WriteCache \/ Announce \/ PublishHook

Release == EmptyCache \/ Close \/ NotifyClosed

Run(k) ==
    \/ KeepWaiting(k) \/ Sleep(k) \/ StopWaiting(k) \/ ReadCache(k)
    \/ ResolveAll(k) \/ EndIdle(k) \/ Die(k)

Follow(c) == Begin(c) \/ Register(c) \/ Recheck(c) \/ ReadCached(c) \/ Wake(c)

Next ==
    \/ Install \/ Refuse \/ Release
    \/ \E k \in Notifiers : Run(k)
    \/ \E c \in Tasks : Follow(c) \/ GiveUp(c)

Spec == Init /\ [][Next]_vars

\* Threads are scheduled and loops run; an install that began goes on, and
\* release(), once begun, returns.
FairSpec ==
    /\ Spec
    /\ WF_vars(Announce) /\ WF_vars(PublishHook)
    /\ WF_vars(Close) /\ WF_vars(NotifyClosed)
    /\ \A k \in Notifiers : WF_vars(Run(k))
    /\ \A c \in Tasks : WF_vars(Follow(c))

-----------------------------------------------------------------------------
(* Properties.                                                              *)

\* A thread never sleeps on something it has to report: nothing its wait
\* watches has moved past what it has seen (the predicate is read, and both
\* counters move, under one lock).
NoLostWakeup == \A k \in Notifiers : thread[k] \in {"sleep", "asleep"} => ~Moved(k)

\* A future somebody awaits is in a list a live thread will resolve, or is
\* resolved, until the configuration is released.
WaitersAreServed ==
    \A c \in Tasks : stage[c] = "await" /\ future[c] = Pending /\ releasing = "no" =>
        c \in waiters[NotifierOf(c)] /\ thread[NotifierOf(c)] # "none"

\* The model that rides with a wake is never older than the generation that
\* rides with it.
WakeIsCurrent ==
    \A c \in Tasks : stage[c] = "await" /\ future[c] # Pending /\ future[c].model # 0
        => future[c].model >= future[c].at.generation

\* A stream on a loaded configuration ends only when it is cancelled or the
\* configuration is released, never because of what a wake carried.
EndsOnlyByRelease ==
    [][\A c \in Followers \cup Auditors :
          stage[c] # "ended" /\ stage'[c] = "ended" /\ cached # 0
              => releasing # "no"]_vars

Over(c) == stage[c] \in {"ended", "cancelled"} \/ releasing # "no"

\* Every install and every refusal is noticed by each stream that still runs.
StreamsCatchUp ==
    /\ \A c \in Followers \cup Auditors, n \in 1..MaxInstalls :
          stage[c] # "start" /\ releasing = "no" /\ generation >= n
            ~> Over(c) \/ noted[c].generation >= n
    /\ \A c \in Auditors, r \in 1..MaxRefusals :
          stage[c] # "start" /\ releasing = "no" /\ refusals >= r
            ~> Over(c) \/ noted[c].refusals >= r

\* What the comments of the repository say of it.

\* "Latest wins, so what it gets is what is installed" (_config.py, changes):
\* a stream that has caught up and waits was last given the installed model.
LatestWins ==
    \A c \in Followers :
        stage[c] = "await" /\ future[c] = Pending /\ installing = "idle"
          /\ releasing = "no" /\ noted[c].generation = generation /\ got[c] # 0
        => got[c] = cache

\* "Every waiter ends here" (mod.rs, release): the notifier threads of a
\* released configuration end.
ReleaseEndsThreads == \A k \in Notifiers : closed ~> thread[k] = "none"

=============================================================================
