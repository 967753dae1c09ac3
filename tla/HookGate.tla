------------------------------ MODULE HookGate ------------------------------
(***************************************************************************)
(* A reload hook that does not run on the installing thread, and what it    *)
(* does when installs arrive faster than it finishes.                      *)
(*                                                                         *)
(* Source: _Gate and the two dispatchers of                                *)
(* python/dynamic_config/_config.py, the policies of _dispatch.py.         *)
(*                                                                         *)
(* One registered hook is modelled.  Its calls are numbered by the install *)
(* they are about.  On the executor the gate's lock covers the decision    *)
(* only, and the call is started after it; on a loop everything from the   *)
(* callback on happens in one turn of the loop.                            *)
(***************************************************************************)
EXTENDS Integers, Sequences, FiniteSets, SequencesExt

CONSTANTS MaxInstalls,   \* bound on the installs
          MaxRounds,     \* hook rounds that may be under way at once
          MayDie         \* TRUE: a call may end without calling finished()

ASSUME BoundsAssumption ==
    MaxInstalls \in Nat /\ MaxRounds \in Nat /\ MayDie \in BOOLEAN

Installs == 1..MaxInstalls

VARIABLES
    dispatch,    \* where the hook runs: "executor" or "asyncio"
    policy,      \* Backpressure
    running,     \* _Gate._running
    queue,       \* _Gate._queue
    inbox,       \* the callbacks posted to the loop, oldest first
    task,        \* the last task of the asyncio dispatcher, 0 before any
    call,        \* where the call of each install is
    cancelled,   \* the calls whose task was cancelled
    \* History, read by no action.
    submitted,   \* the calls in the order the gate saw them
    begun        \* the calls in the order they were started

gateVars == <<running, queue>>
loopVars == <<inbox, task, cancelled>>
history  == <<submitted, begun>>
vars == <<dispatch, policy, gateVars, loopVars, call, history>>

\* A call is posted by the hook round; scheduled on the loop; queued at the
\* gate, and superseded there by a newer one; about to be started, by the round
\* or by the call before it; live; ended, with finished() still to come; and
\* over, with finished() called or without.
Stages == {"none", "posted", "scheduled", "queued", "superseded", "starting",
           "restarting", "live", "ended", "done", "dead"}

\* The policies under which the gate lets one call run at a time.
OneByOne == {"latest", "serial"}

TypeOK ==
    /\ dispatch \in {"executor", "asyncio"}
    /\ policy \in {"every", "latest", "serial", "cancel_previous"}
    /\ running \in BOOLEAN
    /\ queue \in Seq(Installs)
    /\ inbox \in Seq(Installs)
    /\ task \in Installs \cup {0}
    /\ call \in [Installs -> Stages]
    /\ cancelled \subseteq Installs
    /\ submitted \in Seq(Installs)
    /\ begun \in Seq(Installs)

\* _wrap_hook: a thread cannot be cancelled.
Init ==
    /\ dispatch \in {"executor", "asyncio"}
    /\ policy \in {"every", "latest", "serial", "cancel_previous"}
    /\ policy = "cancel_previous" => dispatch = "asyncio"
    /\ running = FALSE
    /\ queue = <<>>
    /\ inbox = <<>>
    /\ task = 0
    /\ call = [n \in Installs |-> "none"]
    /\ cancelled = {}
    /\ submitted = <<>>
    /\ begun = <<>>

Goto(n, stage) == call' = [call EXCEPT ![n] = stage]

-----------------------------------------------------------------------------
(* The hook round of an install calls what was registered.                  *)

\* A model is installed and its hook round reaches the hook.
Install(n) ==
    /\ call[n] = "none"
    /\ \A m \in 1..(n - 1) : call[m] # "none"
    /\ Cardinality({m \in Installs : call[m] \in {"posted", "starting"}}) < MaxRounds
    /\ Goto(n, "posted")
    /\ UNCHANGED <<dispatch, policy, gateVars, loopVars, history>>

\* The asyncio dispatcher: loop.call_soon_threadsafe(on_loop).
Post(n) ==
    /\ dispatch = "asyncio"
    /\ call[n] = "posted"
    /\ inbox' = Append(inbox, n)
    /\ Goto(n, "scheduled")
    /\ UNCHANGED <<dispatch, policy, gateVars, task, cancelled, history>>

\* The call reaches the gate: on the installing thread, or in its turn on the
\* loop.
Arrives(n) ==
    /\ submitted' = Append(submitted, n)
    /\ \/ dispatch = "executor" /\ call[n] = "posted" /\ UNCHANGED inbox
       \/ /\ dispatch = "asyncio" /\ inbox # <<>> /\ n = Head(inbox)
          /\ inbox' = Tail(inbox)

\* ... and may start.  On the loop it starts at once, as a task.
Admit(n) ==
    IF dispatch = "executor"
    THEN Goto(n, "starting") /\ UNCHANGED <<task, begun>>
    ELSE Goto(n, "live") /\ task' = n /\ begun' = Append(begun, n)

SubmitEvery(n) ==
    /\ policy = "every"
    /\ Arrives(n)
    /\ Admit(n)
    /\ UNCHANGED <<dispatch, policy, gateVars, cancelled>>

\* Mutant: the gate does not note that a call is running.
SubmitUnmarked(n) ==
    /\ policy \in OneByOne
    /\ ~running
    /\ Arrives(n)
    /\ Admit(n)
    /\ UNCHANGED <<dispatch, policy, gateVars, cancelled>>

SubmitIdle(n) ==
    /\ policy \in OneByOne
    /\ ~running
    /\ running' = TRUE
    /\ Arrives(n)
    /\ Admit(n)
    /\ UNCHANGED <<dispatch, policy, queue, cancelled>>

\* Mutant: the call already waiting is kept, the new one dropped.
SubmitOldest(n) ==
    /\ policy = "latest"
    /\ running
    /\ Arrives(n)
    /\ queue' = IF queue = <<>> THEN <<n>> ELSE queue
    /\ Goto(n, IF queue = <<>> THEN "queued" ELSE "superseded")
    /\ UNCHANGED <<dispatch, policy, running, task, cancelled, begun>>

\* latest: one slot, overwritten.
SubmitLatest(n) ==
    /\ policy = "latest"
    /\ running
    /\ Arrives(n)
    /\ queue' = <<n>>
    /\ call' = [m \in Installs |-> IF m = n THEN "queued"
                                   ELSE IF m \in Range(queue) THEN "superseded"
                                   ELSE call[m]]
    /\ UNCHANGED <<dispatch, policy, running, task, cancelled, begun>>

SubmitSerial(n) ==
    /\ policy = "serial"
    /\ running
    /\ Arrives(n)
    /\ queue' = Append(queue, n)
    /\ Goto(n, "queued")
    /\ UNCHANGED <<dispatch, policy, running, task, cancelled, begun>>

\* Mutant: the call still running is left alone.
SubmitBeside(n) ==
    /\ policy = "cancel_previous"
    /\ Arrives(n)
    /\ Admit(n)
    /\ UNCHANGED <<dispatch, policy, gateVars, cancelled>>

\* cancel_previous: the dispatcher keeps the last task only, cancels it if it
\* is not done, and starts the new one past the gate.
SubmitCancelling(n) ==
    /\ policy = "cancel_previous"
    /\ Arrives(n)
    /\ cancelled' = cancelled \cup {m \in {task} \ {0} : call[m] = "live"}
    /\ Admit(n)
    /\ UNCHANGED <<dispatch, policy, gateVars>>

-----------------------------------------------------------------------------
(* A call.                                                                  *)

\* The executor dispatcher hands the call to the pool, or to a new thread.
Start(n) ==
    /\ call[n] \in {"starting", "restarting"}
    /\ begun' = Append(begun, n)
    /\ Goto(n, "live")
    /\ UNCHANGED <<dispatch, policy, gateVars, loopVars, submitted>>

\* The pool was shut down, or no thread could be started: submit raises and the
\* gate is left as it was.
StartFails(n) ==
    /\ MayDie
    /\ call[n] \in {"starting", "restarting"}
    /\ Goto(n, "dead")
    /\ UNCHANGED <<dispatch, policy, gateVars, loopVars, history>>

\* The hook returned or raised an Exception, which is reported.
Return(n) ==
    /\ dispatch = "executor"
    /\ call[n] = "live"
    /\ Goto(n, "ended")
    /\ UNCHANGED <<dispatch, policy, gateVars, loopVars, history>>

\* The hook ended with what `except Exception` does not catch: SystemExit, or
\* the CancelledError of a task nobody superseded.
Die(n) ==
    /\ MayDie
    /\ call[n] = "live"
    /\ Goto(n, "dead")
    /\ UNCHANGED <<dispatch, policy, gateVars, loopVars, history>>

\* A cancelled task ends at its next await, unless its hook absorbs the
\* cancellation.
Cancelled(n) ==
    /\ n \in cancelled
    /\ call[n] = "live"
    /\ Goto(n, "dead")
    /\ UNCHANGED <<dispatch, policy, gateVars, loopVars, history>>

\* gate.finished(): on the loop, in the turn in which the hook ended.
Ending(n) == call[n] = IF dispatch = "executor" THEN "ended" ELSE "live"

FinishIdle(n) ==
    /\ Ending(n)
    /\ queue = <<>>
    /\ running' = FALSE
    /\ Goto(n, "done")
    /\ UNCHANGED <<dispatch, policy, queue, loopVars, history>>

\* Mutant: queue.pop() where queue.pop(0) belongs.
FinishLast(n) ==
    /\ Ending(n)
    /\ queue # <<>>
    /\ queue' = Front(queue)
    /\ IF dispatch = "executor"
       THEN /\ call' = [call EXCEPT ![n] = "done", ![Last(queue)] = "restarting"]
            /\ UNCHANGED <<task, begun>>
       ELSE /\ call' = [call EXCEPT ![n] = "done", ![Last(queue)] = "live"]
            /\ task' = Last(queue)
            /\ begun' = Append(begun, Last(queue))
    /\ UNCHANGED <<dispatch, policy, running, inbox, cancelled, submitted>>

FinishNext(n) ==
    /\ Ending(n)
    /\ queue # <<>>
    /\ queue' = Tail(queue)
    /\ IF dispatch = "executor"
       THEN /\ call' = [call EXCEPT ![n] = "done", ![Head(queue)] = "restarting"]
            /\ UNCHANGED <<task, begun>>
       ELSE /\ call' = [call EXCEPT ![n] = "done", ![Head(queue)] = "live"]
            /\ task' = Head(queue)
            /\ begun' = Append(begun, Head(queue))
    /\ UNCHANGED <<dispatch, policy, running, inbox, cancelled, submitted>>

-----------------------------------------------------------------------------

Submit(n) ==
    \/ SubmitEvery(n) \/ SubmitIdle(n) \/ SubmitLatest(n) \/ SubmitSerial(n)
    \/ SubmitCancelling(n)

Finish(n) == FinishIdle(n) \/ FinishNext(n)

Progress(n) ==
    \/ Post(n) \/ Submit(n) \/ Start(n) \/ Return(n) \/ Cancelled(n) \/ Finish(n)

Next == \E n \in Installs : Install(n) \/ Progress(n) \/ StartFails(n) \/ Die(n)

Spec == Init /\ [][Next]_vars

\* Rounds and pool threads are scheduled, the loop runs, and hooks end.
FairSpec == Spec /\ \A n \in Installs : WF_vars(Progress(n))

-----------------------------------------------------------------------------
(* Properties.                                                              *)

\* Let through by the gate, and finished() still to be called.
Active(n) == call[n] \in {"starting", "restarting", "live", "ended"}
Dead(n) == call[n] = "dead"

\* Under latest and serial no call is let through while another one is.
OneAtATime ==
    policy \in OneByOne =>
        \A m, n \in Installs : Active(m) /\ Active(n) => m = n

\* Unless a call died, the gate's flag is up exactly while a call is let
\* through, and whatever is queued waits behind such a call: nothing is
\* stranded behind an idle gate.
FlagIsTrue ==
    policy \in OneByOne /\ (\A n \in Installs : ~Dead(n)) =>
        /\ running <=> \E n \in Installs : Active(n)
        /\ queue # <<>> => running

\* Under latest and serial the calls are started in the order in which the gate
\* saw them.
StartedInOrder ==
    policy \in OneByOne =>
        \A i, j \in 1..Len(begun), k, l \in 1..Len(submitted) :
            i < j /\ submitted[k] = begun[i] /\ submitted[l] = begun[j] => k < l

\* cancel_previous: a call that is not the newest has been cancelled.
SupersededAreCancelled ==
    policy = "cancel_previous" =>
        \A n \in Installs : call[n] = "live" => n = task \/ n \in cancelled

\* Under every and serial each install's hook is started; under latest it is,
\* or the hook of an install the gate saw later, as long as no call dies.
NewsIsDelivered ==
    \A n \in Installs :
        call[n] = "posted" ~>
            \/ \E m \in Installs : Dead(m)
            \/ n \in Range(begun)
            \/ policy = "latest" /\ \E i, j \in 1..Len(submitted) :
                   i < j /\ submitted[i] = n /\ submitted[j] \in Range(begun)

\* What the comments of the repository say of it.

\* "dropping nothing" (_dispatch.py, SERIAL): a queued call is run.
SerialDropsNothing ==
    \A n \in Installs : policy = "serial" /\ call[n] = "queued" ~> call[n] # "queued"

=============================================================================
