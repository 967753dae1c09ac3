------------------------------ MODULE RemoteSlot ------------------------------
(***************************************************************************)
(* Reading a remote store that is a Python object: one slot for the object,*)
(* one for what its last fetch raised, and a courier that carries what an  *)
(* asynchronous store answered from a loop to the engine.                  *)
(*                                                                         *)
(* Source: src/remote.rs, the remote calls of src/config/mod.rs and        *)
(* python/dynamic_config/_config.py, _AwaitedDocument of _remote.py.       *)
(*                                                                         *)
(* No lock is held across a refresh.  A call is one refresh; a document is *)
(* named by the call whose fetch answered it and the source it came from,  *)
(* an exception by the call whose fetch raised it.                         *)
(*                                                                         *)
(* The courier takes its document with a load and a store that nothing     *)
(* holds together, so any step may fall between the two: that is what a    *)
(* free-threaded build does, and what holds here holds with a GIL.         *)
(***************************************************************************)
EXTENDS Integers

CONSTANTS Calls,        \* the refreshes
          MaxSources,   \* bound on the sources ever installed
          None          \* no document, no exception

ASSUME RemoteAssumption ==
    /\ MaxSources \in Nat
    /\ None \notin Calls \cup [by : Calls, from : 1..MaxSources]

Sources == 1..MaxSources

VARIABLES
    kind,        \* whether a source is a RemoteSource or an AsyncRemoteSource
    last,        \* the last source given to remote()
    swapping,    \* the source remote() is about to install, 0 if none
    bridge,      \* _async_remote: the courier's source, 0 if None
    object,      \* PySource.object, 0 if None
    failure,     \* PySource.failure
    courier,     \* _document of the courier of each source
    document,    \* what the engine keeps for the next load
    pc,
    target,      \* the source a call awaits or fetches from
    answer,      \* the document the engine got from a call's fetch
    raised,      \* how a call's fetch failed
    cause,       \* the exception attached to what the call raised
    \* History, read by no action.
    overlapped,  \* the calls that ran beside another, or beside a swap
    raced        \* the calls that took a document from a courier beside another

sourceVars == <<kind, last, swapping, bridge, object>>
slotVars   == <<failure, courier, document>>
callVars   == <<pc, target, answer, raised, cause>>
historyVars == <<overlapped, raced>>
vars == <<sourceVars, slotVars, callVars, historyVars>>

Documents == [by : Calls, from : Sources]
Answers == Documents \cup {None}
Exceptions == Calls \cup {None}

\* A fetch did not fail; it raised; it answered something that is no document;
\* the courier had none; or the call ended without one: used on the wrong kind
\* of store, failed while awaited, or cancelled.
Failures == {"no", "raised", "refused", "spurious", "ended"}

TypeOK ==
    /\ kind \in [Sources -> {"sync", "async"}]
    /\ last \in 0..MaxSources /\ swapping \in 0..MaxSources
    /\ bridge \in 0..MaxSources /\ object \in 0..MaxSources
    /\ failure \in Exceptions
    /\ courier \in [Sources -> Answers]
    /\ document \in Answers
    /\ pc \in [Calls -> {"idle", "awaiting", "queued", "detached", "fetching",
                         "taking", "answered", "failed", "returned"}]
    /\ target \in [Calls -> 0..MaxSources]
    /\ answer \in [Calls -> Answers]
    /\ raised \in [Calls -> Failures]
    /\ cause \in [Calls -> Exceptions]
    /\ overlapped \subseteq Calls /\ raced \subseteq Calls

Init ==
    /\ kind \in [Sources -> {"sync", "async"}]
    /\ last = 0 /\ swapping = 0 /\ bridge = 0 /\ object = 0
    /\ failure = None
    /\ courier = [s \in Sources |-> None]
    /\ document = None
    /\ pc = [c \in Calls |-> "idle"]
    /\ target = [c \in Calls |-> 0]
    /\ answer = [c \in Calls |-> None]
    /\ raised = [c \in Calls |-> "no"]
    /\ cause = answer
    /\ overlapped = {} /\ raced = {}

At(c, p) == pc[c] = p

\* What the fetch of a call answers.
Document(c) == [by |-> c, from |-> target[c]]
Goto(c, p) == pc' = [pc EXCEPT ![c] = p]
Fails(c, f) == raised' = [raised EXCEPT ![c] = f]
Fetches(c, s) == target' = [target EXCEPT ![c] = s]

Active == {c \in Calls : pc[c] \notin {"idle", "returned"}}

\* The courier the program uses is the one the engine has.
BridgeInstalled ==
    /\ swapping = 0
    /\ bridge = IF object # 0 /\ kind[object] = "async" THEN object ELSE 0

\* What begins beside a call, or on a half-made swap, overlaps it.
Begins(c) ==
    /\ overlapped' = overlapped \cup (IF Active = {} /\ BridgeInstalled THEN {}
                                   ELSE Active \cup {c})
    /\ UNCHANGED raced
Disturbs == overlapped' = overlapped \cup Active /\ UNCHANGED raced

-----------------------------------------------------------------------------
(* Installing, clearing and releasing a store.                             *)

\* remote(): `_async_remote` first, then describe(), which is Python.
SwapBegins ==
    /\ swapping = 0 /\ last < MaxSources
    /\ last' = last + 1
    /\ swapping' = last + 1
    /\ bridge' = IF kind[last + 1] = "async" THEN last + 1 ELSE 0
    /\ Disturbs
    /\ UNCHANGED <<kind, object, slotVars, callVars>>

\* The object, the failure, and the engine's own slot, whose document goes.
SwapInstalls ==
    /\ swapping # 0
    /\ object' = swapping
    /\ swapping' = 0
    /\ failure' = None
    /\ document' = None
    /\ Disturbs
    /\ UNCHANGED <<kind, last, bridge, courier, callVars>>

\* A store without the methods, or whose describe() raises.
SwapFails ==
    /\ swapping # 0
    /\ swapping' = 0
    /\ Disturbs
    /\ UNCHANGED <<kind, last, bridge, object, slotVars, callVars>>

ClearRemote ==
    /\ document # None
    /\ document' = None
    /\ UNCHANGED <<sourceVars, failure, courier, callVars, historyVars>>

Release ==
    /\ object # 0
    /\ object' = 0
    /\ failure' = None
    /\ Disturbs
    /\ UNCHANGED <<kind, last, swapping, bridge, courier, document, callVars>>

-----------------------------------------------------------------------------
(* A refresh.                                                              *)

Refresh(c) ==
    /\ At(c, "idle") /\ bridge = 0
    /\ Goto(c, "detached")
    /\ Begins(c)
    /\ UNCHANGED <<sourceVars, slotVars, target, answer, raised, cause>>

\* RuntimeError: the store is awaited, and there is no loop here.
RefreshMisused(c) ==
    /\ At(c, "idle") /\ bridge # 0
    /\ Goto(c, "returned")
    /\ Fails(c, "ended")
    /\ UNCHANGED <<sourceVars, slotVars, target, answer, cause, historyVars>>

RefreshAsync(c) ==
    /\ At(c, "idle")
    /\ Goto(c, IF bridge = 0 THEN "queued" ELSE "awaiting")
    /\ Fetches(c, bridge)
    /\ Begins(c)
    /\ UNCHANGED <<sourceVars, slotVars, answer, raised, cause>>

\* Mutant: a document still with the courier is kept.
HandOverUnlessKept(c) ==
    /\ At(c, "awaiting")
    /\ courier' = [courier EXCEPT ![target[c]] = IF @ = None THEN Document(c) ELSE @]
    /\ Goto(c, "queued")
    /\ UNCHANGED <<sourceVars, failure, document, target, answer, raised, cause, historyVars>>

\* The awaited document replaces whatever the courier was carrying.
HandOver(c) ==
    /\ At(c, "awaiting")
    /\ courier' = [courier EXCEPT ![target[c]] = Document(c)]
    /\ Goto(c, "queued")
    /\ UNCHANGED <<sourceVars, failure, document, target, answer, raised, cause, historyVars>>

\* The coroutine raises, or the task is cancelled there or before a worker has
\* taken the refresh; what was handed over stays with the courier.
GiveUp(c) ==
    /\ pc[c] \in {"awaiting", "queued"}
    /\ Goto(c, "returned")
    /\ Fails(c, "ended")
    /\ UNCHANGED <<sourceVars, slotVars, target, answer, cause, historyVars>>

Scheduled(c) ==
    /\ At(c, "queued")
    /\ Goto(c, "detached")
    /\ UNCHANGED <<sourceVars, slotVars, target, answer, raised, cause, historyVars>>

\* PyRemoteSource::fetch reads the object of the moment, whatever shim the
\* engine cloned, and forgets what an earlier fetch raised.
EnterFetch(c) ==
    /\ At(c, "detached") /\ object # 0
    /\ Fetches(c, object)
    /\ failure' = None
    /\ Goto(c, "fetching")
    /\ UNCHANGED <<sourceVars, courier, document, answer, raised, cause, historyVars>>

NothingToFetch(c) ==
    /\ At(c, "detached") /\ object = 0
    /\ Fails(c, "refused")
    /\ Goto(c, "failed")
    /\ UNCHANGED <<sourceVars, slotVars, target, answer, cause, historyVars>>

StoreAnswers(c) ==
    /\ At(c, "fetching") /\ kind[target[c]] = "sync"
    /\ answer' = [answer EXCEPT ![c] = Document(c)]
    /\ Goto(c, "answered")
    /\ UNCHANGED <<sourceVars, slotVars, target, raised, cause, historyVars>>

\* The fetches that have read the courier of s and not cleared it.
Taking(s) == {k \in Calls : At(k, "taking") /\ target[k] = s}

\* fetch() of _AwaitedDocument: `document, self._document = self._document, None`
\* loads the document, and any step may come before the store.
CourierReads(c) == LET s == target[c] IN
    /\ At(c, "fetching") /\ kind[s] = "async"
    /\ answer' = [answer EXCEPT ![c] = courier[s]]
    /\ Goto(c, "taking")
    /\ raced' = raced \cup (IF Taking(s) = {} THEN {} ELSE Taking(s) \cup {c})
    /\ UNCHANGED <<sourceVars, slotVars, target, raised, cause, overlapped>>

\* The store, whatever has been handed over or taken since the load.
CourierCleared(c) ==
    /\ At(c, "taking")
    /\ courier' = [courier EXCEPT ![target[c]] = None]

\* Mutant: the document stays with the courier.
CourierKeeps(c) ==
    /\ At(c, "taking") /\ answer[c] # None
    /\ Goto(c, "answered")
    /\ UNCHANGED <<sourceVars, slotVars, target, answer, raised, cause, historyVars>>

CourierAnswers(c) ==
    /\ CourierCleared(c) /\ answer[c] # None
    /\ Goto(c, "answered")
    /\ UNCHANGED <<sourceVars, failure, document, target, answer, raised, cause, historyVars>>

\* PySource::record: the exception waits for the refresh to come back to Python.
Recorded(c, f) ==
    /\ failure' = c
    /\ Fails(c, f)
    /\ Goto(c, "failed")
    /\ UNCHANGED <<sourceVars, document, target, answer, cause, historyVars>>

StoreRaises(c) ==
    /\ At(c, "fetching") /\ kind[target[c]] = "sync"
    /\ Recorded(c, "raised")
    /\ UNCHANGED courier

\* There was none: the store is cleared all the same, and the error says that it
\* has to be awaited.
CourierEmpty(c) ==
    /\ CourierCleared(c) /\ answer[c] = None
    /\ Recorded(c, "spurious")

\* No pair, no text, or no format: an error of the shim's own.
AnswerRefused(c) ==
    /\ At(c, "fetching") /\ kind[target[c]] = "sync"
    /\ Fails(c, "refused")
    /\ Goto(c, "failed")
    /\ UNCHANGED <<sourceVars, slotVars, target, answer, cause, historyVars>>

Kept(c) ==
    /\ At(c, "answered")
    /\ document' = answer[c]
    /\ Goto(c, "returned")
    /\ UNCHANGED <<sourceVars, failure, courier, target, answer, raised, cause,
                   historyVars>>

\* Mutant: the failure is read and left there.
PeekFailure(c) ==
    /\ At(c, "failed")
    /\ cause' = [cause EXCEPT ![c] = failure]
    /\ Goto(c, "returned")
    /\ UNCHANGED <<sourceVars, slotVars, target, answer, raised, historyVars>>

\* remote_failure: whatever the slot holds by now.
TakeFailure(c) ==
    /\ At(c, "failed")
    /\ cause' = [cause EXCEPT ![c] = failure]
    /\ failure' = None
    /\ Goto(c, "returned")
    /\ UNCHANGED <<sourceVars, courier, document, target, answer, raised, historyVars>>

-----------------------------------------------------------------------------

Next ==
    \/ SwapBegins \/ SwapInstalls \/ SwapFails \/ ClearRemote \/ Release
    \/ \E c \in Calls :
        \/ Refresh(c) \/ RefreshMisused(c) \/ RefreshAsync(c)
        \/ HandOver(c) \/ GiveUp(c) \/ Scheduled(c)
        \/ EnterFetch(c) \/ NothingToFetch(c)
        \/ StoreAnswers(c) \/ CourierReads(c)
        \/ CourierAnswers(c) \/ CourierEmpty(c) \/ StoreRaises(c) \/ AnswerRefused(c)
        \/ Kept(c) \/ TakeFailure(c)

Spec == Init /\ [][Next]_vars

-----------------------------------------------------------------------------
(* Properties.                                                             *)

\* An exception never outlives its refresh: what the slot holds was raised by a
\* fetch whose own caller has yet to look, so no later refresh is blamed for it
\* and nothing keeps a traceback alive when no refresh runs.  It becomes the
\* cause of one call at most, and only of a call whose own fetch failed
\* (clear_failure, take_failure, remote_failure).
FailuresAreOwned ==
    /\ failure # None => pc[failure] = "failed"
    /\ \A c, k \in Calls : cause[c] # None =>
        /\ raised[c] # "no" /\ raised[cause[c]] \in {"raised", "spurious"}
        /\ cause[k] = cause[c] => k = c

\* A refresh that nothing overlapped keeps its own document or raises with its
\* own cause, and is never told that its store had to be awaited.
AloneGetsItsOwn ==
    \A c \in Calls \ overlapped : At(c, "returned") /\ raised[c] # "ended" =>
        /\ raised[c] # "spurious"
        /\ raised[c] = "no" => answer[c].by = c
        /\ cause[c] = IF raised[c] = "raised" THEN c ELSE None

\* A document goes to the engine as the document of the store it was read from,
\* whatever was installed while it was awaited, and once at most: two refreshes
\* get the same one only when both were inside fetch() of one courier at a time
\* (hand_over, and fetch of _AwaitedDocument).
DocumentsAreTheStores ==
    \A c, k \in Calls : answer[c] # None =>
        /\ answer[c].from = target[c]
        /\ answer[k] = answer[c] /\ k # c => c \in raced /\ k \in raced

\* What the docstring of _AwaitedDocument says, "Hands one already-awaited document
\* to the engine, once", without that exception (RemoteTwice.cfg): not so.
HandedOnce ==
    \A c, k \in Calls : answer[c] # None /\ answer[k] = answer[c] => k = c

=============================================================================
