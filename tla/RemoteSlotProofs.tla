--------------------------- MODULE RemoteSlotProofs ---------------------------
(***************************************************************************)
(* Proofs about RemoteSlot: its types, who owns the exception in the slot, *)
(* where a document handed over ends up, and what a refresh alone may rely *)
(* on, for any refreshes and sources.                                      *)
(***************************************************************************)
EXTENDS RemoteSlot, TLAPS

USE RemoteAssumption

Unfinished == {"idle", "awaiting", "queued", "detached", "fetching", "taking",
               "answered"}
Raised == {"raised", "spurious"}

\* Who raised what: until it fails a call has raised nothing, the exception in
\* the slot is that of a call which has failed and has not looked, and what was
\* attached is not in the slot any more.
Failing ==
    /\ \A c \in Calls :
        /\ pc[c] \in Unfinished => raised[c] = "no" /\ cause[c] = None
        /\ pc[c] = "failed" => raised[c] # "no" /\ cause[c] = None
        /\ cause[c] # None => /\ raised[c] # "no"
                              /\ pc[cause[c]] \in {"failed", "returned"}
                              /\ raised[cause[c]] \in Raised
                              /\ failure # cause[c]
        /\ \A k \in Calls : cause[c] # None /\ cause[k] = cause[c] => k = c
    /\ failure # None => pc[failure] = "failed" /\ raised[failure] \in Raised

\* Where the documents are: a courier carries one of its own source, read by a
\* call that is past its await; a fetch has the one of the object it read, which
\* its courier may still carry until it has cleared it; and two fetches that have
\* the same took it at one time.
Carrying ==
    /\ bridge # 0 => kind[bridge] = "async"
    /\ \A c \in Calls :
        /\ pc[c] = "awaiting" => target[c] # 0 /\ kind[target[c]] = "async"
        /\ pc[c] = "fetching" => target[c] # 0
        /\ pc[c] = "taking" => target[c] # 0 /\ kind[target[c]] = "async"
        /\ answer[c] # None =>
            /\ pc[c] \in {"taking", "answered", "returned"}
            /\ answer[c].from = target[c]
            /\ kind[target[c]] = "sync" => answer[c].by = c
            /\ kind[target[c]] = "async" => pc[answer[c].by] \notin {"idle", "awaiting"}
        /\ \A k \in Calls : answer[c] # None /\ answer[k] = answer[c] /\ k # c =>
               c \in raced /\ k \in raced
    /\ \A s \in Sources : courier[s] # None =>
        /\ kind[s] = "async" /\ courier[s].from = s
        /\ pc[courier[s].by] \notin {"idle", "awaiting"}
        /\ \A c \in Calls : answer[c] = courier[s] => c \in Taking(s)

SlotInv == TypeOK /\ Failing /\ Carrying

LEMMA Records == \A d \in Documents : d # None /\ d.by \in Calls /\ d.from \in Sources
  BY DEF Documents, Sources

LEMMA InitSlot == Init => SlotInv
  BY DEF Init, SlotInv, TypeOK, Failing, Carrying, Sources, Answers, Exceptions, Failures,
         Unfinished

\* A call that awaits or fetches has something to await or to fetch from.
Targets == \A c \in Calls : pc[c] \in {"awaiting", "fetching", "taking"} => target[c] # 0

LEMMA InitTypes == Init => TypeOK /\ Targets
  BY DEF Init, TypeOK, Targets, Sources, Answers, Exceptions, Failures

LEMMA SlotTypes == TypeOK /\ Targets /\ [Next]_vars => TypeOK' /\ Targets'
<1> SUFFICES ASSUME TypeOK, Targets, [Next]_vars PROVE TypeOK' /\ Targets'
  OBVIOUS
<1> USE DEF TypeOK, Targets, Sources, Answers, Exceptions, Failures, At, Goto, Fails,
            Fetches, sourceVars, slotVars, callVars, historyVars
<1>1. ASSUME SwapBegins \/ SwapInstalls \/ SwapFails \/ ClearRemote \/ Release
      PROVE TypeOK' /\ Targets'
  BY <1>1 DEF SwapBegins, SwapInstalls, SwapFails, ClearRemote, Release, Disturbs, Active
<1>2. ASSUME NEW c \in Calls, Refresh(c) \/ RefreshAsync(c) PROVE TypeOK' /\ Targets'
  <2>1. overlapped' \subseteq Calls /\ raced' \subseteq Calls
    BY <1>2 DEF Refresh, RefreshAsync, Begins, Active
  <2>2. CASE Refresh(c)
    BY <2>1, <2>2 DEF Refresh
  <2>3. CASE RefreshAsync(c)
    <3>1. PICK p \in {"queued", "awaiting"} : pc' = [pc EXCEPT ![c] = p] /\ (p = "awaiting" => bridge # 0)
      BY <2>3 DEF RefreshAsync
    <3>2. target' = [target EXCEPT ![c] = bridge]
      BY <2>3 DEF RefreshAsync
    <3>3. Targets'
      BY <3>1, <3>2
    <3>4. QED
      BY <2>1, <2>3, <3>1, <3>2, <3>3 DEF RefreshAsync
  <2>4. QED
    BY <1>2, <2>2, <2>3
<1>3. ASSUME NEW c \in Calls, RefreshMisused(c) \/ GiveUp(c) \/ Scheduled(c)
      PROVE TypeOK' /\ Targets'
  BY <1>3 DEF RefreshMisused, GiveUp, Scheduled
<1>4. ASSUME NEW c \in Calls, HandOver(c) PROVE TypeOK' /\ Targets'
  <2>1. Document(c) \in Documents
    BY <1>4 DEF HandOver, Document, Documents
  <2>2. courier' \in [Sources -> Answers]
    BY <1>4, <2>1 DEF HandOver
  <2>3. QED
    BY <1>4, <2>2 DEF HandOver
<1>5. ASSUME NEW c \in Calls, EnterFetch(c) \/ NothingToFetch(c) \/ AnswerRefused(c)
      PROVE TypeOK' /\ Targets'
  <2>1. CASE EnterFetch(c)
    BY <2>1 DEF EnterFetch
  <2>2. CASE NothingToFetch(c)
    BY <2>2 DEF NothingToFetch
  <2>3. CASE AnswerRefused(c)
    BY <2>3 DEF AnswerRefused
  <2>4. QED
    BY <1>5, <2>1, <2>2, <2>3
<1>6. ASSUME NEW c \in Calls, Kept(c) \/ TakeFailure(c) PROVE TypeOK' /\ Targets'
  <2>1. CASE Kept(c)
    BY <2>1 DEF Kept
  <2>2. CASE TakeFailure(c)
    BY <2>2 DEF TakeFailure
  <2>3. QED
    BY <1>6, <2>1, <2>2
<1>7. ASSUME NEW c \in Calls, StoreRaises(c) PROVE TypeOK' /\ Targets'
  BY <1>7 DEF StoreRaises, Recorded
<1>8. ASSUME NEW c \in Calls, StoreAnswers(c) PROVE TypeOK' /\ Targets'
  <2>1. Document(c) \in Documents
    BY <1>8 DEF StoreAnswers, Document, Documents
  <2>2. QED
    BY <1>8, <2>1 DEF StoreAnswers
<1>9. ASSUME NEW c \in Calls, CourierReads(c) PROVE TypeOK' /\ Targets'
  <2>1. target[c] \in Sources /\ courier[target[c]] \in Answers
    BY <1>9 DEF CourierReads
  <2>2. raced' \subseteq Calls
    BY <1>9 DEF CourierReads, Taking
  <2>3. QED
    BY <1>9, <2>1, <2>2 DEF CourierReads
<1>10. ASSUME NEW c \in Calls, CourierAnswers(c) \/ CourierEmpty(c) PROVE TypeOK' /\ Targets'
  BY <1>10 DEF CourierAnswers, CourierEmpty, CourierCleared, Recorded
<1>11. CASE UNCHANGED vars
  BY <1>11 DEF vars
<1>12. QED
  BY <1>1, <1>2, <1>3, <1>4, <1>5, <1>6, <1>7, <1>8, <1>9, <1>10, <1>11 DEF Next

\* The state of RemoteSlot is typed for any refreshes and sources.
THEOREM SlotTypesThm == Spec => []TypeOK
  BY InitTypes, SlotTypes, PTL DEF Spec

-----------------------------------------------------------------------------
(* The exception in the slot.                                              *)

LEMMA NextFailing == TypeOK /\ Failing /\ [Next]_vars => Failing'
<1> SUFFICES ASSUME TypeOK, Failing, [Next]_vars PROVE Failing'
  OBVIOUS
<1> USE DEF Failing, TypeOK, Unfinished, Raised, Exceptions, At, Goto, Fails, Fetches,
            sourceVars, slotVars, callVars, historyVars
<1>1. ASSUME SwapBegins \/ SwapInstalls \/ SwapFails \/ ClearRemote \/ Release PROVE Failing'
  BY <1>1 DEF SwapBegins, SwapInstalls, SwapFails, ClearRemote, Release
<1>2. ASSUME NEW c \in Calls, Refresh(c) \/ RefreshAsync(c) \/ Scheduled(c) \/ HandOver(c)
      PROVE Failing'
  BY <1>2 DEF Refresh, RefreshAsync, Scheduled, HandOver
<1>3. ASSUME NEW c \in Calls, RefreshMisused(c) \/ GiveUp(c) PROVE Failing'
  BY <1>3 DEF RefreshMisused, GiveUp
<1>4. ASSUME NEW c \in Calls, EnterFetch(c) PROVE Failing'
  BY <1>4 DEF EnterFetch
<1>5. ASSUME NEW c \in Calls, NothingToFetch(c) \/ AnswerRefused(c) PROVE Failing'
  BY <1>5 DEF NothingToFetch, AnswerRefused
<1>6. ASSUME NEW c \in Calls,
             StoreAnswers(c) \/ CourierReads(c) \/ CourierAnswers(c) \/ Kept(c)
      PROVE Failing'
  BY <1>6 DEF StoreAnswers, CourierReads, CourierAnswers, CourierCleared, Kept
<1>7. ASSUME NEW c \in Calls, StoreRaises(c) \/ CourierEmpty(c) PROVE Failing'
  BY <1>7 DEF StoreRaises, CourierEmpty, CourierCleared, Recorded
<1>8. ASSUME NEW c \in Calls, TakeFailure(c) PROVE Failing'
  BY <1>8 DEF TakeFailure
<1>9. CASE UNCHANGED vars
  BY <1>9 DEF vars
<1>10. QED
  BY <1>1, <1>2, <1>3, <1>4, <1>5, <1>6, <1>7, <1>8, <1>9 DEF Next

\* An exception never outlives its refresh, is attached once, and to a refresh
\* whose own fetch failed, however many refreshes and swaps run beside it.
THEOREM FailuresAreOwnedThm == Spec => []FailuresAreOwned
<1>1. Init => Failing
  BY InitSlot DEF SlotInv
<1>2. Failing /\ TypeOK => FailuresAreOwned
  BY DEF Failing, FailuresAreOwned, TypeOK, Exceptions, Raised
<1>3. QED
  BY <1>1, <1>2, NextFailing, SlotTypesThm, PTL DEF Spec

-----------------------------------------------------------------------------
(* The documents.                                                          *)

\* A call that moves on and takes nothing along.
LEMMA MovesOn ==
    ASSUME TypeOK, Carrying, NEW c \in Calls,
           NEW p \in {"queued", "detached", "failed", "returned"},
           UNCHANGED <<kind, bridge, target, answer, courier, raced>>,
           pc[c] # "taking", pc' = [pc EXCEPT ![c] = p],
           answer[c] # None => p = "returned"
    PROVE  Carrying'
<1>1. \A k \in Calls : pc'[k] = IF k = c THEN p ELSE pc[k]
  BY DEF TypeOK
<1>2. \A k \in Calls : answer[k] # None => answer[k].by \in Calls
  BY DEF TypeOK, Answers, Documents
<1>3. \A s \in Sources : courier[s] # None => courier[s].by \in Calls
  BY DEF TypeOK, Answers, Documents
<1>4. \A s \in Sources : Taking(s)' = Taking(s)
  BY <1>1 DEF Taking, At
<1>5. QED
  BY <1>1, <1>2, <1>3, <1>4 DEF Carrying

LEMMA NextCarrying == TypeOK /\ Carrying /\ [Next]_vars => Carrying'
<1> SUFFICES ASSUME TypeOK, Carrying, [Next]_vars PROVE Carrying'
  OBVIOUS
<1> USE DEF TypeOK, Answers, At, Goto, Fails, Fetches, sourceVars, slotVars, callVars,
            historyVars
<1>1. ASSUME SwapBegins PROVE Carrying'
  BY <1>1 DEF Carrying, Taking, SwapBegins, Disturbs
<1>2. ASSUME SwapInstalls \/ SwapFails \/ ClearRemote \/ Release PROVE Carrying'
  BY <1>2 DEF Carrying, Taking, SwapInstalls, SwapFails, ClearRemote, Release, Disturbs
<1>3. ASSUME NEW c \in Calls, Refresh(c) PROVE Carrying'
  BY <1>3 DEF Carrying, Taking, Refresh, Begins
<1>4. ASSUME NEW c \in Calls, RefreshAsync(c) PROVE Carrying'
  BY <1>4 DEF Carrying, Taking, RefreshAsync, Begins
<1>5. ASSUME NEW c \in Calls, RefreshMisused(c) \/ GiveUp(c) \/ Scheduled(c) PROVE Carrying'
  <2>1. answer[c] = None
    BY <1>5 DEF Carrying, RefreshMisused, GiveUp, Scheduled
  <2>2. QED
    BY <1>5, <2>1, MovesOn DEF RefreshMisused, GiveUp, Scheduled
<1>6. ASSUME NEW c \in Calls, HandOver(c) PROVE Carrying'
  <2> DEFINE s == target[c]
  <2>1. /\ s \in Sources /\ kind[s] = "async" /\ pc[c] = "awaiting" /\ answer[c] = None
        /\ courier' = [courier EXCEPT ![s] = Document(c)]
        /\ pc' = [pc EXCEPT ![c] = "queued"]
        /\ UNCHANGED <<kind, bridge, target, answer, raced>>
    <3>1. /\ pc[c] = "awaiting" /\ UNCHANGED <<kind, bridge, target, answer, raced>>
          /\ courier' = [courier EXCEPT ![s] = Document(c)]
          /\ pc' = [pc EXCEPT ![c] = "queued"]
      BY <1>6 DEF HandOver
    <3>2. target[c] # 0 /\ kind[s] = "async" /\ answer[c] = None
      BY <3>1 DEF Carrying
    <3>3. s \in Sources
      BY <3>2 DEF Sources
    <3>4. QED
      BY <3>1, <3>2, <3>3
  <2>2. \A k \in Calls : answer[k] # Document(c)
    BY <2>1 DEF Carrying, Document, Documents
  <2>3. \A t \in Sources : Taking(t)' = Taking(t)
    BY <2>1 DEF Taking
  <2>4. \A k \in Calls : pc'[k] = IF k = c THEN "queued" ELSE pc[k]
    BY <2>1
  <2>5. \A t \in Sources : courier'[t] = IF t = s THEN Document(c) ELSE courier[t]
    BY <2>1
  <2>6. /\ \A k \in Calls : answer[k] # None => answer[k].by \in Calls
        /\ \A t \in Sources : courier[t] # None => courier[t].by \in Calls
        /\ Document(c).by = c /\ Document(c).from = s
    BY DEF Documents, Document
  <2>7. QED
    BY <2>1, <2>2, <2>3, <2>4, <2>5, <2>6 DEF Carrying
<1>7. ASSUME NEW c \in Calls, EnterFetch(c) PROVE Carrying'
  BY <1>7 DEF Carrying, Taking, EnterFetch
<1>8. ASSUME NEW c \in Calls, NothingToFetch(c) \/ AnswerRefused(c) \/ Kept(c) \/ TakeFailure(c)
      PROVE Carrying'
  <2>1. Kept(c) \/ answer[c] = None
    BY <1>8 DEF Carrying, NothingToFetch, AnswerRefused, TakeFailure
  <2>2. CASE Kept(c)
    BY <2>2, MovesOn DEF Kept
  <2>3. CASE NothingToFetch(c) \/ AnswerRefused(c) \/ TakeFailure(c)
    BY <2>1, <2>3, MovesOn DEF NothingToFetch, AnswerRefused, TakeFailure, Kept
  <2>4. QED
    BY <1>8, <2>2, <2>3
<1>9. ASSUME NEW c \in Calls, StoreRaises(c) PROVE Carrying'
  <2>1. answer[c] = None
    BY <1>9 DEF Carrying, StoreRaises
  <2>2. QED
    BY <1>9, <2>1, MovesOn DEF StoreRaises, Recorded
<1>10. ASSUME NEW c \in Calls, StoreAnswers(c) PROVE Carrying'
  BY <1>10 DEF Carrying, Taking, StoreAnswers, Document, Documents
<1>11. ASSUME NEW c \in Calls, CourierReads(c) PROVE Carrying'
  <2> DEFINE s == target[c]
  <2>1. /\ s \in Sources /\ kind[s] = "async" /\ pc[c] = "fetching" /\ answer[c] = None
    <3>1. pc[c] = "fetching" /\ kind[s] = "async"
      BY <1>11 DEF CourierReads
    <3>2. target[c] # 0 /\ answer[c] = None
      BY <3>1 DEF Carrying
    <3>3. s \in Sources
      BY <3>2 DEF Sources
    <3>4. QED
      BY <3>1, <3>2, <3>3
  <2>2. /\ answer' = [answer EXCEPT ![c] = courier[s]]
        /\ pc' = [pc EXCEPT ![c] = "taking"]
        /\ raced' = raced \cup (IF Taking(s) = {} THEN {} ELSE Taking(s) \cup {c})
        /\ UNCHANGED <<kind, bridge, target, courier>>
    BY <1>11 DEF CourierReads
  <2>3. courier[s] # None => /\ courier[s].by \in Calls /\ courier[s].from = s
                             /\ pc[courier[s].by] \notin {"idle", "awaiting"}
                             /\ \A t \in Sources : t # s => courier[t] # courier[s]
    BY <2>1 DEF Carrying, Documents
  <2>4. /\ \A k \in Calls : /\ pc'[k] = IF k = c THEN "taking" ELSE pc[k]
                            /\ answer'[k] = IF k = c THEN courier[s] ELSE answer[k]
        /\ \A k \in Calls : answer[k] # None => answer[k].by \in Calls
        /\ \A t \in Sources : courier[t] # None => courier[t].by \in Calls
    BY <2>2 DEF Documents
  <2>5. \A t \in Sources : Taking(t)' = Taking(t) \cup (IF t = s THEN {c} ELSE {})
    BY <2>2, <2>4 DEF Taking
  <2>6. ASSUME NEW k \in Calls, k # c, courier[s] # None, answer[k] = courier[s]
        PROVE  c \in raced' /\ k \in raced'
    <3>1. k \in Taking(s)
      BY <2>1, <2>6 DEF Carrying
    <3>2. QED
      BY <2>2, <3>1
  <2>7. \A k, m \in Calls : answer'[k] # None /\ answer'[m] = answer'[k] /\ m # k =>
            k \in raced' /\ m \in raced'
    <3>1. raced \subseteq raced'
      BY <2>2
    <3>2. QED
      BY <2>4, <2>6, <3>1 DEF Carrying
  <2>8. \A t \in Sources : courier'[t] # None =>
            \A k \in Calls : answer'[k] = courier'[t] => k \in Taking(t)'
    BY <2>2, <2>3, <2>4, <2>5 DEF Carrying
  <2>9. QED
    BY <2>1, <2>2, <2>3, <2>4, <2>7, <2>8 DEF Carrying
<1>12. ASSUME NEW c \in Calls, CourierAnswers(c) \/ CourierEmpty(c) PROVE Carrying'
  <2> DEFINE s == target[c]
  <2>1. PICK p \in {"answered", "failed"} :
            pc' = [pc EXCEPT ![c] = p] /\ (p = "failed" => answer[c] = None)
    BY <1>12 DEF CourierAnswers, CourierEmpty, Recorded
  <2>2. /\ s \in Sources /\ pc[c] = "taking" /\ kind[s] = "async"
        /\ courier' = [courier EXCEPT ![s] = None]
        /\ UNCHANGED <<kind, bridge, target, answer, raced>>
    BY <1>12 DEF CourierAnswers, CourierEmpty, CourierCleared, Recorded, Carrying, Sources
  <2>3. /\ \A k \in Calls : pc'[k] = IF k = c THEN p ELSE pc[k]
        /\ \A t \in Sources : courier'[t] = IF t = s THEN None ELSE courier[t]
        /\ \A k \in Calls : answer[k] # None => answer[k].by \in Calls
        /\ \A t \in Sources : courier[t] # None => courier[t].by \in Calls
    BY <2>1, <2>2 DEF Documents
  <2>4. \A t \in Sources : t # s => Taking(t)' = Taking(t)
    BY <2>2, <2>3 DEF Taking
  <2>5. QED
    BY <2>1, <2>2, <2>3, <2>4 DEF Carrying
<1>13. CASE UNCHANGED vars
  BY <1>13 DEF vars, Carrying, Taking
<1>14. QED
  BY <1>1, <1>2, <1>3, <1>4, <1>5, <1>6, <1>7, <1>8, <1>9, <1>10, <1>11, <1>12, <1>13 DEF Next

\* A document goes to the engine as the document of the store it was read from,
\* whatever is swapped meanwhile, and to one refresh only, unless two were inside
\* fetch() of one courier at a time: for any refreshes and sources, with no step of
\* the courier's load and store taken for atomic.
THEOREM DocumentsAreTheStoresThm == Spec => []DocumentsAreTheStores
<1>1. Init => Carrying
  BY InitSlot DEF SlotInv
<1>2. Carrying => DocumentsAreTheStores
  BY DEF Carrying, DocumentsAreTheStores
<1>3. QED
  BY <1>1, <1>2, NextCarrying, SlotTypesThm, PTL DEF Spec

-----------------------------------------------------------------------------
(* A refresh alone.                                                        *)

\* What a refresh that nothing has overlapped yet may rely on: no other is under
\* way, its bridge is the object's, and what the courier carries is its own.
Undisturbed(c) ==
    /\ Active = {c} /\ BridgeInstalled
    /\ pc[c] \in {"awaiting", "queued"} => target[c] = bridge
    /\ pc[c] = "awaiting" => bridge # 0
    /\ pc[c] \in {"queued", "detached", "fetching"} /\ bridge # 0 =>
           courier[bridge] = [by |-> c, from |-> bridge]
    /\ pc[c] = "fetching" => object # 0 /\ target[c] = object
    /\ pc[c] \in {"taking", "answered"} => answer[c] # None /\ answer[c].by = c
    /\ pc[c] = "failed" => /\ raised[c] # "spurious"
                           /\ failure = IF raised[c] = "raised" THEN c ELSE None

GotItsOwn(c) ==
    At(c, "returned") /\ raised[c] # "ended" =>
        /\ raised[c] # "spurious"
        /\ raised[c] = "no" => answer[c].by = c
        /\ cause[c] = IF raised[c] = "raised" THEN c ELSE None

Alone(c) == c \notin overlapped => GotItsOwn(c) /\ (c \in Active => Undisturbed(c))

AloneInv == TypeOK /\ Failing /\ Carrying /\ \A c \in Calls : Alone(c)

CallStep(k) ==
    \/ Refresh(k) \/ RefreshMisused(k) \/ RefreshAsync(k)
    \/ HandOver(k) \/ GiveUp(k) \/ Scheduled(k)
    \/ EnterFetch(k) \/ NothingToFetch(k)
    \/ StoreAnswers(k) \/ CourierReads(k)
    \/ CourierAnswers(k) \/ CourierEmpty(k) \/ StoreRaises(k) \/ AnswerRefused(k)
    \/ Kept(k) \/ TakeFailure(k)

\* A swap or a release overlaps whatever is under way.
LEMMA AroundAlone ==
    ASSUME AloneInv, NEW c \in Calls, c \notin overlapped',
           SwapBegins \/ SwapInstalls \/ SwapFails \/ ClearRemote \/ Release
    PROVE  Alone(c)'
<1>1. UNCHANGED callVars /\ c \notin overlapped
  BY DEF SwapBegins, SwapInstalls, SwapFails, ClearRemote, Release, Disturbs, historyVars
<1>2. Active' = Active /\ GotItsOwn(c)' = GotItsOwn(c)
  BY <1>1 DEF callVars, Active, GotItsOwn, At
<1>3. CASE ClearRemote
  BY <1>1, <1>2, <1>3 DEF ClearRemote, AloneInv, Alone, Undisturbed, BridgeInstalled,
                          sourceVars, callVars
<1>4. CASE SwapBegins \/ SwapInstalls \/ SwapFails \/ Release
  <2>1. c \notin Active
    BY <1>4 DEF SwapBegins, SwapInstalls, SwapFails, Release, Disturbs
  <2>2. QED
    BY <1>1, <1>2, <2>1 DEF AloneInv, Alone
<1>5. QED
  BY <1>3, <1>4

\* A step of a call concerns that call, the slots and nobody else.
LEMMA CallFrame ==
    ASSUME TypeOK, NEW k \in Calls, CallStep(k)
    PROVE  /\ overlapped \subseteq overlapped'
           /\ \A c \in Calls \ {k} :
                UNCHANGED <<pc[c], target[c], answer[c], raised[c], cause[c]>>
<1> USE DEF TypeOK, At, Goto, Fails, Fetches, historyVars
<1>1. CASE Refresh(k) \/ RefreshAsync(k)
  BY <1>1 DEF Refresh, RefreshAsync, Begins
<1>2. CASE RefreshMisused(k) \/ HandOver(k) \/ GiveUp(k) \/ Scheduled(k) \/ EnterFetch(k)
  BY <1>2 DEF RefreshMisused, HandOver, GiveUp, Scheduled, EnterFetch
<1>3. CASE NothingToFetch(k) \/ StoreAnswers(k) \/ CourierReads(k) \/ CourierAnswers(k)
  BY <1>3 DEF NothingToFetch, StoreAnswers, CourierReads, CourierAnswers
<1>4. CASE StoreRaises(k) \/ CourierEmpty(k) \/ AnswerRefused(k) \/ Kept(k) \/ TakeFailure(k)
  BY <1>4 DEF StoreRaises, CourierEmpty, Recorded, AnswerRefused, Kept, TakeFailure
<1>5. QED
  BY <1>1, <1>2, <1>3, <1>4 DEF CallStep

\* While a call is undisturbed another can only begin, which disturbs it, or be
\* turned away, which touches nothing of it.
LEMMA OthersAlone ==
    ASSUME AloneInv, NEW k \in Calls, CallStep(k), NEW c \in Calls, c # k,
           c \notin overlapped'
    PROVE  Alone(c)'
<1>1. /\ UNCHANGED <<pc[c], target[c], answer[c], raised[c], cause[c]>>
      /\ c \notin overlapped
  BY CallFrame DEF AloneInv
<1>2. GotItsOwn(c)' /\ (c \in Active' <=> c \in Active)
  BY <1>1 DEF AloneInv, Alone, GotItsOwn, At, Active
<1>3. ASSUME c \in Active PROVE Undisturbed(c)'
  <2>1. Undisturbed(c) /\ pc[k] \in {"idle", "returned"}
    BY <1>1, <1>3 DEF AloneInv, Alone, Undisturbed, Active
  <2>2. ~Refresh(k) /\ ~RefreshAsync(k)
    BY <1>3 DEF Refresh, RefreshAsync, Begins
  <2>3. RefreshMisused(k)
    BY <2>1, <2>2 DEF CallStep, HandOver, GiveUp, Scheduled, EnterFetch, NothingToFetch,
       StoreAnswers, CourierReads, CourierAnswers, CourierEmpty, CourierCleared,
       StoreRaises, AnswerRefused, Kept,
       TakeFailure, At
  <2>4. /\ UNCHANGED <<sourceVars, slotVars>>
        /\ pc' = [pc EXCEPT ![k] = "returned"]
    BY <2>3 DEF RefreshMisused, Goto
  <2>5. Active' = Active
    BY <2>1, <2>4 DEF Active, AloneInv, TypeOK
  <2>6. QED
    BY <1>1, <2>1, <2>4, <2>5 DEF Undisturbed, BridgeInstalled, sourceVars, slotVars
<1>4. QED
  BY <1>2, <1>3 DEF Alone

LEMMA BeginsAlone ==
    ASSUME AloneInv, NEW c \in Calls, Refresh(c) \/ RefreshMisused(c) \/ RefreshAsync(c),
           c \notin overlapped'
    PROVE  Alone(c)'
<1>1. pc[c] = "idle"
  BY DEF Refresh, RefreshMisused, RefreshAsync, At
<1>2. CASE RefreshMisused(c)
  <2>1. pc'[c] = "returned" /\ raised'[c] = "ended"
    BY <1>2 DEF RefreshMisused, Goto, Fails, AloneInv, TypeOK
  <2>2. QED
    BY <2>1 DEF Alone, GotItsOwn, Active
<1>3. CASE Refresh(c) \/ RefreshAsync(c)
  <2>1. PICK p \in {"detached", "queued", "awaiting"} :
            /\ pc' = [pc EXCEPT ![c] = p]
            /\ p = "awaiting" <=> bridge # 0
            /\ p # "detached" => target' = [target EXCEPT ![c] = bridge]
            /\ UNCHANGED <<sourceVars, slotVars>>
    BY <1>3 DEF Refresh, RefreshAsync, Goto, Fetches
  <2>2. Active = {} /\ BridgeInstalled
    BY <1>3 DEF Refresh, RefreshAsync, Begins
  <2>3. \A k \in Calls : pc'[k] = IF k = c THEN p ELSE pc[k]
    BY <2>1 DEF AloneInv, TypeOK
  <2>4. Active' = {c}
    BY <2>2, <2>3 DEF Active
  <2>5. p # "detached" => target'[c] = bridge
    BY <2>1 DEF AloneInv, TypeOK
  <2>6. QED
    BY <2>1, <2>2, <2>3, <2>4, <2>5 DEF Alone, GotItsOwn, At, Undisturbed, BridgeInstalled,
                                        sourceVars
<1>4. QED
  BY <1>2, <1>3

\* The steps that carry an undisturbed call further.
LEMMA CarriesAlone ==
    ASSUME AloneInv, NEW c \in Calls, c \notin overlapped',
           HandOver(c) \/ Scheduled(c) \/ EnterFetch(c)
    PROVE  Alone(c)'
<1>1. /\ c \notin overlapped /\ pc[c] \in {"awaiting", "queued", "detached"}
      /\ UNCHANGED <<sourceVars, answer, raised, cause>>
  BY DEF HandOver, Scheduled, EnterFetch, At, Goto, historyVars
<1>2. Undisturbed(c)
  BY <1>1 DEF AloneInv, Alone, Active
<1>3. PICK p \in {"queued", "detached", "fetching"} : pc' = [pc EXCEPT ![c] = p]
  BY DEF HandOver, Scheduled, EnterFetch, Goto
<1>4. \A k \in Calls : pc'[k] = IF k = c THEN p ELSE pc[k]
  BY <1>3 DEF AloneInv, TypeOK
<1>5. Active' = {c} /\ BridgeInstalled'
  BY <1>1, <1>2, <1>4 DEF Active, Undisturbed, BridgeInstalled, sourceVars
<1>6. bridge \in 0..MaxSources
  BY DEF AloneInv, TypeOK
<1>7. CASE HandOver(c)
  <2>1. target[c] = bridge /\ bridge \in Sources
    BY <1>2, <1>6, <1>7 DEF HandOver, At, Undisturbed, Sources
  <2>2. /\ courier' = [courier EXCEPT ![bridge] = [by |-> c, from |-> bridge]]
        /\ pc'[c] = "queued" /\ UNCHANGED target
    BY <1>7, <2>1 DEF HandOver, Goto, Document, AloneInv, TypeOK
  <2>3. courier'[bridge] = [by |-> c, from |-> bridge]
    BY <2>1, <2>2 DEF AloneInv, TypeOK
  <2>4. QED
    BY <1>1, <1>5, <2>1, <2>2, <2>3 DEF Alone, GotItsOwn, At, Undisturbed, sourceVars
<1>8. CASE Scheduled(c)
  <2>1. pc[c] = "queued" /\ pc'[c] = "detached" /\ UNCHANGED <<target, courier>>
    BY <1>4, <1>8 DEF Scheduled, At, Goto, slotVars, AloneInv, TypeOK
  <2>2. QED
    BY <1>1, <1>2, <1>5, <2>1 DEF Alone, GotItsOwn, At, Undisturbed, sourceVars
<1>9. CASE EnterFetch(c)
  <2>1. /\ pc[c] = "detached" /\ pc'[c] = "fetching" /\ UNCHANGED courier
        /\ object # 0 /\ target'[c] = object
    BY <1>9 DEF EnterFetch, At, Goto, Fetches, AloneInv, TypeOK
  <2>2. QED
    BY <1>1, <1>2, <1>5, <2>1 DEF Alone, GotItsOwn, At, Undisturbed, sourceVars
<1>10. QED
  BY <1>7, <1>8, <1>9

\* The fetch of an undisturbed call finds what the call brought, and the slot
\* without an exception but its own.
LEMMA FetchesAlone ==
    ASSUME AloneInv, NEW c \in Calls, c \notin overlapped',
           \/ StoreAnswers(c) \/ CourierReads(c) \/ CourierAnswers(c) \/ CourierEmpty(c)
           \/ StoreRaises(c) \/ AnswerRefused(c) \/ NothingToFetch(c)
    PROVE  Alone(c)'
<1> USE DEF Goto, Fails
<1>1. /\ c \notin overlapped /\ pc[c] \in {"detached", "fetching", "taking"}
      /\ UNCHANGED sourceVars
  BY DEF StoreAnswers, CourierReads, CourierAnswers, CourierEmpty, CourierCleared,
         StoreRaises, Recorded, AnswerRefused, NothingToFetch, At, historyVars
<1>2. Undisturbed(c)
  BY <1>1 DEF AloneInv, Alone, Active
<1>3. PICK p \in {"taking", "answered", "failed"} : pc' = [pc EXCEPT ![c] = p]
  BY DEF StoreAnswers, CourierReads, CourierAnswers, CourierEmpty, StoreRaises, Recorded,
         AnswerRefused, NothingToFetch
<1>4. pc'[c] = p /\ \A k \in Calls \ {c} : pc'[k] = pc[k]
  BY <1>3 DEF AloneInv, TypeOK
<1>5. Active' = {c} /\ BridgeInstalled'
  BY <1>1, <1>2, <1>4 DEF Active, Undisturbed, BridgeInstalled, sourceVars
<1>6. failure = None
  <2>1. failure # None => failure \in Active /\ pc[failure] = "failed"
    BY DEF AloneInv, Failing, TypeOK, Exceptions, Active
  <2>2. QED
    BY <1>1, <1>2, <2>1 DEF Undisturbed
<1>7. ASSUME pc[c] = "fetching", kind[target[c]] = "async"
      PROVE  courier[target[c]] # None /\ courier[target[c]].by = c
  <2>1. courier[target[c]] = [by |-> c, from |-> target[c]]
    BY <1>2, <1>7 DEF Undisturbed, BridgeInstalled
  <2>2. target[c] \in Sources
    BY <1>2, <1>7 DEF Undisturbed, AloneInv, TypeOK, Sources
  <2>3. [by |-> c, from |-> target[c]] \in Documents
    BY <2>2 DEF Documents
  <2>4. QED
    BY <2>1, <2>3, Records
<1>8. ~CourierEmpty(c)
  BY <1>2 DEF CourierEmpty, CourierCleared, At, Undisturbed
<1>9. p \in {"taking", "answered"} => answer'[c] # None /\ answer'[c].by = c
  <2>1. CASE StoreAnswers(c)
    <3>1. answer'[c] = Document(c) /\ target[c] \in Sources
      BY <1>2, <2>1 DEF StoreAnswers, At, Undisturbed, AloneInv, TypeOK, Sources
    <3>2. Document(c) \in Documents /\ Document(c).by = c
      BY <3>1 DEF Document, Documents
    <3>3. QED
      BY <3>1, <3>2, Records
  <2>2. CASE CourierReads(c)
    BY <1>7, <2>2 DEF CourierReads, At, AloneInv, TypeOK
  <2>3. CASE CourierAnswers(c)
    BY <1>2, <2>3 DEF CourierAnswers, CourierCleared, At, Undisturbed
  <2>4. CASE StoreRaises(c) \/ AnswerRefused(c) \/ NothingToFetch(c)
    <3>1. pc'[c] = "failed"
      BY <2>4 DEF StoreRaises, Recorded, AnswerRefused, NothingToFetch, AloneInv, TypeOK
    <3>2. QED
      BY <1>4, <3>1
  <2>5. QED
    BY <1>8, <2>1, <2>2, <2>3, <2>4
<1>10. p = "failed" => /\ raised'[c] # "spurious"
                       /\ failure' = IF raised'[c] = "raised" THEN c ELSE None
  <2>1. CASE StoreRaises(c)
    BY <2>1 DEF StoreRaises, Recorded, AloneInv, TypeOK
  <2>2. CASE AnswerRefused(c) \/ NothingToFetch(c)
    BY <1>6, <2>2 DEF AnswerRefused, NothingToFetch, slotVars, AloneInv, TypeOK
  <2>3. CASE StoreAnswers(c) \/ CourierReads(c) \/ CourierAnswers(c)
    <3>1. pc'[c] # "failed"
      BY <2>3 DEF StoreAnswers, CourierReads, CourierAnswers, AloneInv, TypeOK
    <3>2. QED
      BY <1>4, <3>1
  <2>4. QED
    BY <1>8, <2>1, <2>2, <2>3
<1>11. QED
  BY <1>4, <1>5, <1>9, <1>10 DEF Alone, GotItsOwn, At, Undisturbed

LEMMA ReturnsAlone ==
    ASSUME AloneInv, NEW c \in Calls, c \notin overlapped',
           GiveUp(c) \/ Kept(c) \/ TakeFailure(c)
    PROVE  Alone(c)'
<1>1. /\ c \notin overlapped /\ pc[c] \in {"awaiting", "queued", "answered", "failed"}
      /\ pc'[c] = "returned"
  BY DEF GiveUp, Kept, TakeFailure, At, Goto, historyVars, AloneInv, TypeOK
<1>2. Undisturbed(c) /\ c \notin Active'
  BY <1>1 DEF AloneInv, Alone, Active
<1>3. CASE GiveUp(c)
  <2>1. raised'[c] = "ended"
    BY <1>3 DEF GiveUp, Fails, AloneInv, TypeOK
  <2>2. QED
    BY <1>2, <2>1 DEF Alone, GotItsOwn
<1>4. CASE Kept(c)
  <2>1. pc[c] = "answered" /\ UNCHANGED <<answer, raised, cause>>
    BY <1>4 DEF Kept, At
  <2>2. raised[c] = "no" /\ cause[c] = None
    BY <2>1 DEF AloneInv, Failing, Unfinished
  <2>3. QED
    BY <1>2, <2>1, <2>2 DEF Alone, GotItsOwn, Undisturbed
<1>5. CASE TakeFailure(c)
  <2>1. /\ pc[c] = "failed" /\ UNCHANGED <<answer, raised>>
        /\ cause'[c] = failure
    BY <1>5 DEF TakeFailure, At, AloneInv, TypeOK
  <2>2. raised[c] # "no"
    BY <2>1 DEF AloneInv, Failing
  <2>3. QED
    BY <1>2, <2>1, <2>2 DEF Alone, GotItsOwn, Undisturbed
<1>6. QED
  BY <1>3, <1>4, <1>5

LEMMA InitAlone == Init => AloneInv
<1>1. Init => \A c \in Calls : Alone(c)
  BY DEF Init, Alone, GotItsOwn, At, Active
<1>2. QED
  BY <1>1, InitSlot DEF AloneInv, SlotInv

LEMMA NextAlone == AloneInv /\ [Next]_vars => AloneInv'
<1> SUFFICES ASSUME AloneInv, [Next]_vars PROVE AloneInv'
  OBVIOUS
<1>1. TypeOK' /\ Failing' /\ Carrying'
  <2>1. Targets
    BY DEF AloneInv, Carrying, Targets
  <2>2. QED
    BY <2>1, SlotTypes, NextFailing, NextCarrying DEF AloneInv
<1>2. ASSUME NEW c \in Calls PROVE Alone(c)'
  <2>1. SUFFICES ASSUME c \notin overlapped' PROVE Alone(c)'
    BY DEF Alone
  <2>2. CASE SwapBegins \/ SwapInstalls \/ SwapFails \/ ClearRemote \/ Release
    BY <2>1, <2>2, AroundAlone
  <2>3. ASSUME NEW k \in Calls, CallStep(k), k # c PROVE Alone(c)'
    BY <2>1, <2>3, OthersAlone
  <2>4. CASE CallStep(c)
    BY <2>1, <2>4, BeginsAlone, CarriesAlone, FetchesAlone, ReturnsAlone DEF CallStep
  <2>5. CASE UNCHANGED vars
    BY <2>5 DEF AloneInv, Alone, GotItsOwn, At, Active, Undisturbed, BridgeInstalled,
                vars, sourceVars, slotVars, callVars, historyVars
  <2>6. QED
    BY <2>2, <2>3, <2>4, <2>5 DEF Next, CallStep
<1>3. QED
  BY <1>1, <1>2 DEF AloneInv

\* A refresh that nothing overlapped keeps its own document or raises with its
\* own cause, whatever was refreshed, swapped or cleared before it.
THEOREM AloneGetsItsOwnThm == Spec => []AloneGetsItsOwn
<1>1. AloneInv => AloneGetsItsOwn
  BY DEF AloneInv, Alone, GotItsOwn, AloneGetsItsOwn
<1>2. QED
  BY InitAlone, NextAlone, <1>1, PTL DEF Spec

=============================================================================
